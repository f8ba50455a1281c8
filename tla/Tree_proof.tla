------------------------------ MODULE Tree_proof ------------------------------
(***************************************************************************)
(* Proofs about Pipeline, for any package and any width of an integer: of  *)
(* the tree the parser makes, and of what the optimizer makes of it.  A    *)
(* row leads from one stage of a frame to another, item by item; from that *)
(* follows how many children each node has and which may be null, and      *)
(* which of the tokens it covers.  The optimizer folds what is visited     *)
(* from the leaves up, and leaves nothing reached that the machine can     *)
(* compute.                                                                *)
(***************************************************************************)
EXTENDS Pipeline_proof

-----------------------------------------------------------------------------
(* What a row does to the children of its frame.  The stage of a frame     *)
(* says how many children it has and which may be null; a row leads from   *)
(* one stage to another, item by item.                                     *)

Adds ==
  {<<"0", "1">>, <<"1", "2">>, <<"2", "3">>, <<"3", "4">>, <<"0", "1?">>, <<"1?", "2?">>,
   <<"2", "3?">>, <<"all", "all">>, <<"even", "odd">>, <<"odd", "even">>, <<"some", "some">>,
   <<"circuit", "circuit">>, <<"circuit", "circuit+">>}
AddsNull == {<<"0", "1?">>, <<"1?", "2?">>, <<"2", "3?">>, <<"0", "circuit">>}

(* The stage from which a node is made. *)
Takes(kind) ==
  CASE kind \in Leaf -> "0"
    [] kind = "Literal" -> "value"
    [] kind = "StatementReturn" -> "2?"
    [] kind = "StatementIf" -> "3?"
    [] kind = "StatementFor" -> "4"
    [] kind \in {"StatementWhile", "StatementForeach", "ExpressionBinaryOp", "ExpressionRange",
                 "ExpressionAssignment"} -> "2"
    [] kind \in {"DeclarationFunction", "StatementExpression", "StatementVariable",
                 "StatementConstant", "StatementLoop", "ExpressionUnaryOp", "ExpressionLambda"} -> "1"
    [] kind = "StatementCircuit" -> "circuit"
    [] kind = "ExpressionCall" -> "some"
    [] kind = "ExpressionDictionary" -> "even"
    [] OTHER -> "all"

(* Kinds of nodes that are not made by their names. *)
Unmade == {"ExpressionTuple", "ExpressionNat", "ExpressionInt"}

(* Stages that say more of the frame than how many children it has. *)
LiteralStages == {"literal", "kept", "value"}

ItsRows == {"statement", "statement_block", "parse_function_body", "extern_function"}
Flat == {"must", "oneof", "notempty", "keep", "delim", "sub", "expression", "precedence", "above",
         "infix", "nonode", "default", "node", "convert", "single", "discard"}

(* An item without rows of its own leads from the stage a to b. *)
FlatLeads(x, a, b) ==
  /\ x.do \in {"sub", "expression", "precedence", "above"} => <<a, b>> \in Adds
  /\ x.do = "sub" => x.fn \in ItsRows
  /\ x.do = "nonode" => <<a, b>> \in AddsNull
  /\ x.do = "node" =>
       x.kind \in (Kind \cup {"Literal"}) \ Unmade /\ a = Takes(x.kind) /\ b = "1"
  /\ x.do = "single" => a = "all" /\ b = "1"
  /\ x.do = "default" => a = "circuit+" /\ b = "circuit"
  /\ x.do = "discard" => a = "1" /\ b = "0"
  /\ x.do = "infix" => a = "1" /\ b = "1"
  /\ x.do = "keep" => (a = "literal" /\ b = "kept") \/ (a = "1" /\ b = "1")
  /\ x.do = "convert" => (a = "kept" /\ b = "value") \/ (a = "0" /\ b = "0")
  /\ x.do \in {"must", "oneof", "notempty", "delim"} => a = b /\ a \notin LiteralStages

(* The same of an item with rows, which S says it of. *)
LeadsIn(S, x, a, b) ==
  \/ x.do \in Flat /\ FlatLeads(x, a, b)
  \/ x.do = "opt" /\ a \notin LiteralStages /\ <<x.yes, a, b>> \in S /\ <<x.no, a, b>> \in S
  \/ x.do \in {"until", "while"} /\ a = b /\ a \notin LiteralStages /\ <<x.body, a, a>> \in S

ClosedUnderTyping(S) ==
  \A r, a, b : <<r, a, b>> \in S =>
    /\ IsSeq(r)
    /\ r = <<>> => a = b
    /\ r # <<>> => \E m : LeadsIn(S, Head(r), a, m) /\ <<Tail(r), m, b>> \in S

RowLeads(r, a, b) == \E S : ClosedUnderTyping(S) /\ <<r, a, b>> \in S
Leads(x, a, b) ==
  \/ x.do \in Flat /\ FlatLeads(x, a, b)
  \/ x.do = "opt" /\ a \notin LiteralStages /\ RowLeads(x.yes, a, b) /\ RowLeads(x.no, a, b)
  \/ x.do \in {"until", "while"} /\ a = b /\ a \notin LiteralStages /\ RowLeads(x.body, a, a)

LEMMA NothingLeads == ASSUME NEW a PROVE RowLeads(<<>>, a, a)
<1> DEFINE S == {<<<<>>, a, a>>}
<1>1. IsSeq(<<>>)
  BY NoItems DEF IsRow
<1>2. \A r, b, c : <<r, b, c>> \in S => r = <<>> /\ b = c
  OBVIOUS
<1> HIDE DEF S
<1>3. ClosedUnderTyping(S)
  BY <1>1, <1>2 DEF ClosedUnderTyping
<1> QED BY <1>3 DEF RowLeads, S

LEMMA InLarger ==
  ASSUME NEW S, NEW T, S \subseteq T, NEW x, NEW a, NEW b, LeadsIn(S, x, a, b)
  PROVE  LeadsIn(T, x, a, b)
  BY DEF LeadsIn

LEMMA JoinedClosed ==
  ASSUME NEW S, NEW T, ClosedUnderTyping(S), ClosedUnderTyping(T)
  PROVE  ClosedUnderTyping(S \cup T)
<1> DEFINE U == S \cup T
<1>1. S \subseteq U /\ T \subseteq U /\ \A x : x \in U => x \in S \/ x \in T
  OBVIOUS
<1> HIDE DEF U
<1>2. ASSUME NEW r, NEW a, NEW b, <<r, a, b>> \in U
      PROVE  /\ IsSeq(r)
             /\ r = <<>> => a = b
             /\ r # <<>> => \E m : LeadsIn(U, Head(r), a, m) /\ <<Tail(r), m, b>> \in U
  <2>1. ASSUME NEW C \in {S, T}, <<r, a, b>> \in C
        PROVE  /\ IsSeq(r)
               /\ r = <<>> => a = b
               /\ r # <<>> => \E m : LeadsIn(U, Head(r), a, m) /\ <<Tail(r), m, b>> \in U
    <3>1. ClosedUnderTyping(C) /\ C \subseteq U
      BY <1>1
    <3>2. /\ IsSeq(r)
          /\ r = <<>> => a = b
          /\ r # <<>> => \E m : LeadsIn(C, Head(r), a, m) /\ <<Tail(r), m, b>> \in C
      BY <2>1, <3>1 DEF ClosedUnderTyping
    <3>3. \A m : LeadsIn(C, Head(r), a, m) => LeadsIn(U, Head(r), a, m)
      BY <3>1, InLarger
    <3> QED BY <3>1, <3>2, <3>3
  <2> QED BY <1>1, <1>2, <2>1
<1>3. ClosedUnderTyping(U)
  BY <1>2 DEF ClosedUnderTyping
<1> QED BY <1>3 DEF U

(* A row that leads somewhere begins with an item that does, and the rest  *)
(* of it goes on from there.                                               *)
LEMMA FirstLeads ==
  ASSUME NEW r, NEW a, NEW b, RowLeads(r, a, b)
  PROVE  /\ IsSeq(r)
         /\ r = <<>> => a = b
         /\ r # <<>> => \E m : Leads(Head(r), a, m) /\ RowLeads(Tail(r), m, b)
<1>1. PICK S : ClosedUnderTyping(S) /\ <<r, a, b>> \in S
  BY DEF RowLeads
<1>2. /\ IsSeq(r)
      /\ r = <<>> => a = b
      /\ r # <<>> => \E m : LeadsIn(S, Head(r), a, m) /\ <<Tail(r), m, b>> \in S
  BY <1>1 DEF ClosedUnderTyping
<1>3. \A q, c, d : <<q, c, d>> \in S => RowLeads(q, c, d)
  BY <1>1 DEF RowLeads
<1>4. \A m : LeadsIn(S, Head(r), a, m) => Leads(Head(r), a, m)
  BY <1>3 DEF LeadsIn, Leads
<1> QED BY <1>2, <1>3, <1>4

LEMMA LeadsInSome ==
  ASSUME NEW x, NEW a, NEW b, Leads(x, a, b)
  PROVE  \E S : ClosedUnderTyping(S) /\ LeadsIn(S, x, a, b)
<1>1. CASE x.do \in Flat /\ FlatLeads(x, a, b)
  <2>1. ClosedUnderTyping({})
    BY DEF ClosedUnderTyping
  <2> QED BY <1>1, <2>1 DEF LeadsIn
<1>2. CASE x.do = "opt" /\ a \notin LiteralStages /\ RowLeads(x.yes, a, b) /\ RowLeads(x.no, a, b)
  <2>1. PICK S : ClosedUnderTyping(S) /\ <<x.yes, a, b>> \in S
    BY <1>2 DEF RowLeads
  <2>2. PICK T : ClosedUnderTyping(T) /\ <<x.no, a, b>> \in T
    BY <1>2 DEF RowLeads
  <2>3. ClosedUnderTyping(S \cup T) /\ <<x.yes, a, b>> \in S \cup T /\ <<x.no, a, b>> \in S \cup T
    BY <2>1, <2>2, JoinedClosed
  <2> QED BY <1>2, <2>3 DEF LeadsIn
<1>3. CASE x.do \in {"until", "while"} /\ a = b /\ a \notin LiteralStages /\ RowLeads(x.body, a, a)
  <2>1. PICK S : ClosedUnderTyping(S) /\ <<x.body, a, a>> \in S
    BY <1>3 DEF RowLeads
  <2> QED BY <1>3, <2>1 DEF LeadsIn
<1> QED BY <1>1, <1>2, <1>3 DEF Leads

LEMMA RowGoesOn ==
  ASSUME NEW r, IsSeq(r), r # <<>>, NEW a, NEW m, NEW b, Leads(Head(r), a, m), RowLeads(Tail(r), m, b)
  PROVE  RowLeads(r, a, b)
<1>1. PICK S : ClosedUnderTyping(S) /\ LeadsIn(S, Head(r), a, m)
  BY LeadsInSome
<1>2. PICK T : ClosedUnderTyping(T) /\ <<Tail(r), m, b>> \in T
  BY DEF RowLeads
<1> DEFINE C == S \cup T
           U == C \cup {<<r, a, b>>}
<1>3. ClosedUnderTyping(C) /\ LeadsIn(C, Head(r), a, m) /\ <<Tail(r), m, b>> \in C
  BY <1>1, <1>2, JoinedClosed, InLarger
<1>4. C \subseteq U /\ <<r, a, b>> \in U
      /\ \A q, c, d : <<q, c, d>> \in U => <<q, c, d>> \in C \/ (q = r /\ c = a /\ d = b)
  OBVIOUS
<1> HIDE DEF C, U
<1>5. \A x, c, d : LeadsIn(C, x, c, d) => LeadsIn(U, x, c, d)
  BY <1>4, InLarger
<1>6. ASSUME NEW q, NEW c, NEW d, <<q, c, d>> \in U
      PROVE  /\ IsSeq(q)
             /\ q = <<>> => c = d
             /\ q # <<>> => \E n : LeadsIn(U, Head(q), c, n) /\ <<Tail(q), n, d>> \in U
  <2>0. <<q, c, d>> \in C \/ (q = r /\ c = a /\ d = b)
    BY <1>4, <1>6
  <2>1. CASE q = r /\ c = a /\ d = b
    BY <1>3, <1>4, <1>5, <2>1
  <2>2. CASE <<q, c, d>> \in C
    <3>1. /\ IsSeq(q)
          /\ q = <<>> => c = d
          /\ q # <<>> => \E n : LeadsIn(C, Head(q), c, n) /\ <<Tail(q), n, d>> \in C
      BY <1>3, <2>2 DEF ClosedUnderTyping
    <3> QED BY <1>4, <1>5, <3>1
  <2> QED BY <2>0, <2>1, <2>2
<1>7. ClosedUnderTyping(U)
  BY <1>6 DEF ClosedUnderTyping
<1> QED BY <1>4, <1>7 DEF RowLeads

LEMMA JoinedItems ==
  ASSUME NEW r, IsSeq(r), NEW s, IsSeq(s)
  PROVE  /\ r = <<>> => r \o s = s
         /\ r # <<>> => r \o s # <<>> /\ Head(r \o s) = Head(r) /\ Tail(r \o s) = Tail(r) \o s
<1> DEFINE S == {r[i] : i \in DOMAIN r} \cup {s[i] : i \in DOMAIN s}
<1>1. r \in Seq(S) /\ s \in Seq(S)
  <2>1. r \in [1 .. Len(r) -> S] /\ Len(r) \in Nat
    BY IsSeqFacts, r \in Seq({r[i] : i \in DOMAIN r}) DEF IsSeq
  <2>2. s \in [1 .. Len(s) -> S] /\ Len(s) \in Nat
    BY IsSeqFacts, s \in Seq({s[i] : i \in DOMAIN s}) DEF IsSeq
  <2> QED BY <2>1, <2>2
<1> HIDE DEF S
<1>2. r = <<>> => r \o s = s
  BY <1>1
<1>3. ASSUME r # <<>> PROVE r \o s # <<>> /\ Head(r \o s) = Head(r) /\ Tail(r \o s) = Tail(r) \o s
  <2>1. r \o s # <<>> /\ Head(r \o s) = Head(r)
    BY <1>1, <1>3
  <2>2. Tail(r \o s) = Tail(r) \o s
    BY <1>1, <1>3
  <2> QED BY <2>1, <2>2
<1> QED BY <1>2, <1>3

LEMMA RowsJoin ==
  ASSUME NEW r, NEW s, NEW a, NEW m, NEW b, RowLeads(r, a, m), RowLeads(s, m, b)
  PROVE  RowLeads(r \o s, a, b)
<1>1. PICK S : ClosedUnderTyping(S) /\ <<r, a, m>> \in S
  BY DEF RowLeads
<1>2. PICK T : ClosedUnderTyping(T) /\ <<s, m, b>> \in T
  BY DEF RowLeads
<1> DEFINE C == S \cup T
           J == {<<j[1] \o s, j[2], b>> : j \in {k \in S : k = <<k[1], k[2], k[3]>> /\ k[3] = m}}
           U == C \cup J
<1>3. ClosedUnderTyping(C) /\ <<s, m, b>> \in C /\ IsSeq(s) /\ S \subseteq C
  <2>1. ClosedUnderTyping(C)
    BY <1>1, <1>2, JoinedClosed
  <2>2. IsSeq(s)
    BY <1>2 DEF ClosedUnderTyping
  <2> QED BY <1>2, <2>1, <2>2
<1>4. \A q, c : <<q, c, m>> \in S => <<q \o s, c, b>> \in J
  <2> TAKE q, c
  <2> DEFINE k == <<q, c, m>>
  <2>1. k = <<k[1], k[2], k[3]>> /\ k[1] = q /\ k[2] = c /\ k[3] = m
    OBVIOUS
  <2> HIDE DEF k
  <2>2. k \in S => <<k[1] \o s, k[2], b>> \in J
    BY <2>1
  <2> QED BY <2>1, <2>2 DEF k
<1>5. ASSUME NEW q, NEW c, NEW d, <<q, c, d>> \in J
      PROVE  d = b /\ \E p : q = p \o s /\ <<p, c, m>> \in S
  <2>1. PICK k \in S : k = <<k[1], k[2], k[3]>> /\ k[3] = m /\ <<q, c, d>> = <<k[1] \o s, k[2], b>>
    BY <1>5
  <2> QED BY <2>1
<1>6. C \subseteq U /\ J \subseteq U /\ \A j : j \in U => j \in C \/ j \in J
  OBVIOUS
<1> HIDE DEF C, J, U
<1>7. \A x, c, d : LeadsIn(S, x, c, d) => LeadsIn(C, x, c, d)
  BY <1>3, InLarger
<1>8. \A x, c, d : LeadsIn(C, x, c, d) => LeadsIn(U, x, c, d)
  BY <1>6, InLarger
<1>9. ASSUME NEW q, NEW c, NEW d, <<q, c, d>> \in U
      PROVE  /\ IsSeq(q)
             /\ q = <<>> => c = d
             /\ q # <<>> => \E n : LeadsIn(U, Head(q), c, n) /\ <<Tail(q), n, d>> \in U
  <2>1. ASSUME NEW p, <<p, c, d>> \in C
        PROVE  /\ IsSeq(p)
               /\ p = <<>> => c = d
               /\ p # <<>> => \E n : LeadsIn(U, Head(p), c, n) /\ <<Tail(p), n, d>> \in U
    <3>1. /\ IsSeq(p)
          /\ p = <<>> => c = d
          /\ p # <<>> => \E n : LeadsIn(C, Head(p), c, n) /\ <<Tail(p), n, d>> \in C
      BY <1>3, <2>1 DEF ClosedUnderTyping
    <3> QED BY <1>6, <1>8, <3>1
  <2>2. CASE <<q, c, d>> \in C
    BY <2>1, <2>2
  <2>3. CASE <<q, c, d>> \in J
    <3>1. PICK p : q = p \o s /\ <<p, c, m>> \in S
      BY <1>5, <2>3
    <3>2. d = b
      BY <1>5, <2>3
    <3>3. /\ IsSeq(p)
          /\ p = <<>> => c = m
          /\ p # <<>> => \E n : LeadsIn(S, Head(p), c, n) /\ <<Tail(p), n, m>> \in S
      BY <1>1, <3>1 DEF ClosedUnderTyping
    <3>4. IsSeq(q)
      BY <1>3, <3>1, <3>3, ConcatFacts
    <3>5. CASE p = <<>>
      <4>1. q = s /\ c = m
        BY <1>3, <3>1, <3>3, <3>5, JoinedItems
      <4>2. <<q, c, d>> \in C
        BY <1>3, <3>2, <4>1
      <4> QED BY <2>1, <4>2
    <3>6. CASE p # <<>>
      <4>1. PICK n : LeadsIn(S, Head(p), c, n) /\ <<Tail(p), n, m>> \in S
        BY <3>3, <3>6
      <4>2. q # <<>> /\ Head(q) = Head(p) /\ Tail(q) = Tail(p) \o s
        BY <1>3, <3>1, <3>3, <3>6, JoinedItems
      <4>3. <<Tail(p) \o s, n, b>> \in U
        BY <1>4, <1>6, <4>1
      <4>4. LeadsIn(U, Head(q), c, n)
        BY <1>7, <1>8, <4>1, <4>2
      <4> QED BY <3>2, <3>4, <4>2, <4>3, <4>4
    <3> QED BY <3>5, <3>6
  <2>4. <<q, c, d>> \in C \/ <<q, c, d>> \in J
    BY <1>6, <1>9
  <2> QED BY <2>2, <2>3, <2>4
<1>10. ClosedUnderTyping(U)
  BY <1>9 DEF ClosedUnderTyping
<1>11. IsSeq(r) /\ <<r \o s, a, b>> \in U
  BY <1>1, <1>4, <1>6 DEF ClosedUnderTyping
<1> QED BY <1>10, <1>11 DEF RowLeads

LEMMA RowLeads1 ==
  ASSUME NEW x1,
         NEW a0, NEW a1,
         Leads(x1, a0, a1)
  PROVE  RowLeads(<<x1>>, a0, a1)
<1> DEFINE r == <<x1>>
<1>1. r \in Seq({x1}) /\ r # <<>> /\ Head(r) = x1 /\ Tail(r) = <<>>
  OBVIOUS
<1>2. RowLeads(Tail(r), a1, a1)
  BY <1>1, NothingLeads
<1> HIDE DEF r
<1>3. IsSeq(r)
  BY <1>1, SeqIsSeq
<1>4. RowLeads(r, a0, a1)
  BY <1>1, <1>2, <1>3, RowGoesOn
<1> QED BY <1>4 DEF r

LEMMA RowLeads2 ==
  ASSUME NEW x1, NEW x2,
         NEW a0, NEW a1, NEW a2,
         Leads(x1, a0, a1), Leads(x2, a1, a2)
  PROVE  RowLeads(<<x1, x2>>, a0, a2)
<1> DEFINE r == <<x1, x2>>
<1>1. r \in Seq({x1, x2}) /\ r # <<>> /\ Head(r) = x1 /\ Tail(r) = <<x2>>
  OBVIOUS
<1>2. RowLeads(Tail(r), a1, a2)
  BY <1>1, RowLeads1
<1> HIDE DEF r
<1>3. IsSeq(r)
  BY <1>1, SeqIsSeq
<1>4. RowLeads(r, a0, a2)
  BY <1>1, <1>2, <1>3, RowGoesOn
<1> QED BY <1>4 DEF r

LEMMA RowLeads3 ==
  ASSUME NEW x1, NEW x2, NEW x3,
         NEW a0, NEW a1, NEW a2, NEW a3,
         Leads(x1, a0, a1), Leads(x2, a1, a2), Leads(x3, a2, a3)
  PROVE  RowLeads(<<x1, x2, x3>>, a0, a3)
<1> DEFINE r == <<x1, x2, x3>>
<1>1. r \in Seq({x1, x2, x3}) /\ r # <<>> /\ Head(r) = x1 /\ Tail(r) = <<x2, x3>>
  OBVIOUS
<1>2. RowLeads(Tail(r), a1, a3)
  BY <1>1, RowLeads2
<1> HIDE DEF r
<1>3. IsSeq(r)
  BY <1>1, SeqIsSeq
<1>4. RowLeads(r, a0, a3)
  BY <1>1, <1>2, <1>3, RowGoesOn
<1> QED BY <1>4 DEF r

LEMMA RowLeads4 ==
  ASSUME NEW x1, NEW x2, NEW x3, NEW x4,
         NEW a0, NEW a1, NEW a2, NEW a3, NEW a4,
         Leads(x1, a0, a1), Leads(x2, a1, a2), Leads(x3, a2, a3), Leads(x4, a3, a4)
  PROVE  RowLeads(<<x1, x2, x3, x4>>, a0, a4)
<1> DEFINE r == <<x1, x2, x3, x4>>
<1>1. r \in Seq({x1, x2, x3, x4}) /\ r # <<>> /\ Head(r) = x1 /\ Tail(r) = <<x2, x3, x4>>
  OBVIOUS
<1>2. RowLeads(Tail(r), a1, a4)
  BY <1>1, RowLeads3
<1> HIDE DEF r
<1>3. IsSeq(r)
  BY <1>1, SeqIsSeq
<1>4. RowLeads(r, a0, a4)
  BY <1>1, <1>2, <1>3, RowGoesOn
<1> QED BY <1>4 DEF r

LEMMA RowLeads5 ==
  ASSUME NEW x1, NEW x2, NEW x3, NEW x4, NEW x5,
         NEW a0, NEW a1, NEW a2, NEW a3, NEW a4, NEW a5,
         Leads(x1, a0, a1), Leads(x2, a1, a2), Leads(x3, a2, a3), Leads(x4, a3, a4),
         Leads(x5, a4, a5)
  PROVE  RowLeads(<<x1, x2, x3, x4, x5>>, a0, a5)
<1> DEFINE r == <<x1, x2, x3, x4, x5>>
<1>1. r \in Seq({x1, x2, x3, x4, x5}) /\ r # <<>> /\ Head(r) = x1 /\ Tail(r) = <<x2, x3, x4, x5>>
  OBVIOUS
<1>2. RowLeads(Tail(r), a1, a5)
  BY <1>1, RowLeads4
<1> HIDE DEF r
<1>3. IsSeq(r)
  BY <1>1, SeqIsSeq
<1>4. RowLeads(r, a0, a5)
  BY <1>1, <1>2, <1>3, RowGoesOn
<1> QED BY <1>4 DEF r

LEMMA RowLeads6 ==
  ASSUME NEW x1, NEW x2, NEW x3, NEW x4, NEW x5, NEW x6,
         NEW a0, NEW a1, NEW a2, NEW a3, NEW a4, NEW a5, NEW a6,
         Leads(x1, a0, a1), Leads(x2, a1, a2), Leads(x3, a2, a3), Leads(x4, a3, a4),
         Leads(x5, a4, a5), Leads(x6, a5, a6)
  PROVE  RowLeads(<<x1, x2, x3, x4, x5, x6>>, a0, a6)
<1> DEFINE r == <<x1, x2, x3, x4, x5, x6>>
<1>1. r \in Seq({x1, x2, x3, x4, x5, x6}) /\ r # <<>> /\ Head(r) = x1 /\ Tail(r) = <<x2, x3, x4, x5, x6>>
  OBVIOUS
<1>2. RowLeads(Tail(r), a1, a6)
  BY <1>1, RowLeads5
<1> HIDE DEF r
<1>3. IsSeq(r)
  BY <1>1, SeqIsSeq
<1>4. RowLeads(r, a0, a6)
  BY <1>1, <1>2, <1>3, RowGoesOn
<1> QED BY <1>4 DEF r

LEMMA RowLeads7 ==
  ASSUME NEW x1, NEW x2, NEW x3, NEW x4, NEW x5, NEW x6, NEW x7,
         NEW a0, NEW a1, NEW a2, NEW a3, NEW a4, NEW a5, NEW a6, NEW a7,
         Leads(x1, a0, a1), Leads(x2, a1, a2), Leads(x3, a2, a3), Leads(x4, a3, a4),
         Leads(x5, a4, a5), Leads(x6, a5, a6), Leads(x7, a6, a7)
  PROVE  RowLeads(<<x1, x2, x3, x4, x5, x6, x7>>, a0, a7)
<1> DEFINE r == <<x1, x2, x3, x4, x5, x6, x7>>
<1>1. r \in Seq({x1, x2, x3, x4, x5, x6, x7}) /\ r # <<>> /\ Head(r) = x1 /\ Tail(r) = <<x2, x3, x4, x5, x6, x7>>
  OBVIOUS
<1>2. RowLeads(Tail(r), a1, a7)
  BY <1>1, RowLeads6
<1> HIDE DEF r
<1>3. IsSeq(r)
  BY <1>1, SeqIsSeq
<1>4. RowLeads(r, a0, a7)
  BY <1>1, <1>2, <1>3, RowGoesOn
<1> QED BY <1>4 DEF r

LEMMA RowLeads8 ==
  ASSUME NEW x1, NEW x2, NEW x3, NEW x4, NEW x5, NEW x6, NEW x7, NEW x8,
         NEW a0, NEW a1, NEW a2, NEW a3, NEW a4, NEW a5, NEW a6, NEW a7, NEW a8,
         Leads(x1, a0, a1), Leads(x2, a1, a2), Leads(x3, a2, a3), Leads(x4, a3, a4),
         Leads(x5, a4, a5), Leads(x6, a5, a6), Leads(x7, a6, a7), Leads(x8, a7, a8)
  PROVE  RowLeads(<<x1, x2, x3, x4, x5, x6, x7, x8>>, a0, a8)
<1> DEFINE r == <<x1, x2, x3, x4, x5, x6, x7, x8>>
<1>1. r \in Seq({x1, x2, x3, x4, x5, x6, x7, x8}) /\ r # <<>> /\ Head(r) = x1 /\ Tail(r) = <<x2, x3, x4, x5, x6, x7, x8>>
  OBVIOUS
<1>2. RowLeads(Tail(r), a1, a8)
  BY <1>1, RowLeads7
<1> HIDE DEF r
<1>3. IsSeq(r)
  BY <1>1, SeqIsSeq
<1>4. RowLeads(r, a0, a8)
  BY <1>1, <1>2, <1>3, RowGoesOn
<1> QED BY <1>4 DEF r

LEMMA RowLeads9 ==
  ASSUME NEW x1, NEW x2, NEW x3, NEW x4, NEW x5, NEW x6, NEW x7, NEW x8, NEW x9,
         NEW a0, NEW a1, NEW a2, NEW a3, NEW a4, NEW a5, NEW a6, NEW a7, NEW a8, NEW a9,
         Leads(x1, a0, a1), Leads(x2, a1, a2), Leads(x3, a2, a3), Leads(x4, a3, a4),
         Leads(x5, a4, a5), Leads(x6, a5, a6), Leads(x7, a6, a7), Leads(x8, a7, a8),
         Leads(x9, a8, a9)
  PROVE  RowLeads(<<x1, x2, x3, x4, x5, x6, x7, x8, x9>>, a0, a9)
<1> DEFINE r == <<x1, x2, x3, x4, x5, x6, x7, x8, x9>>
<1>1. r \in Seq({x1, x2, x3, x4, x5, x6, x7, x8, x9}) /\ r # <<>> /\ Head(r) = x1 /\ Tail(r) = <<x2, x3, x4, x5, x6, x7, x8, x9>>
  OBVIOUS
<1>2. RowLeads(Tail(r), a1, a9)
  BY <1>1, RowLeads8
<1> HIDE DEF r
<1>3. IsSeq(r)
  BY <1>1, SeqIsSeq
<1>4. RowLeads(r, a0, a9)
  BY <1>1, <1>2, <1>3, RowGoesOn
<1> QED BY <1>4 DEF r

-----------------------------------------------------------------------------
(* The rows of the parse functions.                                        *)

LEMMA ItemLeads ==
  /\ \A k, a : a \notin LiteralStages => Leads(Must(k), a, a)
  /\ \A ks, a : a \notin LiteralStages => Leads(OneOf(ks), a, a)
  /\ \A a : a \notin LiteralStages => Leads(NotEmpty, a, a)
  /\ \A e, k, a : a \notin LiteralStages => Leads(Delim(e, k), a, a)
  /\ \A f, a, b : f \in ItsRows /\ <<a, b>> \in Adds => Leads(Sub(f), a, b)
  /\ \A a, b : <<a, b>> \in Adds => Leads(Expression, a, b)
  /\ \A p, a, b : <<a, b>> \in Adds => Leads(Prec(p), a, b)
  /\ \A a, b : <<a, b>> \in Adds => Leads(Above, a, b)
  /\ \A a, b : <<a, b>> \in AddsNull => Leads(NoNode, a, b)
  /\ \A p : Leads(Infix(p), "1", "1")
  /\ Leads(Keep, "literal", "kept") /\ Leads(Keep, "1", "1")
  /\ Leads(Convert, "kept", "value") /\ Leads(Convert, "0", "0")
  /\ Leads(Single, "all", "1") /\ Leads(Default, "circuit+", "circuit") /\ Leads(Discard, "1", "0")

<1>1. \A k, a : a \notin LiteralStages => Leads(Must(k), a, a)
  BY DEF Leads, FlatLeads, Flat, Must
<1>2. \A ks, a : a \notin LiteralStages => Leads(OneOf(ks), a, a)
  BY DEF Leads, FlatLeads, Flat, OneOf
<1>3. \A a : a \notin LiteralStages => Leads(NotEmpty, a, a)
  BY DEF Leads, FlatLeads, Flat, NotEmpty
<1>4. \A e, k, a : a \notin LiteralStages => Leads(Delim(e, k), a, a)
  BY DEF Leads, FlatLeads, Flat, Delim
<1>5. \A f, a, b : f \in ItsRows /\ <<a, b>> \in Adds => Leads(Sub(f), a, b)
  BY DEF Leads, FlatLeads, Flat, Sub
<1>6. \A a, b : <<a, b>> \in Adds => Leads(Expression, a, b)
  BY DEF Leads, FlatLeads, Flat, Expression
<1>7. \A p, a, b : <<a, b>> \in Adds => Leads(Prec(p), a, b)
  BY DEF Leads, FlatLeads, Flat, Prec
<1>8. \A a, b : <<a, b>> \in Adds => Leads(Above, a, b)
  BY DEF Leads, FlatLeads, Flat, Above
<1>9. \A a, b : <<a, b>> \in AddsNull => Leads(NoNode, a, b)
  BY DEF Leads, FlatLeads, Flat, NoNode
<1>10. \A p : Leads(Infix(p), "1", "1")
  BY DEF Leads, FlatLeads, Flat, Infix
<1>11. Leads(Keep, "literal", "kept") /\ Leads(Keep, "1", "1")
  BY DEF Leads, FlatLeads, Flat, Keep
<1>12. Leads(Convert, "kept", "value") /\ Leads(Convert, "0", "0")
  BY DEF Leads, FlatLeads, Flat, Convert
<1>13. Leads(Single, "all", "1") /\ Leads(Default, "circuit+", "circuit") /\ Leads(Discard, "1", "0")
  BY DEF Leads, FlatLeads, Flat, Single, Default, Discard
<1> QED BY <1>1, <1>2, <1>3, <1>4, <1>5, <1>6, <1>7, <1>8, <1>9, <1>10, <1>11, <1>12, <1>13

LEMMA NodeLeads ==
  /\ Leads(Node("ModuleMain"), "0", "1")
  /\ Leads(Node("ModuleDeclaration"), "0", "1")
  /\ Leads(Node("ModuleImport"), "0", "1")
  /\ Leads(Node("DeclarationEnum"), "0", "1")
  /\ Leads(Node("DeclarationObject"), "0", "1")
  /\ Leads(Node("DeclarationExternFunction"), "0", "1")
  /\ Leads(Node("DeclarationMacro"), "0", "1")
  /\ Leads(Node("StatementEmpty"), "0", "1")
  /\ Leads(Node("StatementSwitch"), "0", "1")
  /\ Leads(Node("StatementIterationControl"), "0", "1")
  /\ Leads(Node("StatementMatch"), "0", "1")
  /\ Leads(Node("ExpressionIdentifier"), "0", "1")
  /\ Leads(Node("ExpressionVoid"), "0", "1")
  /\ Leads(Node("ExpressionContinuation"), "0", "1")
  /\ Leads(Node("ExpressionChar"), "0", "1")
  /\ Leads(Node("ExpressionString"), "0", "1")
  /\ Leads(Node("Literal"), "value", "1")
  /\ Leads(Node("StatementReturn"), "2?", "1")
  /\ Leads(Node("StatementIf"), "3?", "1")
  /\ Leads(Node("StatementFor"), "4", "1")
  /\ Leads(Node("StatementWhile"), "2", "1")
  /\ Leads(Node("StatementForeach"), "2", "1")
  /\ Leads(Node("ExpressionBinaryOp"), "2", "1")
  /\ Leads(Node("ExpressionRange"), "2", "1")
  /\ Leads(Node("ExpressionAssignment"), "2", "1")
  /\ Leads(Node("DeclarationFunction"), "1", "1")
  /\ Leads(Node("StatementExpression"), "1", "1")
  /\ Leads(Node("StatementVariable"), "1", "1")
  /\ Leads(Node("StatementConstant"), "1", "1")
  /\ Leads(Node("StatementLoop"), "1", "1")
  /\ Leads(Node("ExpressionUnaryOp"), "1", "1")
  /\ Leads(Node("ExpressionLambda"), "1", "1")
  /\ Leads(Node("StatementCircuit"), "circuit", "1")
  /\ Leads(Node("ExpressionCall"), "some", "1")
  /\ Leads(Node("ExpressionDictionary"), "even", "1")
  /\ Leads(Node("DeclarationExternLibrary"), "all", "1")
  /\ Leads(Node("StatementBlock"), "all", "1")
  /\ Leads(Node("ExpressionVector"), "all", "1")
  /\ Leads(Node("ExpressionArray"), "all", "1")
<1>1. ASSUME NEW k \in (Kind \cup {"Literal"}) \ Unmade PROVE Leads(Node(k), Takes(k), "1")
  BY <1>1 DEF Leads, FlatLeads, Flat, Node
<1>2. Leads(Node("ModuleMain"), "0", "1")
  <2>1. "ModuleMain" \in (Kind \cup {"Literal"}) \ Unmade /\ Takes("ModuleMain") = "0"
    BY DEF Kind, Leaf, Arity, Vector, Takes, Unmade
  <2> QED BY <1>1, <2>1
<1>3. Leads(Node("ModuleDeclaration"), "0", "1")
  <2>1. "ModuleDeclaration" \in (Kind \cup {"Literal"}) \ Unmade /\ Takes("ModuleDeclaration") = "0"
    BY DEF Kind, Leaf, Arity, Vector, Takes, Unmade
  <2> QED BY <1>1, <2>1
<1>4. Leads(Node("ModuleImport"), "0", "1")
  <2>1. "ModuleImport" \in (Kind \cup {"Literal"}) \ Unmade /\ Takes("ModuleImport") = "0"
    BY DEF Kind, Leaf, Arity, Vector, Takes, Unmade
  <2> QED BY <1>1, <2>1
<1>5. Leads(Node("DeclarationEnum"), "0", "1")
  <2>1. "DeclarationEnum" \in (Kind \cup {"Literal"}) \ Unmade /\ Takes("DeclarationEnum") = "0"
    BY DEF Kind, Leaf, Arity, Vector, Takes, Unmade
  <2> QED BY <1>1, <2>1
<1>6. Leads(Node("DeclarationObject"), "0", "1")
  <2>1. "DeclarationObject" \in (Kind \cup {"Literal"}) \ Unmade /\ Takes("DeclarationObject") = "0"
    BY DEF Kind, Leaf, Arity, Vector, Takes, Unmade
  <2> QED BY <1>1, <2>1
<1>7. Leads(Node("DeclarationExternFunction"), "0", "1")
  <2>1. "DeclarationExternFunction" \in (Kind \cup {"Literal"}) \ Unmade /\ Takes("DeclarationExternFunction") = "0"
    BY DEF Kind, Leaf, Arity, Vector, Takes, Unmade
  <2> QED BY <1>1, <2>1
<1>8. Leads(Node("DeclarationMacro"), "0", "1")
  <2>1. "DeclarationMacro" \in (Kind \cup {"Literal"}) \ Unmade /\ Takes("DeclarationMacro") = "0"
    BY DEF Kind, Leaf, Arity, Vector, Takes, Unmade
  <2> QED BY <1>1, <2>1
<1>9. Leads(Node("StatementEmpty"), "0", "1")
  <2>1. "StatementEmpty" \in (Kind \cup {"Literal"}) \ Unmade /\ Takes("StatementEmpty") = "0"
    BY DEF Kind, Leaf, Arity, Vector, Takes, Unmade
  <2> QED BY <1>1, <2>1
<1>10. Leads(Node("StatementSwitch"), "0", "1")
  <2>1. "StatementSwitch" \in (Kind \cup {"Literal"}) \ Unmade /\ Takes("StatementSwitch") = "0"
    BY DEF Kind, Leaf, Arity, Vector, Takes, Unmade
  <2> QED BY <1>1, <2>1
<1>11. Leads(Node("StatementIterationControl"), "0", "1")
  <2>1. "StatementIterationControl" \in (Kind \cup {"Literal"}) \ Unmade /\ Takes("StatementIterationControl") = "0"
    BY DEF Kind, Leaf, Arity, Vector, Takes, Unmade
  <2> QED BY <1>1, <2>1
<1>12. Leads(Node("StatementMatch"), "0", "1")
  <2>1. "StatementMatch" \in (Kind \cup {"Literal"}) \ Unmade /\ Takes("StatementMatch") = "0"
    BY DEF Kind, Leaf, Arity, Vector, Takes, Unmade
  <2> QED BY <1>1, <2>1
<1>13. Leads(Node("ExpressionIdentifier"), "0", "1")
  <2>1. "ExpressionIdentifier" \in (Kind \cup {"Literal"}) \ Unmade /\ Takes("ExpressionIdentifier") = "0"
    BY DEF Kind, Leaf, Arity, Vector, Takes, Unmade
  <2> QED BY <1>1, <2>1
<1>14. Leads(Node("ExpressionVoid"), "0", "1")
  <2>1. "ExpressionVoid" \in (Kind \cup {"Literal"}) \ Unmade /\ Takes("ExpressionVoid") = "0"
    BY DEF Kind, Leaf, Arity, Vector, Takes, Unmade
  <2> QED BY <1>1, <2>1
<1>15. Leads(Node("ExpressionContinuation"), "0", "1")
  <2>1. "ExpressionContinuation" \in (Kind \cup {"Literal"}) \ Unmade /\ Takes("ExpressionContinuation") = "0"
    BY DEF Kind, Leaf, Arity, Vector, Takes, Unmade
  <2> QED BY <1>1, <2>1
<1>16. Leads(Node("ExpressionChar"), "0", "1")
  <2>1. "ExpressionChar" \in (Kind \cup {"Literal"}) \ Unmade /\ Takes("ExpressionChar") = "0"
    BY DEF Kind, Leaf, Arity, Vector, Takes, Unmade
  <2> QED BY <1>1, <2>1
<1>17. Leads(Node("ExpressionString"), "0", "1")
  <2>1. "ExpressionString" \in (Kind \cup {"Literal"}) \ Unmade /\ Takes("ExpressionString") = "0"
    BY DEF Kind, Leaf, Arity, Vector, Takes, Unmade
  <2> QED BY <1>1, <2>1
<1>18. Leads(Node("Literal"), "value", "1")
  <2>1. "Literal" \in (Kind \cup {"Literal"}) \ Unmade /\ Takes("Literal") = "value"
    BY DEF Kind, Leaf, Arity, Vector, Takes, Unmade
  <2> QED BY <1>1, <2>1
<1>19. Leads(Node("StatementReturn"), "2?", "1")
  <2>1. "StatementReturn" \in (Kind \cup {"Literal"}) \ Unmade /\ Takes("StatementReturn") = "2?"
    BY DEF Kind, Leaf, Arity, Vector, Takes, Unmade
  <2> QED BY <1>1, <2>1
<1>20. Leads(Node("StatementIf"), "3?", "1")
  <2>1. "StatementIf" \in (Kind \cup {"Literal"}) \ Unmade /\ Takes("StatementIf") = "3?"
    BY DEF Kind, Leaf, Arity, Vector, Takes, Unmade
  <2> QED BY <1>1, <2>1
<1>21. Leads(Node("StatementFor"), "4", "1")
  <2>1. "StatementFor" \in (Kind \cup {"Literal"}) \ Unmade /\ Takes("StatementFor") = "4"
    BY DEF Kind, Leaf, Arity, Vector, Takes, Unmade
  <2> QED BY <1>1, <2>1
<1>22. Leads(Node("StatementWhile"), "2", "1")
  <2>1. "StatementWhile" \in (Kind \cup {"Literal"}) \ Unmade /\ Takes("StatementWhile") = "2"
    BY DEF Kind, Leaf, Arity, Vector, Takes, Unmade
  <2> QED BY <1>1, <2>1
<1>23. Leads(Node("StatementForeach"), "2", "1")
  <2>1. "StatementForeach" \in (Kind \cup {"Literal"}) \ Unmade /\ Takes("StatementForeach") = "2"
    BY DEF Kind, Leaf, Arity, Vector, Takes, Unmade
  <2> QED BY <1>1, <2>1
<1>24. Leads(Node("ExpressionBinaryOp"), "2", "1")
  <2>1. "ExpressionBinaryOp" \in (Kind \cup {"Literal"}) \ Unmade /\ Takes("ExpressionBinaryOp") = "2"
    BY DEF Kind, Leaf, Arity, Vector, Takes, Unmade
  <2> QED BY <1>1, <2>1
<1>25. Leads(Node("ExpressionRange"), "2", "1")
  <2>1. "ExpressionRange" \in (Kind \cup {"Literal"}) \ Unmade /\ Takes("ExpressionRange") = "2"
    BY DEF Kind, Leaf, Arity, Vector, Takes, Unmade
  <2> QED BY <1>1, <2>1
<1>26. Leads(Node("ExpressionAssignment"), "2", "1")
  <2>1. "ExpressionAssignment" \in (Kind \cup {"Literal"}) \ Unmade /\ Takes("ExpressionAssignment") = "2"
    BY DEF Kind, Leaf, Arity, Vector, Takes, Unmade
  <2> QED BY <1>1, <2>1
<1>27. Leads(Node("DeclarationFunction"), "1", "1")
  <2>1. "DeclarationFunction" \in (Kind \cup {"Literal"}) \ Unmade /\ Takes("DeclarationFunction") = "1"
    BY DEF Kind, Leaf, Arity, Vector, Takes, Unmade
  <2> QED BY <1>1, <2>1
<1>28. Leads(Node("StatementExpression"), "1", "1")
  <2>1. "StatementExpression" \in (Kind \cup {"Literal"}) \ Unmade /\ Takes("StatementExpression") = "1"
    BY DEF Kind, Leaf, Arity, Vector, Takes, Unmade
  <2> QED BY <1>1, <2>1
<1>29. Leads(Node("StatementVariable"), "1", "1")
  <2>1. "StatementVariable" \in (Kind \cup {"Literal"}) \ Unmade /\ Takes("StatementVariable") = "1"
    BY DEF Kind, Leaf, Arity, Vector, Takes, Unmade
  <2> QED BY <1>1, <2>1
<1>30. Leads(Node("StatementConstant"), "1", "1")
  <2>1. "StatementConstant" \in (Kind \cup {"Literal"}) \ Unmade /\ Takes("StatementConstant") = "1"
    BY DEF Kind, Leaf, Arity, Vector, Takes, Unmade
  <2> QED BY <1>1, <2>1
<1>31. Leads(Node("StatementLoop"), "1", "1")
  <2>1. "StatementLoop" \in (Kind \cup {"Literal"}) \ Unmade /\ Takes("StatementLoop") = "1"
    BY DEF Kind, Leaf, Arity, Vector, Takes, Unmade
  <2> QED BY <1>1, <2>1
<1>32. Leads(Node("ExpressionUnaryOp"), "1", "1")
  <2>1. "ExpressionUnaryOp" \in (Kind \cup {"Literal"}) \ Unmade /\ Takes("ExpressionUnaryOp") = "1"
    BY DEF Kind, Leaf, Arity, Vector, Takes, Unmade
  <2> QED BY <1>1, <2>1
<1>33. Leads(Node("ExpressionLambda"), "1", "1")
  <2>1. "ExpressionLambda" \in (Kind \cup {"Literal"}) \ Unmade /\ Takes("ExpressionLambda") = "1"
    BY DEF Kind, Leaf, Arity, Vector, Takes, Unmade
  <2> QED BY <1>1, <2>1
<1>34. Leads(Node("StatementCircuit"), "circuit", "1")
  <2>1. "StatementCircuit" \in (Kind \cup {"Literal"}) \ Unmade /\ Takes("StatementCircuit") = "circuit"
    BY DEF Kind, Leaf, Arity, Vector, Takes, Unmade
  <2> QED BY <1>1, <2>1
<1>35. Leads(Node("ExpressionCall"), "some", "1")
  <2>1. "ExpressionCall" \in (Kind \cup {"Literal"}) \ Unmade /\ Takes("ExpressionCall") = "some"
    BY DEF Kind, Leaf, Arity, Vector, Takes, Unmade
  <2> QED BY <1>1, <2>1
<1>36. Leads(Node("ExpressionDictionary"), "even", "1")
  <2>1. "ExpressionDictionary" \in (Kind \cup {"Literal"}) \ Unmade /\ Takes("ExpressionDictionary") = "even"
    BY DEF Kind, Leaf, Arity, Vector, Takes, Unmade
  <2> QED BY <1>1, <2>1
<1>37. Leads(Node("DeclarationExternLibrary"), "all", "1")
  <2>1. "DeclarationExternLibrary" \in (Kind \cup {"Literal"}) \ Unmade /\ Takes("DeclarationExternLibrary") = "all"
    BY DEF Kind, Leaf, Arity, Vector, Takes, Unmade
  <2> QED BY <1>1, <2>1
<1>38. Leads(Node("StatementBlock"), "all", "1")
  <2>1. "StatementBlock" \in (Kind \cup {"Literal"}) \ Unmade /\ Takes("StatementBlock") = "all"
    BY DEF Kind, Leaf, Arity, Vector, Takes, Unmade
  <2> QED BY <1>1, <2>1
<1>39. Leads(Node("ExpressionVector"), "all", "1")
  <2>1. "ExpressionVector" \in (Kind \cup {"Literal"}) \ Unmade /\ Takes("ExpressionVector") = "all"
    BY DEF Kind, Leaf, Arity, Vector, Takes, Unmade
  <2> QED BY <1>1, <2>1
<1>40. Leads(Node("ExpressionArray"), "all", "1")
  <2>1. "ExpressionArray" \in (Kind \cup {"Literal"}) \ Unmade /\ Takes("ExpressionArray") = "all"
    BY DEF Kind, Leaf, Arity, Vector, Takes, Unmade
  <2> QED BY <1>1, <2>1
<1> QED BY <1>2, <1>3, <1>4, <1>5, <1>6, <1>7, <1>8, <1>9, <1>10, <1>11, <1>12, <1>13, <1>14, <1>15, <1>16, <1>17, <1>18, <1>19, <1>20, <1>21, <1>22, <1>23, <1>24, <1>25, <1>26, <1>27, <1>28, <1>29, <1>30, <1>31, <1>32, <1>33, <1>34, <1>35, <1>36, <1>37, <1>38, <1>39, <1>40

LEMMA NestedLeads ==
  /\ \A a : a \notin LiteralStages => Leads(Identifier, a, a) /\ Leads(Typing, a, a) /\ Leads(Params, a, a)
  /\ \A a, e, k : a \notin LiteralStages => Leads(Fields(e, k), a, a)
  /\ \A e : Leads(List(e), "all", "all") /\ Leads(List(e), "some", "some")
<1>1. ASSUME NEW k, NEW yes, NEW no, NEW a, NEW b, a \notin LiteralStages, RowLeads(yes, a, b), RowLeads(no, a, b)
      PROVE  Leads(Opt(k, yes, no), a, b)
  BY <1>1 DEF Leads, Opt
<1>2. ASSUME NEW k, NEW body, NEW a, a \notin LiteralStages, RowLeads(body, a, a)
      PROVE  Leads(Until(k, body), a, a)
  BY <1>2 DEF Leads, Until
<1>3. ASSUME NEW a, a \notin LiteralStages PROVE Leads(Identifier, a, a) /\ Leads(Typing, a, a)
  <2>1. Leads(Identifier, a, a)
    BY <1>3, ItemLeads DEF Identifier
  <2> QED BY <1>1, <1>3, <2>1, RowLeads1, NothingLeads DEF Typing
<1>4. ASSUME NEW a, NEW e, NEW k, a \notin LiteralStages PROVE Leads(Fields(e, k), a, a)
  <2>1. Leads(Delim(e, k), a, a)
    BY <1>4, ItemLeads
  <2>2. RowLeads(<<Identifier, Typing, Delim(e, k)>>, a, a)
    BY <1>3, <1>4, <2>1, RowLeads3
  <2> QED BY <1>2, <1>4, <2>2 DEF Fields
<1>5. ASSUME NEW a, a \notin LiteralStages PROVE Leads(Params, a, a)
  <2>1. RowLeads(<<Fields(")", ",")>>, a, a)
    BY <1>4, <1>5, RowLeads1
  <2> QED BY <1>1, <1>5, <2>1, NothingLeads DEF Params
<1>6. ASSUME NEW e, NEW a \in {"all", "some"} PROVE Leads(List(e), a, a)
  <2>1. <<a, a>> \in Adds /\ a \notin LiteralStages
    BY DEF Adds, LiteralStages
  <2>2. Leads(Expression, a, a) /\ Leads(Delim(e, ","), a, a)
    BY <2>1, ItemLeads
  <2>3. RowLeads(<<Expression, Delim(e, ",")>>, a, a)
    BY <2>2, RowLeads2
  <2> QED BY <1>2, <2>1, <2>3 DEF List
<1> QED BY <1>3, <1>4, <1>5, <1>6

LEMMA OptLeads ==
  ASSUME NEW k, NEW yes, NEW no, NEW a, NEW b, a \notin LiteralStages, RowLeads(yes, a, b), RowLeads(no, a, b)
  PROVE  Leads(Opt(k, yes, no), a, b)
  BY DEF Leads, Opt

LEMMA LoopLeads ==
  ASSUME NEW k, NEW body, NEW a, a \notin LiteralStages, RowLeads(body, a, a)
  PROVE  Leads(Until(k, body), a, a) /\ Leads(While(k, body), a, a)
  BY DEF Leads, Until, While

LEMMA PlainRowsLead ==
  /\ RowLeads(declaration_main, "0", "1")
  /\ RowLeads(declaration_enum, "0", "1")
  /\ RowLeads(declaration_object, "0", "1")
  /\ RowLeads(declaration_macro, "0", "1")
  /\ RowLeads(statement_empty, "0", "1")
  /\ RowLeads(statement_expression, "0", "1")
  /\ RowLeads(statement_variable, "0", "1")
  /\ RowLeads(statement_constant, "0", "1")
  /\ RowLeads(statement_switch, "0", "1")
  /\ RowLeads(statement_itercontrol, "0", "1")
  /\ RowLeads(statement_while, "0", "1")
  /\ RowLeads(statement_loop, "0", "1")
  /\ RowLeads(statement_for, "0", "1")
  /\ RowLeads(statement_foreach, "0", "1")
  /\ RowLeads(statement_match, "0", "1")
  /\ RowLeads(expression_identifier, "0", "1")
  /\ RowLeads(expression_void, "0", "1")
  /\ RowLeads(expression_continuation, "0", "1")
  /\ RowLeads(expression_literal, "literal", "1")
  /\ RowLeads(expression_char, "0", "1")
  /\ RowLeads(expression_string, "0", "1")
  /\ RowLeads(expression_unary, "0", "1")
  /\ RowLeads(expression_binary, "1", "1")
  /\ RowLeads(expression_tuple, "all", "1")
  /\ RowLeads(expression_range, "1", "1")
  /\ RowLeads(expression_vector, "all", "1")
  /\ RowLeads(expression_array, "all", "1")
  /\ RowLeads(expression_assignment, "1", "1")
  /\ RowLeads(expression_call, "some", "1")
<1>1. RowLeads(declaration_main, "0", "1")
  <2> DEFINE x1 == Must("main")
             x2 == Must(";")
             x3 == Node("ModuleMain")
  <2>1. Leads(x1, "0", "0")
    BY ItemLeads DEF LiteralStages, Adds, AddsNull, ItsRows
  <2>2. Leads(x2, "0", "0")
    BY ItemLeads DEF LiteralStages, Adds, AddsNull, ItsRows
  <2>3. Leads(x3, "0", "1")
    BY NodeLeads
  <2>4. declaration_main = <<x1, x2, x3>>
    BY DEF declaration_main
  <2> HIDE DEF x1, x2, x3
  <2> QED BY <2>1, <2>2, <2>3, <2>4, RowLeads3
<1>2. RowLeads(declaration_enum, "0", "1")
  <2> DEFINE x1 == Must("enum")
             x2 == Identifier
             x3 == Must("{")
             x4 == Fields("}", ";")
             x5 == Node("DeclarationEnum")
  <2>1. Leads(x1, "0", "0")
    BY ItemLeads DEF LiteralStages, Adds, AddsNull, ItsRows
  <2>2. Leads(x2, "0", "0")
    BY NestedLeads DEF LiteralStages
  <2>3. Leads(x3, "0", "0")
    BY ItemLeads DEF LiteralStages, Adds, AddsNull, ItsRows
  <2>4. Leads(x4, "0", "0")
    BY NestedLeads DEF LiteralStages
  <2>5. Leads(x5, "0", "1")
    BY NodeLeads
  <2>6. declaration_enum = <<x1, x2, x3, x4, x5>>
    BY DEF declaration_enum
  <2> HIDE DEF x1, x2, x3, x4, x5
  <2> QED BY <2>1, <2>2, <2>3, <2>4, <2>5, <2>6, RowLeads5
<1>3. RowLeads(declaration_object, "0", "1")
  <2> DEFINE x1 == Must("obj")
             x2 == Identifier
             x3 == Typing
             x4 == Must("{")
             x5 == Must("}")
             x6 == Node("DeclarationObject")
  <2>1. Leads(x1, "0", "0")
    BY ItemLeads DEF LiteralStages, Adds, AddsNull, ItsRows
  <2>2. Leads(x2, "0", "0")
    BY NestedLeads DEF LiteralStages
  <2>3. Leads(x3, "0", "0")
    BY NestedLeads DEF LiteralStages
  <2>4. Leads(x4, "0", "0")
    BY ItemLeads DEF LiteralStages, Adds, AddsNull, ItsRows
  <2>5. Leads(x5, "0", "0")
    BY ItemLeads DEF LiteralStages, Adds, AddsNull, ItsRows
  <2>6. Leads(x6, "0", "1")
    BY NodeLeads
  <2>7. declaration_object = <<x1, x2, x3, x4, x5, x6>>
    BY DEF declaration_object
  <2> HIDE DEF x1, x2, x3, x4, x5, x6
  <2> QED BY <2>1, <2>2, <2>3, <2>4, <2>5, <2>6, <2>7, RowLeads6
<1>4. RowLeads(declaration_macro, "0", "1")
  <2> DEFINE x1 == Must("macro")
             x2 == Identifier
             x3 == Must("{")
             x4 == Must("}")
             x5 == Node("DeclarationMacro")
  <2>1. Leads(x1, "0", "0")
    BY ItemLeads DEF LiteralStages, Adds, AddsNull, ItsRows
  <2>2. Leads(x2, "0", "0")
    BY NestedLeads DEF LiteralStages
  <2>3. Leads(x3, "0", "0")
    BY ItemLeads DEF LiteralStages, Adds, AddsNull, ItsRows
  <2>4. Leads(x4, "0", "0")
    BY ItemLeads DEF LiteralStages, Adds, AddsNull, ItsRows
  <2>5. Leads(x5, "0", "1")
    BY NodeLeads
  <2>6. declaration_macro = <<x1, x2, x3, x4, x5>>
    BY DEF declaration_macro
  <2> HIDE DEF x1, x2, x3, x4, x5
  <2> QED BY <2>1, <2>2, <2>3, <2>4, <2>5, <2>6, RowLeads5
<1>5. RowLeads(statement_empty, "0", "1")
  <2> DEFINE x1 == Must(";")
             x2 == Node("StatementEmpty")
  <2>1. Leads(x1, "0", "0")
    BY ItemLeads DEF LiteralStages, Adds, AddsNull, ItsRows
  <2>2. Leads(x2, "0", "1")
    BY NodeLeads
  <2>3. statement_empty = <<x1, x2>>
    BY DEF statement_empty
  <2> HIDE DEF x1, x2
  <2> QED BY <2>1, <2>2, <2>3, RowLeads2
<1>6. RowLeads(statement_expression, "0", "1")
  <2> DEFINE x1 == Expression
             x2 == Must(";")
             x3 == Node("StatementExpression")
  <2>1. Leads(x1, "0", "1")
    BY ItemLeads DEF LiteralStages, Adds, AddsNull, ItsRows
  <2>2. Leads(x2, "1", "1")
    BY ItemLeads DEF LiteralStages, Adds, AddsNull, ItsRows
  <2>3. Leads(x3, "1", "1")
    BY NodeLeads
  <2>4. statement_expression = <<x1, x2, x3>>
    BY DEF statement_expression
  <2> HIDE DEF x1, x2, x3
  <2> QED BY <2>1, <2>2, <2>3, <2>4, RowLeads3
<1>7. RowLeads(statement_variable, "0", "1")
  <2> DEFINE x1 == OneOf({"let", "def"})
             x2 == Identifier
             x3 == Typing
             x4 == Must("=")
             x5 == Expression
             x6 == Must(";")
             x7 == Node("StatementVariable")
  <2>1. Leads(x1, "0", "0")
    BY ItemLeads DEF LiteralStages, Adds, AddsNull, ItsRows
  <2>2. Leads(x2, "0", "0")
    BY NestedLeads DEF LiteralStages
  <2>3. Leads(x3, "0", "0")
    BY NestedLeads DEF LiteralStages
  <2>4. Leads(x4, "0", "0")
    BY ItemLeads DEF LiteralStages, Adds, AddsNull, ItsRows
  <2>5. Leads(x5, "0", "1")
    BY ItemLeads DEF LiteralStages, Adds, AddsNull, ItsRows
  <2>6. Leads(x6, "1", "1")
    BY ItemLeads DEF LiteralStages, Adds, AddsNull, ItsRows
  <2>7. Leads(x7, "1", "1")
    BY NodeLeads
  <2>8. statement_variable = <<x1, x2, x3, x4, x5, x6, x7>>
    BY DEF statement_variable
  <2> HIDE DEF x1, x2, x3, x4, x5, x6, x7
  <2> QED BY <2>1, <2>2, <2>3, <2>4, <2>5, <2>6, <2>7, <2>8, RowLeads7
<1>8. RowLeads(statement_constant, "0", "1")
  <2> DEFINE x1 == Must("const")
             x2 == Identifier
             x3 == Typing
             x4 == Must("=")
             x5 == Expression
             x6 == Must(";")
             x7 == Node("StatementConstant")
  <2>1. Leads(x1, "0", "0")
    BY ItemLeads DEF LiteralStages, Adds, AddsNull, ItsRows
  <2>2. Leads(x2, "0", "0")
    BY NestedLeads DEF LiteralStages
  <2>3. Leads(x3, "0", "0")
    BY NestedLeads DEF LiteralStages
  <2>4. Leads(x4, "0", "0")
    BY ItemLeads DEF LiteralStages, Adds, AddsNull, ItsRows
  <2>5. Leads(x5, "0", "1")
    BY ItemLeads DEF LiteralStages, Adds, AddsNull, ItsRows
  <2>6. Leads(x6, "1", "1")
    BY ItemLeads DEF LiteralStages, Adds, AddsNull, ItsRows
  <2>7. Leads(x7, "1", "1")
    BY NodeLeads
  <2>8. statement_constant = <<x1, x2, x3, x4, x5, x6, x7>>
    BY DEF statement_constant
  <2> HIDE DEF x1, x2, x3, x4, x5, x6, x7
  <2> QED BY <2>1, <2>2, <2>3, <2>4, <2>5, <2>6, <2>7, <2>8, RowLeads7
<1>9. RowLeads(statement_switch, "0", "1")
  <2> DEFINE x1 == Must("switch")
             x2 == Identifier
             x3 == Must(";")
             x4 == Node("StatementSwitch")
  <2>1. Leads(x1, "0", "0")
    BY ItemLeads DEF LiteralStages, Adds, AddsNull, ItsRows
  <2>2. Leads(x2, "0", "0")
    BY NestedLeads DEF LiteralStages
  <2>3. Leads(x3, "0", "0")
    BY ItemLeads DEF LiteralStages, Adds, AddsNull, ItsRows
  <2>4. Leads(x4, "0", "1")
    BY NodeLeads
  <2>5. statement_switch = <<x1, x2, x3, x4>>
    BY DEF statement_switch
  <2> HIDE DEF x1, x2, x3, x4
  <2> QED BY <2>1, <2>2, <2>3, <2>4, <2>5, RowLeads4
<1>10. RowLeads(statement_itercontrol, "0", "1")
  <2> DEFINE x1 == OneOf({"break", "continue"})
             x2 == Must(";")
             x3 == Node("StatementIterationControl")
  <2>1. Leads(x1, "0", "0")
    BY ItemLeads DEF LiteralStages, Adds, AddsNull, ItsRows
  <2>2. Leads(x2, "0", "0")
    BY ItemLeads DEF LiteralStages, Adds, AddsNull, ItsRows
  <2>3. Leads(x3, "0", "1")
    BY NodeLeads
  <2>4. statement_itercontrol = <<x1, x2, x3>>
    BY DEF statement_itercontrol
  <2> HIDE DEF x1, x2, x3
  <2> QED BY <2>1, <2>2, <2>3, <2>4, RowLeads3
<1>11. RowLeads(statement_while, "0", "1")
  <2> DEFINE x1 == Must("while")
             x2 == Must("(")
             x3 == Expression
             x4 == Must(")")
             x5 == Sub("statement")
             x6 == Node("StatementWhile")
  <2>1. Leads(x1, "0", "0")
    BY ItemLeads DEF LiteralStages, Adds, AddsNull, ItsRows
  <2>2. Leads(x2, "0", "0")
    BY ItemLeads DEF LiteralStages, Adds, AddsNull, ItsRows
  <2>3. Leads(x3, "0", "1")
    BY ItemLeads DEF LiteralStages, Adds, AddsNull, ItsRows
  <2>4. Leads(x4, "1", "1")
    BY ItemLeads DEF LiteralStages, Adds, AddsNull, ItsRows
  <2>5. Leads(x5, "1", "2")
    BY ItemLeads DEF LiteralStages, Adds, AddsNull, ItsRows
  <2>6. Leads(x6, "2", "1")
    BY NodeLeads
  <2>7. statement_while = <<x1, x2, x3, x4, x5, x6>>
    BY DEF statement_while
  <2> HIDE DEF x1, x2, x3, x4, x5, x6
  <2> QED BY <2>1, <2>2, <2>3, <2>4, <2>5, <2>6, <2>7, RowLeads6
<1>12. RowLeads(statement_loop, "0", "1")
  <2> DEFINE x1 == Must("loop")
             x2 == Sub("statement")
             x3 == Node("StatementLoop")
  <2>1. Leads(x1, "0", "0")
    BY ItemLeads DEF LiteralStages, Adds, AddsNull, ItsRows
  <2>2. Leads(x2, "0", "1")
    BY ItemLeads DEF LiteralStages, Adds, AddsNull, ItsRows
  <2>3. Leads(x3, "1", "1")
    BY NodeLeads
  <2>4. statement_loop = <<x1, x2, x3>>
    BY DEF statement_loop
  <2> HIDE DEF x1, x2, x3
  <2> QED BY <2>1, <2>2, <2>3, <2>4, RowLeads3
<1>13. RowLeads(statement_for, "0", "1")
  <2> DEFINE x1 == Must("for")
             x2 == Must("(")
             x3 == Sub("statement")
             x4 == Expression
             x5 == Must(";")
             x6 == Expression
             x7 == Must(")")
             x8 == Sub("statement")
             x9 == Node("StatementFor")
  <2>1. Leads(x1, "0", "0")
    BY ItemLeads DEF LiteralStages, Adds, AddsNull, ItsRows
  <2>2. Leads(x2, "0", "0")
    BY ItemLeads DEF LiteralStages, Adds, AddsNull, ItsRows
  <2>3. Leads(x3, "0", "1")
    BY ItemLeads DEF LiteralStages, Adds, AddsNull, ItsRows
  <2>4. Leads(x4, "1", "2")
    BY ItemLeads DEF LiteralStages, Adds, AddsNull, ItsRows
  <2>5. Leads(x5, "2", "2")
    BY ItemLeads DEF LiteralStages, Adds, AddsNull, ItsRows
  <2>6. Leads(x6, "2", "3")
    BY ItemLeads DEF LiteralStages, Adds, AddsNull, ItsRows
  <2>7. Leads(x7, "3", "3")
    BY ItemLeads DEF LiteralStages, Adds, AddsNull, ItsRows
  <2>8. Leads(x8, "3", "4")
    BY ItemLeads DEF LiteralStages, Adds, AddsNull, ItsRows
  <2>9. Leads(x9, "4", "1")
    BY NodeLeads
  <2>10. statement_for = <<x1, x2, x3, x4, x5, x6, x7, x8, x9>>
    BY DEF statement_for
  <2> HIDE DEF x1, x2, x3, x4, x5, x6, x7, x8, x9
  <2> QED BY <2>1, <2>2, <2>3, <2>4, <2>5, <2>6, <2>7, <2>8, <2>9, <2>10, RowLeads9
<1>14. RowLeads(statement_foreach, "0", "1")
  <2> DEFINE x1 == Must("foreach")
             x2 == Must("(")
             x3 == OneOf({"let", "def"})
             x4 == Identifier
             x5 == Must("<-")
             x6 == Expression
             x7 == Must(")")
             x8 == Sub("statement")
             x9 == Node("StatementForeach")
  <2>1. Leads(x1, "0", "0")
    BY ItemLeads DEF LiteralStages, Adds, AddsNull, ItsRows
  <2>2. Leads(x2, "0", "0")
    BY ItemLeads DEF LiteralStages, Adds, AddsNull, ItsRows
  <2>3. Leads(x3, "0", "0")
    BY ItemLeads DEF LiteralStages, Adds, AddsNull, ItsRows
  <2>4. Leads(x4, "0", "0")
    BY NestedLeads DEF LiteralStages
  <2>5. Leads(x5, "0", "0")
    BY ItemLeads DEF LiteralStages, Adds, AddsNull, ItsRows
  <2>6. Leads(x6, "0", "1")
    BY ItemLeads DEF LiteralStages, Adds, AddsNull, ItsRows
  <2>7. Leads(x7, "1", "1")
    BY ItemLeads DEF LiteralStages, Adds, AddsNull, ItsRows
  <2>8. Leads(x8, "1", "2")
    BY ItemLeads DEF LiteralStages, Adds, AddsNull, ItsRows
  <2>9. Leads(x9, "2", "1")
    BY NodeLeads
  <2>10. statement_foreach = <<x1, x2, x3, x4, x5, x6, x7, x8, x9>>
    BY DEF statement_foreach
  <2> HIDE DEF x1, x2, x3, x4, x5, x6, x7, x8, x9
  <2> QED BY <2>1, <2>2, <2>3, <2>4, <2>5, <2>6, <2>7, <2>8, <2>9, <2>10, RowLeads9
<1>15. RowLeads(statement_match, "0", "1")
  <2> DEFINE x1 == Must("match")
             x2 == Must("(")
             x3 == Expression
             x4 == Discard
             x5 == Must(")")
             x6 == Must("{")
             x7 == Must("}")
             x8 == Node("StatementMatch")
  <2>1. Leads(x1, "0", "0")
    BY ItemLeads DEF LiteralStages, Adds, AddsNull, ItsRows
  <2>2. Leads(x2, "0", "0")
    BY ItemLeads DEF LiteralStages, Adds, AddsNull, ItsRows
  <2>3. Leads(x3, "0", "1")
    BY ItemLeads DEF LiteralStages, Adds, AddsNull, ItsRows
  <2>4. Leads(x4, "1", "0")
    BY ItemLeads DEF LiteralStages, Adds, AddsNull, ItsRows
  <2>5. Leads(x5, "0", "0")
    BY ItemLeads DEF LiteralStages, Adds, AddsNull, ItsRows
  <2>6. Leads(x6, "0", "0")
    BY ItemLeads DEF LiteralStages, Adds, AddsNull, ItsRows
  <2>7. Leads(x7, "0", "0")
    BY ItemLeads DEF LiteralStages, Adds, AddsNull, ItsRows
  <2>8. Leads(x8, "0", "1")
    BY NodeLeads
  <2>9. statement_match = <<x1, x2, x3, x4, x5, x6, x7, x8>>
    BY DEF statement_match
  <2> HIDE DEF x1, x2, x3, x4, x5, x6, x7, x8
  <2> QED BY <2>1, <2>2, <2>3, <2>4, <2>5, <2>6, <2>7, <2>8, <2>9, RowLeads8
<1>16. RowLeads(expression_identifier, "0", "1")
  <2> DEFINE x1 == Identifier
             x2 == Node("ExpressionIdentifier")
  <2>1. Leads(x1, "0", "0")
    BY NestedLeads DEF LiteralStages
  <2>2. Leads(x2, "0", "1")
    BY NodeLeads
  <2>3. expression_identifier = <<x1, x2>>
    BY DEF expression_identifier
  <2> HIDE DEF x1, x2
  <2> QED BY <2>1, <2>2, <2>3, RowLeads2
<1>17. RowLeads(expression_void, "0", "1")
  <2> DEFINE x1 == Must("void")
             x2 == Node("ExpressionVoid")
  <2>1. Leads(x1, "0", "0")
    BY ItemLeads DEF LiteralStages, Adds, AddsNull, ItsRows
  <2>2. Leads(x2, "0", "1")
    BY NodeLeads
  <2>3. expression_void = <<x1, x2>>
    BY DEF expression_void
  <2> HIDE DEF x1, x2
  <2> QED BY <2>1, <2>2, <2>3, RowLeads2
<1>18. RowLeads(expression_continuation, "0", "1")
  <2> DEFINE x1 == Must("return")
             x2 == Node("ExpressionContinuation")
  <2>1. Leads(x1, "0", "0")
    BY ItemLeads DEF LiteralStages, Adds, AddsNull, ItsRows
  <2>2. Leads(x2, "0", "1")
    BY NodeLeads
  <2>3. expression_continuation = <<x1, x2>>
    BY DEF expression_continuation
  <2> HIDE DEF x1, x2
  <2> QED BY <2>1, <2>2, <2>3, RowLeads2
<1>19. RowLeads(expression_literal, "literal", "1")
  <2> DEFINE x1 == Keep
             x2 == Convert
             x3 == Node("Literal")
  <2>1. Leads(x1, "literal", "kept")
    BY ItemLeads DEF LiteralStages, Adds, AddsNull, ItsRows
  <2>2. Leads(x2, "kept", "value")
    BY ItemLeads DEF LiteralStages, Adds, AddsNull, ItsRows
  <2>3. Leads(x3, "value", "1")
    BY NodeLeads
  <2>4. expression_literal = <<x1, x2, x3>>
    BY DEF expression_literal
  <2> HIDE DEF x1, x2, x3
  <2> QED BY <2>1, <2>2, <2>3, <2>4, RowLeads3
<1>20. RowLeads(expression_char, "0", "1")
  <2> DEFINE x1 == Must("LITERAL_CHAR")
             x2 == Convert
             x3 == Node("ExpressionChar")
  <2>1. Leads(x1, "0", "0")
    BY ItemLeads DEF LiteralStages, Adds, AddsNull, ItsRows
  <2>2. Leads(x2, "0", "0")
    BY ItemLeads DEF LiteralStages, Adds, AddsNull, ItsRows
  <2>3. Leads(x3, "0", "1")
    BY NodeLeads
  <2>4. expression_char = <<x1, x2, x3>>
    BY DEF expression_char
  <2> HIDE DEF x1, x2, x3
  <2> QED BY <2>1, <2>2, <2>3, <2>4, RowLeads3
<1>21. RowLeads(expression_string, "0", "1")
  <2> DEFINE x1 == Must("LITERAL_STRING")
             x2 == Node("ExpressionString")
  <2>1. Leads(x1, "0", "0")
    BY ItemLeads DEF LiteralStages, Adds, AddsNull, ItsRows
  <2>2. Leads(x2, "0", "1")
    BY NodeLeads
  <2>3. expression_string = <<x1, x2>>
    BY DEF expression_string
  <2> HIDE DEF x1, x2
  <2> QED BY <2>1, <2>2, <2>3, RowLeads2
<1>22. RowLeads(expression_unary, "0", "1")
  <2> DEFINE x1 == OneOf({"not", "-"})
             x2 == Prec(9)
             x3 == Node("ExpressionUnaryOp")
  <2>1. Leads(x1, "0", "0")
    BY ItemLeads DEF LiteralStages, Adds, AddsNull, ItsRows
  <2>2. Leads(x2, "0", "1")
    BY ItemLeads DEF LiteralStages, Adds, AddsNull, ItsRows
  <2>3. Leads(x3, "1", "1")
    BY NodeLeads
  <2>4. expression_unary = <<x1, x2, x3>>
    BY DEF expression_unary
  <2> HIDE DEF x1, x2, x3
  <2> QED BY <2>1, <2>2, <2>3, <2>4, RowLeads3
<1>23. RowLeads(expression_binary, "1", "1")
  <2> DEFINE x1 == Keep
             x2 == Above
             x3 == Node("ExpressionBinaryOp")
  <2>1. Leads(x1, "1", "1")
    BY ItemLeads DEF LiteralStages, Adds, AddsNull, ItsRows
  <2>2. Leads(x2, "1", "2")
    BY ItemLeads DEF LiteralStages, Adds, AddsNull, ItsRows
  <2>3. Leads(x3, "2", "1")
    BY NodeLeads
  <2>4. expression_binary = <<x1, x2, x3>>
    BY DEF expression_binary
  <2> HIDE DEF x1, x2, x3
  <2> QED BY <2>1, <2>2, <2>3, <2>4, RowLeads3
<1>24. RowLeads(expression_tuple, "all", "1")
  <2> DEFINE x1 == Must("(")
             x2 == List(")")
             x3 == Single
  <2>1. Leads(x1, "all", "all")
    BY ItemLeads DEF LiteralStages, Adds, AddsNull, ItsRows
  <2>2. Leads(x2, "all", "all")
    BY NestedLeads DEF LiteralStages
  <2>3. Leads(x3, "all", "1")
    BY ItemLeads DEF LiteralStages, Adds, AddsNull, ItsRows
  <2>4. expression_tuple = <<x1, x2, x3>>
    BY DEF expression_tuple
  <2> HIDE DEF x1, x2, x3
  <2> QED BY <2>1, <2>2, <2>3, <2>4, RowLeads3
<1>25. RowLeads(expression_range, "1", "1")
  <2> DEFINE x1 == Must("..")
             x2 == Expression
             x3 == Node("ExpressionRange")
  <2>1. Leads(x1, "1", "1")
    BY ItemLeads DEF LiteralStages, Adds, AddsNull, ItsRows
  <2>2. Leads(x2, "1", "2")
    BY ItemLeads DEF LiteralStages, Adds, AddsNull, ItsRows
  <2>3. Leads(x3, "2", "1")
    BY NodeLeads
  <2>4. expression_range = <<x1, x2, x3>>
    BY DEF expression_range
  <2> HIDE DEF x1, x2, x3
  <2> QED BY <2>1, <2>2, <2>3, <2>4, RowLeads3
<1>26. RowLeads(expression_vector, "all", "1")
  <2> DEFINE x1 == Must("<")
             x2 == List(">")
             x3 == Node("ExpressionVector")
  <2>1. Leads(x1, "all", "all")
    BY ItemLeads DEF LiteralStages, Adds, AddsNull, ItsRows
  <2>2. Leads(x2, "all", "all")
    BY NestedLeads DEF LiteralStages
  <2>3. Leads(x3, "all", "1")
    BY NodeLeads
  <2>4. expression_vector = <<x1, x2, x3>>
    BY DEF expression_vector
  <2> HIDE DEF x1, x2, x3
  <2> QED BY <2>1, <2>2, <2>3, <2>4, RowLeads3
<1>27. RowLeads(expression_array, "all", "1")
  <2> DEFINE x1 == Must("[")
             x2 == List("]")
             x3 == Node("ExpressionArray")
  <2>1. Leads(x1, "all", "all")
    BY ItemLeads DEF LiteralStages, Adds, AddsNull, ItsRows
  <2>2. Leads(x2, "all", "all")
    BY NestedLeads DEF LiteralStages
  <2>3. Leads(x3, "all", "1")
    BY NodeLeads
  <2>4. expression_array = <<x1, x2, x3>>
    BY DEF expression_array
  <2> HIDE DEF x1, x2, x3
  <2> QED BY <2>1, <2>2, <2>3, <2>4, RowLeads3
<1>28. RowLeads(expression_assignment, "1", "1")
  <2> DEFINE x1 == OneOf(Assigning)
             x2 == Expression
             x3 == Node("ExpressionAssignment")
  <2>1. Leads(x1, "1", "1")
    BY ItemLeads DEF LiteralStages, Adds, AddsNull, ItsRows
  <2>2. Leads(x2, "1", "2")
    BY ItemLeads DEF LiteralStages, Adds, AddsNull, ItsRows
  <2>3. Leads(x3, "2", "1")
    BY NodeLeads
  <2>4. expression_assignment = <<x1, x2, x3>>
    BY DEF expression_assignment
  <2> HIDE DEF x1, x2, x3
  <2> QED BY <2>1, <2>2, <2>3, <2>4, RowLeads3
<1>29. RowLeads(expression_call, "some", "1")
  <2> DEFINE x1 == Must("(")
             x2 == List(")")
             x3 == Node("ExpressionCall")
  <2>1. Leads(x1, "some", "some")
    BY ItemLeads DEF LiteralStages, Adds, AddsNull, ItsRows
  <2>2. Leads(x2, "some", "some")
    BY NestedLeads DEF LiteralStages
  <2>3. Leads(x3, "some", "1")
    BY NodeLeads
  <2>4. expression_call = <<x1, x2, x3>>
    BY DEF expression_call
  <2> HIDE DEF x1, x2, x3
  <2> QED BY <2>1, <2>2, <2>3, <2>4, RowLeads3
<1> QED BY <1>1, <1>2, <1>3, <1>4, <1>5, <1>6, <1>7, <1>8, <1>9, <1>10, <1>11, <1>12, <1>13, <1>14, <1>15, <1>16, <1>17, <1>18, <1>19, <1>20, <1>21, <1>22, <1>23, <1>24, <1>25, <1>26, <1>27, <1>28, <1>29

LEMMA ComposedRowsLead ==
  /\ RowLeads(declaration_package, "0", "1") /\ RowLeads(declaration_import, "0", "1")
  /\ RowLeads(declaration_function, "0", "1") /\ RowLeads(extern_function, "0", "1")
  /\ RowLeads(declaration_library, "all", "1") /\ RowLeads(parse_function_body, "0", "1")
  /\ RowLeads(statement_block, "all", "1") /\ RowLeads(statement_circuit, "0", "1")
  /\ RowLeads(statement_return, "0", "1") /\ RowLeads(statement_if, "0", "1")
  /\ RowLeads(expression_dictionary, "even", "1") /\ RowLeads(expression_lambda, "0", "1")
<1>1. "0" \notin LiteralStages /\ "1" \notin LiteralStages /\ "all" \notin LiteralStages /\ "even" \notin LiteralStages
      /\ "1?" \notin LiteralStages /\ "2" \notin LiteralStages /\ "circuit" \notin LiteralStages
  BY DEF LiteralStages
<1>2. ASSUME NEW a \in {"0", "all"} PROVE RowLeads(Package, a, a)
  <2>1. Leads(Must("LITERAL_STRING"), a, a) /\ Leads(NotEmpty, a, a)
    BY ItemLeads DEF LiteralStages
  <2> QED BY <2>1, RowLeads2 DEF Package
<1>3. RowLeads(<<Must("fun"), Identifier, Params, Typing>>, "0", "0")
  <2>1. Leads(Must("fun"), "0", "0")
    BY ItemLeads DEF LiteralStages, Adds, AddsNull, ItsRows
  <2>2. Leads(Identifier, "0", "0")
    BY NestedLeads DEF LiteralStages
  <2>3. Leads(Params, "0", "0")
    BY NestedLeads DEF LiteralStages
  <2>4. Leads(Typing, "0", "0")
    BY NestedLeads DEF LiteralStages
  <2> QED BY <2>1, <2>2, <2>3, <2>4, RowLeads4
<1>4. RowLeads(parse_named_function_header, "0", "0")
  BY <1>3 DEF parse_named_function_header
<1>5. RowLeads(<<Must("fun"), Params, Typing>>, "0", "0")
  <2>1. Leads(Must("fun"), "0", "0")
    BY ItemLeads DEF LiteralStages, Adds, AddsNull, ItsRows
  <2>2. Leads(Params, "0", "0")
    BY NestedLeads DEF LiteralStages
  <2>3. Leads(Typing, "0", "0")
    BY NestedLeads DEF LiteralStages
  <2> QED BY <2>1, <2>2, <2>3, RowLeads3
<1>6. RowLeads(parse_nameless_function_header, "0", "0")
  BY <1>5 DEF parse_nameless_function_header
<1>7. ASSUME NEW k, NEW a \in {"0", "all"} PROVE RowLeads(<<Must(k)>>, a, a)
  <2>1. Leads(Must(k), a, a)
    BY ItemLeads DEF LiteralStages
  <2> QED BY <2>1, RowLeads1
<1>8. RowLeads(<<Identifier, While(",", <<Identifier>>)>>, "0", "0")
  <2>1. Leads(Identifier, "0", "0")
    BY <1>1, NestedLeads
  <2>2. RowLeads(<<Identifier>>, "0", "0")
    BY <2>1, RowLeads1
  <2>3. Leads(While(",", <<Identifier>>), "0", "0")
    BY <1>1, <2>2, LoopLeads
  <2> QED BY <2>1, <2>3, RowLeads2
<1>9. RowLeads(<<Sub("extern_function")>>, "all", "all")
  <2>1. Leads(Sub("extern_function"), "all", "all")
    BY ItemLeads DEF Adds, ItsRows
  <2> QED BY <2>1, RowLeads1
<1>10. RowLeads(declaration_package, "0", "1")
  <2>1. RowLeads(<<Must("pkg")>>, "0", "0")
    BY <1>7
  <2>2. RowLeads(Package, "0", "0")
    BY <1>2
  <2>3. RowLeads(<<Must(";"), Node("ModuleDeclaration")>>, "0", "1")
    <3>1. Leads(Must(";"), "0", "0")
      BY ItemLeads DEF LiteralStages, Adds, AddsNull, ItsRows
    <3>2. Leads(Node("ModuleDeclaration"), "0", "1")
      BY NodeLeads
    <3> QED BY <3>1, <3>2, RowLeads2
  <2> DEFINE r1 == <<Must("pkg")>>
             r2 == Package
             r3 == <<Must(";"), Node("ModuleDeclaration")>>
  <2>4. declaration_package = r1 \o r2 \o r3
    BY DEF declaration_package
  <2>5. RowLeads(r1, "0", "0") /\ RowLeads(r2, "0", "0") /\ RowLeads(r3, "0", "1")
    BY <2>1, <2>2, <2>3
  <2> HIDE DEF r1, r2, r3
  <2>6. RowLeads(r1 \o r2, "0", "0")
    BY <2>5, RowsJoin
  <2> QED BY <2>4, <2>5, <2>6, RowsJoin
<1>11. RowLeads(declaration_import, "0", "1")
  <2>1. RowLeads(<<Must("use")>>, "0", "0")
    BY <1>7
  <2>2. RowLeads(Package, "0", "0")
    BY <1>2
  <2>3. RowLeads(<<Opt("/", <<Identifier, While(",", <<Identifier>>)>>, <<>>), Must(";"), Node("ModuleImport")>>, "0", "1")
    <3>1. Leads(Opt("/", <<Identifier, While(",", <<Identifier>>)>>, <<>>), "0", "0")
      BY <1>8, <1>1, NothingLeads, OptLeads
    <3>2. Leads(Must(";"), "0", "0")
      BY ItemLeads DEF LiteralStages, Adds, AddsNull, ItsRows
    <3>3. Leads(Node("ModuleImport"), "0", "1")
      BY NodeLeads
    <3> QED BY <3>1, <3>2, <3>3, RowLeads3
  <2> DEFINE r1 == <<Must("use")>>
             r2 == Package
             r3 == <<Opt("/", <<Identifier, While(",", <<Identifier>>)>>, <<>>), Must(";"), Node("ModuleImport")>>
  <2>4. declaration_import = r1 \o r2 \o r3
    BY DEF declaration_import
  <2>5. RowLeads(r1, "0", "0") /\ RowLeads(r2, "0", "0") /\ RowLeads(r3, "0", "1")
    BY <2>1, <2>2, <2>3
  <2> HIDE DEF r1, r2, r3
  <2>6. RowLeads(r1 \o r2, "0", "0")
    BY <2>5, RowsJoin
  <2> QED BY <2>4, <2>5, <2>6, RowsJoin
<1>12. RowLeads(declaration_function, "0", "1")
  <2>1. RowLeads(parse_named_function_header, "0", "0")
    BY <1>4
  <2>2. RowLeads(<<Sub("parse_function_body"), Node("ExpressionLambda"), Node("DeclarationFunction")>>, "0", "1")
    <3>1. Leads(Sub("parse_function_body"), "0", "1")
      BY ItemLeads DEF LiteralStages, Adds, AddsNull, ItsRows
    <3>2. Leads(Node("ExpressionLambda"), "1", "1")
      BY NodeLeads
    <3>3. Leads(Node("DeclarationFunction"), "1", "1")
      BY NodeLeads
    <3> QED BY <3>1, <3>2, <3>3, RowLeads3
  <2> DEFINE r1 == parse_named_function_header
             r2 == <<Sub("parse_function_body"), Node("ExpressionLambda"), Node("DeclarationFunction")>>
  <2>3. declaration_function = r1 \o r2
    BY DEF declaration_function
  <2>4. RowLeads(r1, "0", "0") /\ RowLeads(r2, "0", "1")
    BY <2>1, <2>2
  <2> HIDE DEF r1, r2
  <2> QED BY <2>3, <2>4, RowsJoin
<1>13. RowLeads(extern_function, "0", "1")
  <2>1. RowLeads(parse_named_function_header, "0", "0")
    BY <1>4
  <2>2. RowLeads(<<Must(";"), Node("DeclarationExternFunction")>>, "0", "1")
    <3>1. Leads(Must(";"), "0", "0")
      BY ItemLeads DEF LiteralStages, Adds, AddsNull, ItsRows
    <3>2. Leads(Node("DeclarationExternFunction"), "0", "1")
      BY NodeLeads
    <3> QED BY <3>1, <3>2, RowLeads2
  <2> DEFINE r1 == parse_named_function_header
             r2 == <<Must(";"), Node("DeclarationExternFunction")>>
  <2>3. extern_function = r1 \o r2
    BY DEF extern_function
  <2>4. RowLeads(r1, "0", "0") /\ RowLeads(r2, "0", "1")
    BY <2>1, <2>2
  <2> HIDE DEF r1, r2
  <2> QED BY <2>3, <2>4, RowsJoin
<1>14. RowLeads(declaration_library, "all", "1")
  <2>1. RowLeads(<<Must("dll")>>, "all", "all")
    BY <1>7
  <2>2. RowLeads(Package, "all", "all")
    BY <1>2
  <2>3. RowLeads(<<Must("{"), Until("}", <<Sub("extern_function")>>), Node("DeclarationExternLibrary")>>, "all", "1")
    <3>1. Leads(Must("{"), "all", "all")
      BY ItemLeads DEF LiteralStages, Adds, AddsNull, ItsRows
    <3>2. Leads(Until("}", <<Sub("extern_function")>>), "all", "all")
      BY <1>1, <1>9, LoopLeads
    <3>3. Leads(Node("DeclarationExternLibrary"), "all", "1")
      BY NodeLeads
    <3> QED BY <3>1, <3>2, <3>3, RowLeads3
  <2> DEFINE r1 == <<Must("dll")>>
             r2 == Package
             r3 == <<Must("{"), Until("}", <<Sub("extern_function")>>), Node("DeclarationExternLibrary")>>
  <2>4. declaration_library = r1 \o r2 \o r3
    BY DEF declaration_library
  <2>5. RowLeads(r1, "all", "all") /\ RowLeads(r2, "all", "all") /\ RowLeads(r3, "all", "1")
    BY <2>1, <2>2, <2>3
  <2> HIDE DEF r1, r2, r3
  <2>6. RowLeads(r1 \o r2, "all", "all")
    BY <2>5, RowsJoin
  <2> QED BY <2>4, <2>5, <2>6, RowsJoin
<1>15. RowLeads(expression_lambda, "0", "1")
  <2>1. RowLeads(parse_nameless_function_header, "0", "0")
    BY <1>6
  <2>2. RowLeads(<<Sub("parse_function_body"), Node("ExpressionLambda")>>, "0", "1")
    <3>1. Leads(Sub("parse_function_body"), "0", "1")
      BY ItemLeads DEF LiteralStages, Adds, AddsNull, ItsRows
    <3>2. Leads(Node("ExpressionLambda"), "1", "1")
      BY NodeLeads
    <3> QED BY <3>1, <3>2, RowLeads2
  <2> DEFINE r1 == parse_nameless_function_header
             r2 == <<Sub("parse_function_body"), Node("ExpressionLambda")>>
  <2>3. expression_lambda = r1 \o r2
    BY DEF expression_lambda
  <2>4. RowLeads(r1, "0", "0") /\ RowLeads(r2, "0", "1")
    BY <2>1, <2>2
  <2> HIDE DEF r1, r2
  <2> QED BY <2>3, <2>4, RowsJoin
<1>16. RowLeads(parse_function_body, "0", "1")
  <2>1. RowLeads(<<NoNode, Expression, Node("StatementReturn")>>, "0", "1")
    <3>1. Leads(NoNode, "0", "1?")
      BY ItemLeads DEF LiteralStages, Adds, AddsNull, ItsRows
    <3>2. Leads(Expression, "1?", "2?")
      BY ItemLeads DEF LiteralStages, Adds, AddsNull, ItsRows
    <3>3. Leads(Node("StatementReturn"), "2?", "1")
      BY NodeLeads
    <3> QED BY <3>1, <3>2, <3>3, RowLeads3
  <2>2. RowLeads(<<Sub("statement_block")>>, "0", "1")
    <3>1. Leads(Sub("statement_block"), "0", "1")
      BY ItemLeads DEF LiteralStages, Adds, AddsNull, ItsRows
    <3> QED BY <3>1, RowLeads1
  <2> DEFINE x1 == Opt("=>", <<NoNode, Expression, Node("StatementReturn")>>, <<Sub("statement_block")>>)
  <2>3. Leads(x1, "0", "1")
    BY <1>1, <2>1, <2>2, OptLeads
  <2>4. parse_function_body = <<x1>>
    BY DEF parse_function_body
  <2> HIDE DEF x1
  <2> QED BY <2>3, <2>4, RowLeads1
<1>17. RowLeads(statement_block, "all", "1")
  <2>1. RowLeads(<<Sub("statement")>>, "all", "all")
    <3>1. Leads(Sub("statement"), "all", "all")
      BY ItemLeads DEF LiteralStages, Adds, AddsNull, ItsRows
    <3> QED BY <3>1, RowLeads1
  <2> DEFINE x1 == Must("{")
             x2 == Until("}", <<Sub("statement")>>)
             x3 == Node("StatementBlock")
  <2>2. Leads(x1, "all", "all")
    BY ItemLeads DEF LiteralStages, Adds, AddsNull, ItsRows
  <2>3. Leads(x2, "all", "all")
    BY <1>1, <2>1, LoopLeads
  <2>4. Leads(x3, "all", "1")
    BY NodeLeads
  <2>5. statement_block = <<x1, x2, x3>>
    BY DEF statement_block
  <2> HIDE DEF x1, x2, x3
  <2> QED BY <2>2, <2>3, <2>4, <2>5, RowLeads3
<1>18. RowLeads(statement_circuit, "0", "1")
  <2>1. RowLeads(<<Must(":"), Sub("statement"), Default>>, "circuit", "circuit")
    <3>1. Leads(Must(":"), "circuit", "circuit")
      BY ItemLeads DEF LiteralStages, Adds, AddsNull, ItsRows
    <3>2. Leads(Sub("statement"), "circuit", "circuit+")
      BY ItemLeads DEF LiteralStages, Adds, AddsNull, ItsRows
    <3>3. Leads(Default, "circuit+", "circuit")
      BY ItemLeads DEF LiteralStages, Adds, AddsNull, ItsRows
    <3> QED BY <3>1, <3>2, <3>3, RowLeads3
  <2>2. RowLeads(<<Identifier, Must(":"), Sub("statement")>>, "circuit", "circuit")
    <3>1. Leads(Identifier, "circuit", "circuit")
      BY NestedLeads DEF LiteralStages
    <3>2. Leads(Must(":"), "circuit", "circuit")
      BY ItemLeads DEF LiteralStages, Adds, AddsNull, ItsRows
    <3>3. Leads(Sub("statement"), "circuit", "circuit")
      BY ItemLeads DEF LiteralStages, Adds, AddsNull, ItsRows
    <3> QED BY <3>1, <3>2, <3>3, RowLeads3
  <2>3. RowLeads(<<Opt("_", <<Must(":"), Sub("statement"), Default>>, <<Identifier, Must(":"), Sub("statement")>>)>>, "circuit", "circuit")
    <3>1. Leads(Opt("_", <<Must(":"), Sub("statement"), Default>>, <<Identifier, Must(":"), Sub("statement")>>), "circuit", "circuit")
      BY <1>1, <2>1, <2>2, OptLeads
    <3> QED BY <3>1, RowLeads1
  <2> DEFINE x1 == Must("${")
             x2 == NoNode
             x3 == Until("}", <<Opt("_", <<Must(":"), Sub("statement"), Default>>, <<Identifier, Must(":"), Sub("statement")>>)>>)
             x4 == Node("StatementCircuit")
  <2>4. Leads(x1, "0", "0")
    BY ItemLeads DEF LiteralStages, Adds, AddsNull, ItsRows
  <2>5. Leads(x2, "0", "circuit")
    BY ItemLeads DEF LiteralStages, Adds, AddsNull, ItsRows
  <2>6. Leads(x3, "circuit", "circuit")
    BY <1>1, <2>3, LoopLeads
  <2>7. Leads(x4, "circuit", "1")
    BY NodeLeads
  <2>8. statement_circuit = <<x1, x2, x3, x4>>
    BY DEF statement_circuit
  <2> HIDE DEF x1, x2, x3, x4
  <2> QED BY <2>4, <2>5, <2>6, <2>7, <2>8, RowLeads4
<1>19. RowLeads(statement_return, "0", "1")
  <2>1. RowLeads(<<Expression, Must("]")>>, "0", "1?")
    <3>1. Leads(Expression, "0", "1?")
      BY ItemLeads DEF LiteralStages, Adds, AddsNull, ItsRows
    <3>2. Leads(Must("]"), "1?", "1?")
      BY ItemLeads DEF LiteralStages, Adds, AddsNull, ItsRows
    <3> QED BY <3>1, <3>2, RowLeads2
  <2>2. RowLeads(<<NoNode>>, "0", "1?")
    <3>1. Leads(NoNode, "0", "1?")
      BY ItemLeads DEF LiteralStages, Adds, AddsNull, ItsRows
    <3> QED BY <3>1, RowLeads1
  <2>3. RowLeads(<<NoNode, Node("StatementReturn")>>, "1?", "1")
    <3>1. Leads(NoNode, "1?", "2?")
      BY ItemLeads DEF LiteralStages, Adds, AddsNull, ItsRows
    <3>2. Leads(Node("StatementReturn"), "2?", "1")
      BY NodeLeads
    <3> QED BY <3>1, <3>2, RowLeads2
  <2>4. RowLeads(<<Expression, Must(";"), Node("StatementReturn")>>, "1?", "1")
    <3>1. Leads(Expression, "1?", "2?")
      BY ItemLeads DEF LiteralStages, Adds, AddsNull, ItsRows
    <3>2. Leads(Must(";"), "2?", "2?")
      BY ItemLeads DEF LiteralStages, Adds, AddsNull, ItsRows
    <3>3. Leads(Node("StatementReturn"), "2?", "1")
      BY NodeLeads
    <3> QED BY <3>1, <3>2, <3>3, RowLeads3
  <2> DEFINE x1 == Must("return")
             x2 == Opt("[", <<Expression, Must("]")>>, <<NoNode>>)
             x3 == Opt(";", <<NoNode, Node("StatementReturn")>>, <<Expression, Must(";"), Node("StatementReturn")>>)
  <2>5. Leads(x1, "0", "0")
    BY ItemLeads DEF LiteralStages, Adds, AddsNull, ItsRows
  <2>6. Leads(x2, "0", "1?")
    BY <1>1, <2>1, <2>2, OptLeads
  <2>7. Leads(x3, "1?", "1")
    BY <1>1, <2>3, <2>4, OptLeads
  <2>8. statement_return = <<x1, x2, x3>>
    BY DEF statement_return
  <2> HIDE DEF x1, x2, x3
  <2> QED BY <2>5, <2>6, <2>7, <2>8, RowLeads3
<1>20. RowLeads(statement_if, "0", "1")
  <2>1. RowLeads(<<Sub("statement")>>, "2", "3?")
    <3>1. Leads(Sub("statement"), "2", "3?")
      BY ItemLeads DEF LiteralStages, Adds, AddsNull, ItsRows
    <3> QED BY <3>1, RowLeads1
  <2>2. RowLeads(<<NoNode>>, "2", "3?")
    <3>1. Leads(NoNode, "2", "3?")
      BY ItemLeads DEF LiteralStages, Adds, AddsNull, ItsRows
    <3> QED BY <3>1, RowLeads1
  <2> DEFINE x1 == Must("if")
             x2 == Must("(")
             x3 == Expression
             x4 == Must(")")
             x5 == Sub("statement")
             x6 == Opt("else", <<Sub("statement")>>, <<NoNode>>)
             x7 == Node("StatementIf")
  <2>3. Leads(x1, "0", "0")
    BY ItemLeads DEF LiteralStages, Adds, AddsNull, ItsRows
  <2>4. Leads(x2, "0", "0")
    BY ItemLeads DEF LiteralStages, Adds, AddsNull, ItsRows
  <2>5. Leads(x3, "0", "1")
    BY ItemLeads DEF LiteralStages, Adds, AddsNull, ItsRows
  <2>6. Leads(x4, "1", "1")
    BY ItemLeads DEF LiteralStages, Adds, AddsNull, ItsRows
  <2>7. Leads(x5, "1", "2")
    BY ItemLeads DEF LiteralStages, Adds, AddsNull, ItsRows
  <2>8. Leads(x6, "2", "3?")
    BY <1>1, <2>1, <2>2, OptLeads
  <2>9. Leads(x7, "3?", "1")
    BY NodeLeads
  <2>10. statement_if = <<x1, x2, x3, x4, x5, x6, x7>>
    BY DEF statement_if
  <2> HIDE DEF x1, x2, x3, x4, x5, x6, x7
  <2> QED BY <2>3, <2>4, <2>5, <2>6, <2>7, <2>8, <2>9, <2>10, RowLeads7
<1>21. RowLeads(expression_dictionary, "even", "1")
  <2>1. RowLeads(<<Expression, Must(":"), Expression, Delim("}", ",")>>, "even", "even")
    <3>1. Leads(Expression, "even", "odd")
      BY ItemLeads DEF LiteralStages, Adds, AddsNull, ItsRows
    <3>2. Leads(Must(":"), "odd", "odd")
      BY ItemLeads DEF LiteralStages, Adds, AddsNull, ItsRows
    <3>3. Leads(Expression, "odd", "even")
      BY ItemLeads DEF LiteralStages, Adds, AddsNull, ItsRows
    <3>4. Leads(Delim("}", ","), "even", "even")
      BY ItemLeads DEF LiteralStages, Adds, AddsNull, ItsRows
    <3> QED BY <3>1, <3>2, <3>3, <3>4, RowLeads4
  <2> DEFINE x1 == Must("#{")
             x2 == Until("}", <<Expression, Must(":"), Expression, Delim("}", ",")>>)
             x3 == Node("ExpressionDictionary")
  <2>2. Leads(x1, "even", "even")
    BY ItemLeads DEF LiteralStages, Adds, AddsNull, ItsRows
  <2>3. Leads(x2, "even", "even")
    BY <1>1, <2>1, LoopLeads
  <2>4. Leads(x3, "even", "1")
    BY NodeLeads
  <2>5. expression_dictionary = <<x1, x2, x3>>
    BY DEF expression_dictionary
  <2> HIDE DEF x1, x2, x3
  <2> QED BY <2>2, <2>3, <2>4, <2>5, RowLeads3
<1> QED BY <1>10, <1>11, <1>12, <1>13, <1>14, <1>15, <1>16, <1>17, <1>18, <1>19, <1>20, <1>21

(* The rows from where their frames begin: without children, or with the   *)
(* left operand.                                                           *)
LEMMA DeclarationLeads ==
  ASSUME NEW k
  PROVE  \E a \in {"0", "all"} : RowLeads(declaration(k), a, "1")
<1>1. \E a \in {"0", "all"} : RowLeads(statement(k), a, "1")
  BY PlainRowsLead, ComposedRowsLead DEF statement
<1> QED BY <1>1, PlainRowsLead, ComposedRowsLead DEF declaration

LEMMA SubLeads ==
  ASSUME NEW f \in ItsRows, NEW k
  PROVE  \E a \in {"0", "all"} : RowLeads(Row(f, k), a, "1")
<1>1. \E a \in {"0", "all"} : RowLeads(statement(k), a, "1")
  BY PlainRowsLead, ComposedRowsLead DEF statement
<1> QED BY <1>1, ComposedRowsLead DEF Row, ItsRows

LEMMA PrefixLeads ==
  ASSUME NEW k \in PrefixToken
  PROVE  \/ \E a \in {"0", "all", "even"} : RowLeads(PrefixRow(k), a, "1")
         \/ k \in Literal /\ RowLeads(PrefixRow(k), "literal", "1")
  BY PlainRowsLead, ComposedRowsLead DEF PrefixRow, PrefixToken, Literal

LEMMA InfixLeads ==
  ASSUME NEW k
  PROVE  \E a \in {"1", "some"} : RowLeads(InfixRow(k), a, "1")
  BY PlainRowsLead, ComposedRowsLead DEF InfixRow

-----------------------------------------------------------------------------
(* Numbers are read from digits.                                           *)

HasDigits(t, k) ==
  /\ k.kind = "LITERAL_NAT" => t[k.lo] \in Digits
  /\ k.kind = "LITERAL_INT" => t[k.lo + 1] \in Digits

LEMMA ScanHasDigits ==
  ASSUME NEW t, IsSeq(t), NEW from \in 1 .. Len(t) + 1
  PROVE  HasDigits(t, scan(t, from))
<1> DEFINE i == RunEnd(t, from, Blank)
           c == Unit(t, i)
           digits == Unit(t, i + 1) \in Digits
           k == scan(t, from)
           number == c \in Digits \/ (c \in {"-", "."} /\ digits)
           symbol == c \in Simple /\ ~(c \in {"-", "."} /\ digits)
<1>1. Len(t) \in Nat /\ i \in from .. Len(t) + 1
  <2>1. Len(t) \in Nat
    BY IsSeqFacts
  <2> QED BY <2>1, RunEndFacts DEF Blank, EOF
<1>2. EOF \notin Digits /\ "." \notin Digits /\ "-" \notin Digits
  BY ScannerAssumption DEF Alnum, Simple
<1>3. c # EOF => i \in 1 .. Len(t) /\ c = t[i]
  BY <1>1 DEF Unit
<1>4. digits => Unit(t, i + 1) = t[i + 1]
  BY <1>2 DEF Unit
<1>5. k = CASE c = EOF -> Token("TOK_END", i, i)
            [] c = CharQuote -> scan_char(t, i)
            [] c = "'" -> scan_string(t, i)
            [] c = "#" /\ Unit(t, i + 1) = "{" -> Token("#{", i, i + 2)
            [] c = "#" /\ Unit(t, i + 1) # "{" -> scan_comment(t, i)
            [] number -> scan_number(t, i)
            [] symbol -> scan_symbol(t, i)
            [] OTHER -> scan_identifier(t, i)
  BY DEF scan
<1> SUFFICES HasDigits(t, k)
  OBVIOUS
<1> HIDE DEF i, c, k
<1>0. k.kind \notin {"LITERAL_NAT", "LITERAL_INT"} => HasDigits(t, k)
  BY DEF HasDigits
<1>6. \/ k.kind \notin {"LITERAL_NAT", "LITERAL_INT"}
      \/ number /\ c # EOF /\ k = scan_number(t, i)
      \/ c \in Simple /\ c # EOF /\ k = scan_symbol(t, i)
      \/ k = scan_identifier(t, i)
  <2>1. number => c # EOF
    BY <1>2 DEF EOF
  <2>2. symbol => c # EOF /\ c \in Simple
    BY DEF EOF, Simple
  <2> HIDE DEF number, symbol
  <2>3. scan_char(t, i).kind \notin {"LITERAL_NAT", "LITERAL_INT"}
    BY DEF scan_char, Token
  <2>4. scan_string(t, i).kind \notin {"LITERAL_NAT", "LITERAL_INT"}
    BY DEF scan_string, Token
  <2>5. scan_comment(t, i).kind \notin {"LITERAL_NAT", "LITERAL_INT"}
    BY DEF scan_comment, Token
  <2>6. /\ Token("#{", i, i + 2).kind \notin {"LITERAL_NAT", "LITERAL_INT"}
        /\ Token("TOK_END", i, i).kind \notin {"LITERAL_NAT", "LITERAL_INT"}
    BY DEF Token
  <2>7. \/ k \in {Token("TOK_END", i, i), scan_char(t, i), scan_string(t, i), Token("#{", i, i + 2),
                 scan_comment(t, i)}
        \/ number /\ k = scan_number(t, i)
        \/ symbol /\ k = scan_symbol(t, i)
        \/ k = scan_identifier(t, i)
    <3>1. /\ number => c \notin {CharQuote, "'", "#", EOF} /\ ~symbol
          /\ symbol => c \notin {CharQuote, "'", "#", EOF}
      <4>1. c \in Digits => c \notin Simple \cup {CharQuote, "'", "#", EOF}
        BY ScannerAssumption DEF Alnum
      <4> QED BY <4>1 DEF number, symbol, Simple, EOF, CharQuote
    <3>2. CharQuote \notin {EOF, "'", "#"} /\ EOF \notin {"'", "#"}
      BY DEF EOF, CharQuote
    <3>3. CASE c = EOF
      BY <1>5, <3>1, <3>2, <3>3
    <3>4. CASE c = CharQuote
      BY <1>5, <3>1, <3>2, <3>4
    <3>5. CASE c = "'"
      BY <1>5, <3>1, <3>2, <3>5
    <3>6. CASE c = "#"
      BY <1>5, <3>1, <3>2, <3>6
    <3>7. CASE number
      BY <1>5, <3>1, <3>7
    <3>8. CASE ~number /\ c \notin {EOF, CharQuote, "'", "#"}
      BY <1>5, <3>8
    <3> QED BY <3>3, <3>4, <3>5, <3>6, <3>7, <3>8
  <2> QED BY <2>1, <2>2, <2>3, <2>4, <2>5, <2>6, <2>7
<1>7. CASE number /\ c # EOF /\ k = scan_number(t, i)
  <2>1. /\ k.lo = i
        /\ k.kind = "LITERAL_NAT" => t[i] # "-" /\ t[i] # "."
        /\ k.kind = "LITERAL_INT" => t[i] = "-"
    <3> DEFINE whole == RunEnd(t, i + 1, Digits)
               dotted == t[i] # "." /\ Unit(t, whole) = "."
               kind == CASE dotted \/ t[i] = "." -> "LITERAL_REAL"
                         [] t[i] = "-"           -> "LITERAL_INT"
                         [] OTHER                -> "LITERAL_NAT"
    <3>1. k = Token(kind, i, IF dotted THEN RunEnd(t, whole + 1, Digits) ELSE whole)
      BY <1>7 DEF scan_number
    <3>2. k.lo = i /\ k.kind = kind
      BY <3>1 DEF Token
    <3>3. /\ kind = "LITERAL_NAT" => t[i] # "-" /\ t[i] # "."
          /\ kind = "LITERAL_INT" => t[i] = "-"
      BY DEF dotted
    <3> QED BY <3>2, <3>3
  <2>2. c = t[i]
    BY <1>3, <1>7
  <2>3. k.kind = "LITERAL_NAT" => t[k.lo] \in Digits
    BY <1>7, <2>1, <2>2 DEF number
  <2>4. k.kind = "LITERAL_INT" => t[k.lo + 1] \in Digits
    <3> SUFFICES ASSUME k.kind = "LITERAL_INT" PROVE t[k.lo + 1] \in Digits
      OBVIOUS
    <3>1. c = "-" /\ k.lo = i
      BY <2>1, <2>2
    <3>2. digits
      BY <1>2, <1>7, <3>1 DEF number
    <3> QED BY <1>4, <3>1, <3>2 DEF digits
  <2> QED BY <2>3, <2>4 DEF HasDigits
<1>8. CASE c \in Simple /\ c # EOF /\ k = scan_symbol(t, i)
  <2> DEFINE s == Spelling(t, i)
             T == {n \in 1 .. 4 : \A m \in 2 .. n : i + m <= Len(t) + 1 /\ s[m] \in Compound}
             n == Max(T)
  <2>1. n \in T
    <3>1. T \in SUBSET (1 .. 4) /\ 1 \in T
      OBVIOUS
    <3> HIDE DEF T
    <3> QED BY <3>1, MaxFacts
  <2>2. k.kind = s[n]
    BY <1>8 DEF scan_symbol, Token
  <2>3. s[1] = t[i]
    BY DEF Spelling
  <2> HIDE DEF n, s
  <2>4. s[n] \in Simple \cup Compound
    <3>1. CASE n = 1
      BY <1>3, <1>8, <2>3, <3>1
    <3>2. CASE n # 1
      BY <2>1, <3>2
    <3> QED BY <3>1, <3>2
  <2>5. k.kind \notin {"LITERAL_NAT", "LITERAL_INT"}
    BY <2>2, <2>4 DEF Simple, Compound
  <2> QED BY <1>0, <2>5
<1>9. CASE k = scan_identifier(t, i)
  <2>1. k.kind = "IDENTIFIER" \/ k.kind \in keywords
    BY <1>9 DEF scan_identifier, Token
  <2>2. k.kind \notin {"LITERAL_NAT", "LITERAL_INT"}
    BY <2>1 DEF keywords
  <2> QED BY <1>0, <2>2
<1> QED BY <1>6, <1>7, <1>8, <1>9, <1>0

LEMMA UncommentedHasDigits ==
  ASSUME IsSeq(text), NEW from \in 1 .. Len(text) + 1
  PROVE  HasDigits(text, Uncommented(from))
<1> DEFINE l == Len(text)
           next == CHOOSE next : SkipsComments(text, next, 1)
           Good(i) == HasDigits(text, next[i])
<1>1. l \in Nat
  BY IsSeqFacts
<1>2. SkipsComments(text, next, 1)
  <2>1. \E f : SkipsComments(text, f, 1)
    <3>1. l + 1 \in Nat /\ l + 1 <= l + 1 /\ l + 2 - (l + 1) = 1
      BY <1>1
    <3>2. \E f : SkipsComments(text, f, l + 2 - (l + 1))
      BY <3>1, SkippingEnds
    <3> QED BY <3>1, <3>2
  <2> QED BY <2>1
<1>3. Uncommented(from) = next[from]
  BY DEF Uncommented, SkipsComments
<1> HIDE DEF next
<1>4. \A i \in 1 .. l + 1 :
        next[i] = IF scan(text, i).kind = "COMMENT" THEN next[scan(text, i).hi] ELSE scan(text, i)
  BY <1>2 DEF SkipsComments
<1> DEFINE T == {n \in 0 .. l : ~Good(l + 1 - n)}
<1>5. T = {}
  <2> SUFFICES ASSUME T # {} PROVE FALSE
    OBVIOUS
  <2>1. PICK n \in T : \A j \in T : n <= j
    <3>1. T \in SUBSET Nat
      BY <1>1
    <3> HIDE DEF T
    <3> QED BY <3>1, LeastOfNaturals
  <2> DEFINE i == l + 1 - n
             k == scan(text, i)
  <2>2. i \in 1 .. l + 1 /\ n \in Nat /\ i \in Nat
    BY <1>1, <2>1
  <2>3. ~Good(i)
    BY <2>1
  <2>4. ASSUME NEW h \in i + 1 .. l + 1 PROVE Good(h)
    <3>1. l + 1 - h \in 0 .. l /\ l + 1 - (l + 1 - h) = h /\ ~(n <= l + 1 - h)
      BY <1>1, <2>2
    <3>2. l + 1 - h \notin T
      BY <2>1, <3>1
    <3> HIDE DEF Good
    <3> QED BY <3>1, <3>2
  <2>5. Reads(text, i, k) /\ HasDigits(text, k)
    BY <2>2, ScanFacts, ScanHasDigits
  <2>6. next[i] = IF k.kind = "COMMENT" THEN next[k.hi] ELSE k
    BY <1>4, <2>2
  <2> HIDE DEF i, k
  <2>7. CASE k.kind # "COMMENT"
    BY <2>3, <2>5, <2>6, <2>7
  <2>8. CASE k.kind = "COMMENT"
    <3>1. k.hi \in i + 1 .. l + 1
      BY <1>1, <2>2, <2>5, <2>8 DEF Reads
    <3> QED BY <2>3, <2>4, <2>6, <2>8, <3>1
  <2> QED BY <2>7, <2>8
<1>6. l + 1 - from \in 0 .. l /\ l + 1 - (l + 1 - from) = from
  BY <1>1
<1>7. Good(from)
  <2> HIDE DEF Good
  <2> QED BY <1>5, <1>6
<1> QED BY <1>3, <1>7

-----------------------------------------------------------------------------
(* The calls under way and the nodes they have made.                       *)

(* The children in kids of a frame that has come to the stage a.           *)
Counts(a, kids) ==
  /\ a \in LiteralStages \cup {"0"} => Len(kids) = 0
  /\ a \in {"1", "1?"} => Len(kids) = 1
  /\ a \in {"2", "2?"} => Len(kids) = 2
  /\ a \in {"3", "3?"} => Len(kids) = 3
  /\ a = "4" => Len(kids) = 4
  /\ a = "even" => Len(kids) % 2 = 0
  /\ a = "odd" => Len(kids) % 2 = 1
  /\ a \in {"some", "circuit"} => Len(kids) >= 1
  /\ a = "circuit+" => Len(kids) >= 2
  /\ \A i \in DOMAIN kids : kids[i] = Null =>
       a \in {"1?", "2?"} \/ (a = "3?" /\ i = 3) \/ (a \in {"circuit", "circuit+"} /\ i = 1)

(* The children of kids lie within the tokens from lo to hi, and those     *)
(* from the one at `from` on follow each other.                            *)
Ordered(kids, from, lo, hi, made) ==
  /\ \A i \in DOMAIN kids : kids[i] # Null => lo <= made[kids[i]].lo /\ made[kids[i]].hi <= hi
  /\ \A i, j \in DOMAIN kids :
       from <= i /\ i < j /\ kids[i] # Null /\ kids[j] # Null => made[kids[i]].hi <= made[kids[j]].lo

(* Only a circuit's default stands anywhere. *)
Start(a) == IF a \in {"circuit", "circuit+"} THEN 2 ELSE 1

Among(kids, made) == IsSeq(kids) /\ \A i \in DOMAIN kids : kids[i] \in 0 .. Len(made)

Stands(f, a, limit, made) == Counts(a, f.kids) /\ Ordered(f.kids, Start(a), f.first, limit, made)

IsCall(f, made, next) == IsFrame(f) /\ f.first \in 1 .. next /\ Among(f.kids, made)

(* A frame that waits for a node behind the token `limit`. *)
Waits(f, limit, made) ==
  /\ f.first <= limit
  /\ \E a, b : <<a, b>> \in Adds /\ RowLeads(f.todo, b, "1") /\ Stands(f, a, limit, made)

Waiting(r, limit, made, next) ==
  /\ IsSeq(r)
  /\ \A i \in DOMAIN r :
       IsCall(r[i], made, next) /\ Waits(r[i], IF i = Len(r) THEN limit ELSE r[i + 1].first, made)

(* What the innermost frame knows besides of the literal it reads. *)
AtStage(a, f, ts, units) ==
  /\ a = "literal" => ts[Len(ts)].kind \in Literal
  /\ a \in {"kept", "value"} => f.op \in Literal /\ Len(ts) >= 2 /\ ts[Len(ts) - 1].kind = f.op
  /\ a = "value" => ~UnconvertibleIn(units, ts[Len(ts) - 1])

Acts(f, made, ts, units) ==
  \E a : RowLeads(f.todo, a, "1") /\ Stands(f, a, Len(ts), made) /\ AtStage(a, f, ts, units)

(* Of a stack: the innermost frame acts, the others wait. *)
Calls(s, made, ts, units) ==
  \/ s = <<>>
  \/ \E r, f : /\ s = Append(r, f)
               /\ Waiting(r, f.first, made, Len(ts))
               /\ IsCall(f, made, Len(ts)) /\ Acts(f, made, ts, units)

(* A node made when `older` nodes and `next` tokens were there. *)
Made(x, older, next, made) ==
  /\ x = [kind |-> x.kind, kids |-> x.kids, op |-> x.op, val |-> x.val, lo |-> x.lo, hi |-> x.hi]
  /\ x.kind \in Kind /\ IsSeq(x.kids) /\ WellFormed(x, older)
  /\ x.kind = "ExpressionNat" => x.val \in NatRange
  /\ x.kind = "ExpressionInt" => x.val \in IntRange
  /\ x.lo \in 1 .. next /\ x.hi \in x.lo .. next
  /\ Ordered(x.kids, IF x.kind = "StatementCircuit" THEN 2 ELSE 1, x.lo, x.hi, made)

NodesMade(made, next) == IsSeq(made) /\ \A n \in DOMAIN made : Made(made[n], n - 1, next, made)

TreeInv ==
  /\ NodesMade(nodes, Len(tokens))
  /\ Calls(stack, nodes, tokens, text)
  /\ \A i \in DOMAIN tokens : HasDigits(text, tokens[i])
  /\ \A r \in DOMAIN reports : reports[r] \in DOMAIN tokens
  /\ mode \in {"parse", "skip", "crashed"}

-----------------------------------------------------------------------------
(* Stages and the numbers of children.                                     *)

LEMMA AddsCount ==
  ASSUME NEW a, NEW b, <<a, b>> \in Adds, NEW kids, IsSeq(kids), Counts(a, kids), NEW n, n # Null
  PROVE  Counts(b, Append(kids, n)) /\ a \notin LiteralStages /\ b \notin LiteralStages
         /\ (Start(a) = 2 <=> Start(b) = 2)
<1> DEFINE k == Append(kids, n)
<1>1. /\ Len(k) = Len(kids) + 1 /\ Len(kids) \in Nat /\ DOMAIN kids = 1 .. Len(kids)
      /\ DOMAIN k = 1 .. Len(kids) + 1 /\ k[Len(kids) + 1] = n
      /\ \A i \in DOMAIN kids : k[i] = kids[i]
  BY AppendFacts, IsSeqFacts
<1> HIDE DEF k
<1>2. \A i \in DOMAIN k : k[i] = Null => i \in DOMAIN kids /\ kids[i] = Null
  BY <1>1
<1>3. (Len(kids) % 2 = 0 => Len(k) % 2 = 1) /\ (Len(kids) % 2 = 1 => Len(k) % 2 = 0)
  BY <1>1
<1>4. a \notin LiteralStages /\ b \notin LiteralStages /\ (Start(a) = 2 <=> Start(b) = 2)
  BY DEF Adds, LiteralStages, Start
<1>5. \A i \in DOMAIN k : k[i] = Null =>
        b \in {"1?", "2?"} \/ (b = "3?" /\ i = 3) \/ (b \in {"circuit", "circuit+"} /\ i = 1)
  <2> SUFFICES ASSUME NEW i \in DOMAIN k, k[i] = Null
               PROVE  b \in {"1?", "2?"} \/ (b = "3?" /\ i = 3) \/ (b \in {"circuit", "circuit+"} /\ i = 1)
    OBVIOUS
  <2>1. a \in {"1?", "2?"} \/ (a = "3?" /\ i = 3) \/ (a \in {"circuit", "circuit+"} /\ i = 1)
    BY <1>2 DEF Counts
  <2> QED BY <2>1 DEF Adds
<1>6. /\ b \in LiteralStages \cup {"0"} => Len(k) = 0
      /\ b \in {"1", "1?"} => Len(k) = 1
      /\ b \in {"2", "2?"} => Len(k) = 2
      /\ b \in {"3", "3?"} => Len(k) = 3
      /\ b = "4" => Len(k) = 4
      /\ b \in {"some", "circuit"} => Len(k) >= 1
      /\ b = "circuit+" => Len(k) >= 2
  BY <1>1 DEF Counts, Adds, LiteralStages
<1>7. (b = "even" => a = "odd") /\ (b = "odd" => a = "even")
  BY DEF Adds
<1>8. (b = "even" => Len(k) % 2 = 0) /\ (b = "odd" => Len(k) % 2 = 1)
  BY <1>3, <1>7 DEF Counts
<1>9. Counts(b, k)
  BY <1>5, <1>6, <1>8 DEF Counts
<1> QED BY <1>4, <1>9 DEF k

LEMMA AddsNullCount ==
  ASSUME NEW a, NEW b, <<a, b>> \in AddsNull, NEW kids, IsSeq(kids), Counts(a, kids)
  PROVE  Counts(b, Append(kids, Null)) /\ a \notin LiteralStages /\ b \notin LiteralStages
         /\ (Start(b) # Start(a) => Len(kids) = 0)
<1> DEFINE k == Append(kids, Null)
<1>1. /\ Len(k) = Len(kids) + 1 /\ Len(kids) \in Nat /\ DOMAIN kids = 1 .. Len(kids)
      /\ DOMAIN k = 1 .. Len(kids) + 1
      /\ \A i \in DOMAIN kids : k[i] = kids[i]
  BY AppendFacts, IsSeqFacts
<1> HIDE DEF k
<1>2. /\ a \in {"0", "1?", "2"} /\ b \in {"1?", "2?", "3?", "circuit"}
      /\ a \notin LiteralStages /\ b \notin LiteralStages /\ (Start(b) # Start(a) => a = "0")
  BY DEF AddsNull, LiteralStages, Start
<1>3. /\ b \in {"1", "1?"} => Len(k) = 1
      /\ b \in {"2", "2?"} => Len(k) = 2
      /\ b \in {"3", "3?"} => Len(k) = 3
      /\ b \in {"some", "circuit"} => Len(k) >= 1
  <2>1. (a = "0" => Len(kids) = 0) /\ (a = "1?" => Len(kids) = 1) /\ (a = "2" => Len(kids) = 2)
    BY DEF Counts
  <2>2. /\ b = "1?" => a = "0"
        /\ b = "2?" => a = "1?"
        /\ b = "3?" => a = "2"
        /\ b \in {"1?", "2?", "3?", "circuit"}
    BY DEF AddsNull
  <2>3. CASE b = "1?"
    BY <1>1, <2>1, <2>2, <2>3
  <2>4. CASE b = "2?"
    <3>0. Len(kids) = 1
      BY <2>1, <2>2, <2>4
    <3>1. Len(k) = 2
      BY <1>1, <3>0
    <3> QED BY <2>4, <3>1
  <2>5. CASE b = "3?"
    <3>0. Len(kids) = 2
      BY <2>1, <2>2, <2>5
    <3>1. Len(k) = 3
      BY <1>1, <3>0
    <3> QED BY <2>5, <3>1
  <2>6. CASE b = "circuit"
    BY <1>1, <2>6
  <2> QED BY <2>2, <2>3, <2>4, <2>5, <2>6
<1>4. \A i \in DOMAIN k : k[i] = Null =>
        b \in {"1?", "2?"} \/ (b = "3?" /\ i = 3) \/ (b \in {"circuit", "circuit+"} /\ i = 1)
  <2>1. CASE b \in {"1?", "2?"}
    BY <2>1
  <2>2. CASE b = "circuit"
    <3>1. Len(kids) = 0
      BY <2>2 DEF AddsNull, Counts
    <3> QED BY <1>1, <2>2, <3>1
  <2>3. CASE b = "3?"
    <3>1. Len(kids) = 2 /\ \A i \in DOMAIN kids : kids[i] # Null
      BY <2>3 DEF AddsNull, Counts
    <3> QED BY <1>1, <2>3, <3>1
  <2> QED BY <1>2, <2>1, <2>2, <2>3
<1>5. Counts(b, k)
  BY <1>2, <1>3, <1>4 DEF Counts
<1>6. Start(b) # Start(a) => Len(kids) = 0
  BY <1>2 DEF Counts
<1> QED BY <1>2, <1>5, <1>6 DEF k

(* A node made at the stage that its kind takes is well-formed. *)
LEMMA TakesWellFormed ==
  ASSUME NEW kind \in Kind \ {"ExpressionTuple"}, NEW made, NEW x, x.kind = kind,
         Among(x.kids, made), Len(made) \in Nat, Counts(Takes(kind), x.kids)
  PROVE  WellFormed(x, Len(made)) /\ (Start(Takes(kind)) = 2 <=> kind = "StatementCircuit")
<1> DEFINE l == Len(x.kids)
           a == Takes(kind)
<1>1. l \in Nat
  BY IsSeqFacts DEF Among
<1>2. /\ kind \in Leaf => a = "0"
      /\ kind = "StatementReturn" => a = "2?"
      /\ kind = "StatementIf" => a = "3?"
      /\ kind = "StatementFor" => a = "4"
      /\ kind \in {"StatementWhile", "StatementForeach", "ExpressionBinaryOp", "ExpressionRange",
                   "ExpressionAssignment"} => a = "2"
      /\ kind \in {"DeclarationFunction", "StatementExpression", "StatementVariable",
                   "StatementConstant", "StatementLoop", "ExpressionUnaryOp", "ExpressionLambda"} => a = "1"
      /\ kind = "StatementCircuit" => a = "circuit"
      /\ kind = "ExpressionCall" => a = "some"
      /\ kind = "ExpressionDictionary" => a = "even"
      /\ kind \in Vector \ {"StatementCircuit", "ExpressionCall", "ExpressionDictionary"} => a = "all"
  BY DEF Takes, Leaf, Vector
<1> HIDE DEF a
<1>3. kind \in Leaf \cup Vector \cup
        {"StatementReturn", "StatementIf", "StatementFor", "StatementWhile", "StatementForeach",
         "ExpressionBinaryOp", "ExpressionRange", "ExpressionAssignment", "DeclarationFunction",
         "StatementExpression", "StatementVariable", "StatementConstant", "StatementLoop",
         "ExpressionUnaryOp", "ExpressionLambda"}
  BY DEF Kind, Arity
<1>4. /\ kind \in Leaf => l = 0
      /\ kind \in {"StatementCircuit", "ExpressionCall"} => l >= 1
      /\ kind = "ExpressionDictionary" => l % 2 = 0
  BY <1>2 DEF Counts, a
<1>5. kind \in DOMAIN Arity => l = Arity[kind]
  <2>1. kind = "StatementReturn" => l = 2
    BY <1>2 DEF Counts, a
  <2>2. kind = "StatementIf" => l = 3
    BY <1>2 DEF Counts, a
  <2>3. kind = "StatementFor" => l = 4
    BY <1>2 DEF Counts, a
  <2>4. kind \in {"StatementWhile", "StatementForeach", "ExpressionBinaryOp", "ExpressionRange",
                  "ExpressionAssignment"} => l = 2
    BY <1>2 DEF Counts, a
  <2>5. kind \in {"DeclarationFunction", "StatementExpression", "StatementVariable",
                  "StatementConstant", "StatementLoop", "ExpressionUnaryOp", "ExpressionLambda"} => l = 1
    BY <1>2 DEF Counts, a
  <2> HIDE DEF l
  <2> QED BY <2>1, <2>2, <2>3, <2>4, <2>5 DEF Arity
<1>6. NumberOfChildren(kind, l)
  BY <1>4, <1>5 DEF NumberOfChildren
<1>7. ASSUME NEW i \in DOMAIN x.kids, x.kids[i] = Null PROVE MayBeNull(kind, i)
  <2>1. a \in {"1?", "2?"} \/ (a = "3?" /\ i = 3) \/ (a \in {"circuit", "circuit+"} /\ i = 1)
    BY <1>7 DEF Counts, a
  <2>2. /\ a = "2?" => kind = "StatementReturn"
        /\ a = "3?" => kind = "StatementIf"
        /\ a = "circuit" => kind = "StatementCircuit"
        /\ a \notin {"1?", "circuit+"}
    BY <1>2, <1>3
  <2> QED BY <2>1, <2>2 DEF MayBeNull
<1>8. WellFormed(x, Len(made))
  <2>1. \A i \in DOMAIN x.kids : x.kids[i] \in 1 .. Len(made) \/ x.kids[i] = Null
    BY DEF Among, Null
  <2> QED BY <1>6, <1>7, <2>1 DEF WellFormed
<1>9. Start(a) = 2 <=> kind = "StatementCircuit"
  <2>1. Start(a) = 2 <=> a \in {"circuit", "circuit+"}
    BY DEF Start
  <2>2. a \in {"circuit", "circuit+"} <=> kind = "StatementCircuit"
    BY <1>2, <1>3
  <2> QED BY <2>1, <2>2
<1> QED BY <1>8, <1>9 DEF a

-----------------------------------------------------------------------------
(* Stacks                                                                  *)

LEMMA NextIn == ASSUME NEW m \in Nat, NEW j \in 1 .. m, j # m PROVE j + 1 \in 1 .. m
  OBVIOUS

LEMMA StackShapes ==
  ASSUME NEW r, IsSeq(r), NEW f, NEW s, s = Append(r, f)
  PROVE  /\ s # <<>> /\ IsSeq(s) /\ Len(s) = Len(r) + 1 /\ Len(r) \in Nat /\ s[Len(s)] = f
         /\ \A g : [s EXCEPT ![Len(s)] = g] = Append(r, g)
         /\ SubSeq(s, 1, Len(s) - 1) = r
<1>1. PICK S : r \in Seq(S) /\ f \in S
  <2>1. r \in Seq({r[i] : i \in DOMAIN r} \cup {f})
    <3>1. r \in [1 .. Len(r) -> {r[i] : i \in DOMAIN r} \cup {f}] /\ Len(r) \in Nat
      BY IsSeqFacts, r \in Seq({r[i] : i \in DOMAIN r}) DEF IsSeq
    <3> QED BY <3>1
  <2> QED BY <2>1
<1>2. /\ IsSeq(s) /\ Len(s) = Len(r) + 1 /\ Len(r) \in Nat /\ s[Len(s)] = f /\ s # <<>>
  BY AppendFacts, IsSeqFacts
<1>3. ASSUME NEW g PROVE [s EXCEPT ![Len(s)] = g] = Append(r, g)
  <2> DEFINE T == S \cup {g}
             a == [s EXCEPT ![Len(s)] = g]
             b == Append(r, g)
  <2>1. r \in Seq(T) /\ g \in T /\ f \in T
    <3>1. r \in [1 .. Len(r) -> T]
      BY <1>1
    <3> QED BY <1>1, <1>2, <3>1
  <2>2. s \in Seq(T)
    BY <2>1
  <2>3. a \in Seq(T) /\ Len(a) = Len(r) + 1
    BY <1>2, <2>1, <2>2
  <2>4. b \in Seq(T) /\ Len(b) = Len(r) + 1
    BY <2>1
  <2>5. ASSUME NEW i \in 1 .. Len(r) + 1 PROVE a[i] = b[i]
    <3>1. CASE i = Len(r) + 1
      BY <1>2, <2>1, <2>2, <3>1
    <3>2. CASE i # Len(r) + 1
      <4>1. i \in 1 .. Len(r) /\ i # Len(s) /\ i \in DOMAIN s
        BY <1>2, <2>2, <3>2
      <4>2. a[i] = s[i]
        BY <4>1
      <4>3. s[i] = r[i] /\ b[i] = r[i]
        BY <2>1, <4>1
      <4> QED BY <4>2, <4>3
    <3> QED BY <3>1, <3>2
  <2> HIDE DEF a, b, T
  <2>6. a = b
    BY <1>2, <2>3, <2>4, <2>5
  <2> QED BY <2>6 DEF a, b
<1>4. SubSeq(s, 1, Len(s) - 1) = r
  BY <1>1, <1>2
<1> QED BY <1>2, <1>3, <1>4

LEMMA StackEnds ==
  ASSUME NEW s, IsSeq(s), s # <<>>
  PROVE  \E r : IsSeq(r) /\ s = Append(r, s[Len(s)])
<1> DEFINE r == SubSeq(s, 1, Len(s) - 1)
           S == {s[i] : i \in DOMAIN s}
           b == Append(r, s[Len(s)])
<1>1. s \in Seq(S) /\ Len(s) \in Nat /\ Len(s) # 0
  BY IsSeqFacts DEF IsSeq
<1> HIDE DEF S
<1>2. IsSeq(r)
  BY FrontFacts
<1>3. r \in Seq(S) /\ Len(r) = Len(s) - 1 /\ (\A i \in 1 .. Len(s) - 1 : r[i] = s[i]) /\ s[Len(s)] \in S
  <2>1. s[Len(s)] \in S
    BY <1>1
  <2>2. r \in Seq(S)
    BY <1>1
  <2> QED BY <2>1, <2>2, FrontFacts
<1>4. b \in Seq(S) /\ Len(b) = Len(s) /\ \A i \in 1 .. Len(s) : b[i] = s[i]
  <2> HIDE DEF r
  <2> QED BY <1>1, <1>3
<1> HIDE DEF b
<1>5. s = b
  BY <1>1, <1>4
<1> QED BY <1>2, <1>5 DEF b

LEMMA StackGrows ==
  ASSUME NEW r, IsSeq(r), NEW g, NEW h
  PROVE  r \o <<g>> = Append(r, g) /\ r \o <<g, h>> = Append(Append(r, g), h)
<1>1. PICK S : r \in Seq(S) /\ g \in S /\ h \in S
  <2>1. r \in [1 .. Len(r) -> {r[i] : i \in DOMAIN r} \cup {g, h}] /\ Len(r) \in Nat
    BY IsSeqFacts, r \in Seq({r[i] : i \in DOMAIN r}) DEF IsSeq
  <2>2. r \in Seq({r[i] : i \in DOMAIN r} \cup {g, h})
    BY <2>1
  <2> QED BY <2>2
<1>2. r \o <<g>> = Append(r, g)
  BY <1>1
<1>3. r \o <<g, h>> = Append(Append(r, g), h)
  <2> DEFINE a == r \o <<g, h>>
             b == Append(Append(r, g), h)
  <2>1. a \in Seq(S) /\ b \in Seq(S) /\ Len(a) = Len(r) + 2 /\ Len(b) = Len(r) + 2 /\ Len(r) \in Nat
    BY <1>1
  <2>2. \A i \in 1 .. Len(r) + 2 : a[i] = b[i]
    BY <1>1
  <2> HIDE DEF a, b
  <2>3. a = b
    BY <2>1, <2>2
  <2> QED BY <2>3 DEF a, b
<1> QED BY <1>2, <1>3

LEMMA NodeSpans ==
  ASSUME NEW made, NEW next, NodesMade(made, next), next \in Nat
  PROVE  /\ Len(made) \in Nat /\ DOMAIN made = 1 .. Len(made) /\ IsSeq(made)
         /\ \A n \in 1 .. Len(made) :
              made[n].lo \in 1 .. next /\ made[n].hi \in made[n].lo .. next
              /\ made[n].lo \in Nat /\ made[n].hi \in Nat
<1>1. Len(made) \in Nat /\ DOMAIN made = 1 .. Len(made) /\ IsSeq(made)
  BY IsSeqFacts DEF NodesMade
<1>2. \A n \in 1 .. Len(made) : made[n].lo \in 1 .. next /\ made[n].hi \in made[n].lo .. next
  BY <1>1 DEF NodesMade, Made
<1> QED BY <1>1, <1>2

LEMMA OrderedStays ==
  ASSUME NEW made, NEW next, NodesMade(made, next), next \in Nat,
         NEW made2, Extends(made, made2),
         NEW kids, Among(kids, made), NEW from, NEW lo, NEW hi, NEW hi2, hi \in Nat, hi2 \in Nat,
         hi <= hi2, Ordered(kids, from, lo, hi, made)
  PROVE  Ordered(kids, from, lo, hi2, made2) /\ Among(kids, made2)
<1>1. /\ Len(made) \in Nat /\ DOMAIN made = 1 .. Len(made) /\ IsSeq(made)
      /\ \A n \in 1 .. Len(made) : made[n].lo \in Nat /\ made[n].hi \in Nat
  BY NodeSpans
<1>2. Len(made2) \in Nat /\ Len(made) <= Len(made2) /\ \A n \in 1 .. Len(made) : made2[n] = made[n]
  BY <1>1, IsSeqFacts DEF Extends
<1>3. \A i \in DOMAIN kids : kids[i] # Null =>
        kids[i] \in 1 .. Len(made) /\ made2[kids[i]] = made[kids[i]]
  BY <1>1, <1>2 DEF Among, Null
<1>4. ASSUME NEW i \in DOMAIN kids, kids[i] # Null
      PROVE  lo <= made2[kids[i]].lo /\ made2[kids[i]].hi <= hi2
  <2>1. lo <= made[kids[i]].lo /\ made[kids[i]].hi <= hi /\ made[kids[i]].hi \in Nat
    BY <1>1, <1>3, <1>4 DEF Ordered
  <2>2. made2[kids[i]] = made[kids[i]]
    BY <1>3, <1>4
  <2>3. \A m \in Nat : m <= hi => m <= hi2
    OBVIOUS
  <2> QED BY <2>1, <2>2, <2>3
<1>5. \A i, j \in DOMAIN kids :
        from <= i /\ i < j /\ kids[i] # Null /\ kids[j] # Null => made2[kids[i]].hi <= made2[kids[j]].lo
  BY <1>3 DEF Ordered
<1>6. Among(kids, made2)
  BY <1>1, <1>2 DEF Among
<1> QED BY <1>4, <1>5, <1>6 DEF Ordered

LEMMA WaitingStays ==
  ASSUME NEW made, NEW next, NodesMade(made, next), next \in Nat,
         NEW made2, Extends(made, made2), NEW next2 \in Nat, next <= next2,
         NEW r, NEW limit \in Nat, Waiting(r, limit, made, next)
  PROVE  Waiting(r, limit, made2, next2)
<1>1. Len(r) \in Nat /\ DOMAIN r = 1 .. Len(r) /\ IsSeq(r)
  BY IsSeqFacts DEF Waiting
<1>2. ASSUME NEW i \in DOMAIN r
      PROVE  /\ IsCall(r[i], made2, next2)
             /\ Waits(r[i], IF i = Len(r) THEN limit ELSE r[i + 1].first, made2)
  <2> DEFINE f == r[i]
             l == IF i = Len(r) THEN limit ELSE r[i + 1].first
  <2>1. IsCall(f, made, next) /\ Waits(f, l, made)
    BY DEF Waiting
  <2>2. l \in Nat
    <3>1. CASE i = Len(r)
      BY <3>1
    <3>2. CASE i # Len(r)
      <4>1. i + 1 \in DOMAIN r
        BY <1>1, <3>2
      <4>2. r[i + 1].first \in 1 .. next
        BY <4>1 DEF Waiting, IsCall
      <4> QED BY <3>2, <4>2
    <3> QED BY <3>1, <3>2
  <2> HIDE DEF f, l
  <2>3. IsCall(f, made2, next2)
    <3>1. Ordered(<<>>, 1, 1, 1, made)
      BY DEF Ordered
    <3>2. Among(f.kids, made2)
      <4>1. Len(made) \in Nat /\ Len(made2) \in Nat /\ Len(made) <= Len(made2)
        BY NodeSpans, IsSeqFacts DEF Extends
      <4> QED BY <2>1, <4>1 DEF Among, IsCall
    <3>3. f.first \in 1 .. next2
      BY <2>1 DEF IsCall
    <3> QED BY <2>1, <3>2, <3>3 DEF IsCall
  <2>4. Waits(f, l, made2)
    <3>1. PICK a, b : <<a, b>> \in Adds /\ RowLeads(f.todo, b, "1") /\ Stands(f, a, l, made)
      BY <2>1 DEF Waits
    <3>2. Ordered(f.kids, Start(a), f.first, l, made) /\ Among(f.kids, made)
      BY <2>1, <3>1 DEF Stands, IsCall
    <3>3. Ordered(f.kids, Start(a), f.first, l, made2)
      BY <2>2, <3>2, OrderedStays
    <3>4. Stands(f, a, l, made2)
      BY <3>1, <3>3 DEF Stands
    <3> QED BY <2>1, <3>1, <3>4 DEF Waits
  <2> QED BY <2>3, <2>4 DEF f, l
<1> QED BY <1>1, <1>2 DEF Waiting

LEMMA WaitingMore ==
  ASSUME NEW made, NEW next, NEW r, NEW f, Waiting(r, f.first, made, next), IsCall(f, made, next),
         NEW limit, Waits(f, limit, made)
  PROVE  Waiting(Append(r, f), limit, made, next) /\ IsSeq(Append(r, f))
<1> DEFINE s == Append(r, f)
           l == Len(r)
<1>1. l \in Nat /\ DOMAIN r = 1 .. l /\ IsSeq(r)
  BY IsSeqFacts DEF Waiting
<1>2. /\ IsSeq(s) /\ Len(s) = l + 1 /\ DOMAIN s = 1 .. l + 1 /\ s[l + 1] = f
      /\ \A i \in 1 .. l : s[i] = r[i]
  BY <1>1, AppendFacts
<1> HIDE DEF s
<1>3. ASSUME NEW i \in 1 .. l + 1
      PROVE  /\ IsCall(s[i], made, next)
             /\ Waits(s[i], IF i = Len(s) THEN limit ELSE s[i + 1].first, made)
  <2>1. CASE i = l + 1
    BY <1>2, <2>1
  <2>2. CASE i # l + 1
    <3>1. i \in 1 .. l /\ i + 1 \in 1 .. l + 1 /\ i # Len(s)
      BY <1>1, <1>2, <2>2
    <3>2. IsCall(r[i], made, next) /\ Waits(r[i], IF i = l THEN f.first ELSE r[i + 1].first, made)
      BY <1>1, <3>1 DEF Waiting
    <3>3. (IF i = l THEN f.first ELSE r[i + 1].first) = s[i + 1].first
      <4>1. CASE i = l
        BY <1>2, <4>1
      <4>2. CASE i # l
        <5>1. i + 1 \in 1 .. l
          BY <1>1, <3>1, <4>2, NextIn
        <5> QED BY <1>2, <4>2, <5>1
      <4> QED BY <4>1, <4>2
    <3> QED BY <1>2, <3>1, <3>2, <3>3
  <2> QED BY <2>1, <2>2
<1>4. Waiting(s, limit, made, next)
  BY <1>2, <1>3 DEF Waiting
<1> QED BY <1>2, <1>4 DEF s

LEMMA WaitingLast ==
  ASSUME NEW made, NEW next, NEW s, NEW limit, Waiting(s, limit, made, next), s # <<>>
  PROVE  \E r, f : /\ s = Append(r, f) /\ Waiting(r, f.first, made, next)
                   /\ IsCall(f, made, next) /\ Waits(f, limit, made)
<1>1. PICK r : IsSeq(r) /\ s = Append(r, s[Len(s)])
  BY StackEnds DEF Waiting
<1> DEFINE f == s[Len(s)]
           l == Len(r)
<1>2. l \in Nat /\ DOMAIN r = 1 .. l /\ Len(s) = l + 1 /\ DOMAIN s = 1 .. l + 1
      /\ \A i \in 1 .. l : s[i] = r[i]
  BY <1>1, IsSeqFacts, AppendFacts
<1>3. IsCall(f, made, next) /\ Waits(f, limit, made)
  BY <1>2 DEF Waiting
<1>4. ASSUME NEW i \in 1 .. l
      PROVE  /\ IsCall(r[i], made, next)
             /\ Waits(r[i], IF i = Len(r) THEN f.first ELSE r[i + 1].first, made)
  <2>1. i \in DOMAIN s /\ i # Len(s)
    BY <1>2
  <2>2. IsCall(s[i], made, next) /\ Waits(s[i], s[i + 1].first, made)
    BY <2>1 DEF Waiting
  <2>3. s[i + 1].first = IF i = l THEN f.first ELSE r[i + 1].first
    <3>1. CASE i = l
      BY <1>2, <3>1
    <3>2. CASE i # l
      <4>1. i + 1 \in 1 .. l
        BY <1>2, <3>2, NextIn
      <4> QED BY <1>2, <3>2, <4>1
    <3> QED BY <3>1, <3>2
  <2> QED BY <1>2, <2>2, <2>3
<1>5. Waiting(r, f.first, made, next)
  BY <1>1, <1>2, <1>4 DEF Waiting
<1> QED BY <1>1, <1>3, <1>5

-----------------------------------------------------------------------------
(* Steps of the innermost frame                                            *)

(* r holds the frames that wait, f is the innermost one, at the stage a. *)
Acting(r, f, a) ==
  /\ stack = Append(r, f) /\ IsSeq(r) /\ Top = f
  /\ \A g : Set(g) = Append(r, g)
  /\ Waiting(r, f.first, nodes, Len(tokens)) /\ IsCall(f, nodes, Len(tokens))
  /\ RowLeads(f.todo, a, "1") /\ Stands(f, a, Len(tokens), nodes) /\ AtStage(a, f, tokens, text)

LEMMA SomeActing ==
  ASSUME TreeInv, stack # <<>>
  PROVE  \E r, f, a : Acting(r, f, a)
<1>1. PICK r, f : /\ stack = Append(r, f) /\ Waiting(r, f.first, nodes, Len(tokens))
                  /\ IsCall(f, nodes, Len(tokens)) /\ Acts(f, nodes, tokens, text)
  BY DEF TreeInv, Calls
<1>2. PICK a : RowLeads(f.todo, a, "1") /\ Stands(f, a, Len(tokens), nodes) /\ AtStage(a, f, tokens, text)
  BY <1>1 DEF Acts
<1>3. IsSeq(r) /\ stack[Len(stack)] = f /\ \A g : [stack EXCEPT ![Len(stack)] = g] = Append(r, g)
  BY <1>1, StackShapes DEF Waiting
<1> QED BY <1>1, <1>2, <1>3 DEF Acting, Top, Set

(* The item that a frame is at, and the rest of its row. *)
LEMMA FirstItem ==
  ASSUME NEW r, NEW f, NEW a, Acting(r, f, a), f.todo # <<>>
  PROVE  \E m : /\ Leads(Item, a, m) /\ RowLeads(Tail(f.todo), m, "1")
                /\ IsSeq(Tail(f.todo)) /\ \A t : t = Tail(f.todo) => <<>> \o t = t
<1>1. PICK m : Leads(Head(f.todo), a, m) /\ RowLeads(Tail(f.todo), m, "1")
  BY FirstLeads DEF Acting
<1>2. IsSeq(Tail(f.todo))
  BY <1>1, FirstLeads
<1>3. Item = Head(f.todo)
  BY DEF Item, Acting
<1>4. \A t : IsSeq(t) => <<>> \o t = t
  <2>1. \A t, S : t \in Seq(S) => <<>> \o t = t
    OBVIOUS
  <2> QED BY <2>1 DEF IsSeq
<1> QED BY <1>1, <1>2, <1>3, <1>4

(* What an item does besides. *)
LEMMA FlatItem ==
  ASSUME NEW x, NEW a, NEW m, Leads(x, a, m)
  PROVE  /\ x.do \in Flat => FlatLeads(x, a, m)
         /\ x.do = "opt" => a \notin LiteralStages /\ RowLeads(x.yes, a, m) /\ RowLeads(x.no, a, m)
         /\ x.do \in {"until", "while"} => a = m /\ a \notin LiteralStages /\ RowLeads(x.body, a, a)
<1>1. "opt" \notin Flat /\ "until" \notin Flat /\ "while" \notin Flat
  BY DEF Flat
<1> QED BY <1>1 DEF Leads

LEMMA NodesStay ==
  ASSUME NEW made, NEW next, NodesMade(made, next), NEW next2 \in Nat, next \in Nat, next <= next2
  PROVE  NodesMade(made, next2)
<1>1. \A n \in DOMAIN made : made[n].lo \in 1 .. next2 /\ made[n].hi \in made[n].lo .. next2
  BY DEF NodesMade, Made
<1> QED BY <1>1 DEF NodesMade, Made

(* The text that is read. *)
LEMMA ReadOn ==
  ASSUME ParserInv, TreeInv, text' = text, tokens' = tokens \/ advance
  PROVE  /\ Extends(tokens, tokens') /\ Len(tokens) \in Nat \ {0} /\ Len(tokens') \in Nat
         /\ Len(tokens) <= Len(tokens') /\ DOMAIN tokens = 1 .. Len(tokens)
         /\ DOMAIN tokens' = 1 .. Len(tokens')
         /\ advance => Len(tokens') = Len(tokens) + 1
         /\ \A i \in DOMAIN tokens' : HasDigits(text', tokens'[i])
<1>1. /\ IsSeq(tokens) /\ tokens # <<>> /\ IsSeq(text) /\ TokensInText
      /\ Len(tokens) \in Nat \ {0} /\ DOMAIN tokens = 1 .. Len(tokens)
  BY IsSeqFacts DEF ParserInv, Sequences, TokensInText
<1>2. CASE tokens' = tokens
  <2>1. ~advance
    <3>1. ASSUME NEW e PROVE Append(tokens, e) # tokens
      <4>1. Len(Append(tokens, e)) = Len(tokens) + 1
        BY <1>1, AppendFacts
      <4>2. \A n \in Nat : n # n + 1
        OBVIOUS
      <4> QED BY <1>1, <4>1, <4>2
    <3>2. advance => \E e : tokens' = Append(tokens, e)
      BY DEF advance
    <3> QED BY <1>2, <3>1, <3>2
  <2>2. \A i \in DOMAIN tokens : HasDigits(text, tokens[i])
    BY DEF TreeInv
  <2>3. \A i \in DOMAIN tokens' : HasDigits(text', tokens'[i])
    BY <1>2, <2>2
  <2>4. Extends(tokens, tokens')
    BY <1>1, <1>2, SameExtends
  <2>5. Len(tokens) <= Len(tokens)
    BY <1>1
  <2> QED BY <1>1, <1>2, <2>1, <2>3, <2>4, <2>5
<1>3. CASE advance
  <2> DEFINE k == Uncommented(peek.hi)
  <2>1. peek.hi \in 1 .. Len(text) + 1
    <3>1. peek.lo \in 1 .. Len(text) + 1 /\ peek.hi \in peek.lo .. Len(text) + 1
      BY <1>1 DEF TokensInText, peek
    <3>2. Len(text) \in Nat
      BY <1>1, IsSeqFacts
    <3> QED BY <3>1, <3>2
  <2>2. HasDigits(text, k)
    BY <1>1, <2>1, UncommentedHasDigits
  <2>3. tokens' = Append(tokens, k)
    BY <1>3 DEF advance
  <2> HIDE DEF k
  <2>4. /\ Extends(tokens, tokens') /\ Len(tokens') = Len(tokens) + 1
        /\ DOMAIN tokens' = 1 .. Len(tokens) + 1
        /\ \A i \in DOMAIN tokens : tokens'[i] = tokens[i]
        /\ tokens'[Len(tokens) + 1] = k
    <3>1. /\ Extends(tokens, Append(tokens, k)) /\ Len(Append(tokens, k)) = Len(tokens) + 1
          /\ DOMAIN Append(tokens, k) = 1 .. Len(tokens) + 1
          /\ \A i \in DOMAIN tokens : Append(tokens, k)[i] = tokens[i]
          /\ Append(tokens, k)[Len(tokens) + 1] = k
      BY <1>1, AppendFacts, AppendExtends
    <3> QED BY <2>3, <3>1
  <2>5. \A i \in DOMAIN tokens' : HasDigits(text', tokens'[i])
    <3> SUFFICES ASSUME NEW i \in DOMAIN tokens' PROVE HasDigits(text, tokens'[i])
      OBVIOUS
    <3>1. CASE i = Len(tokens) + 1
      BY <2>2, <2>4, <3>1
    <3>2. CASE i # Len(tokens) + 1
      <4>1. i \in DOMAIN tokens
        BY <1>1, <2>4, <3>2
      <4> QED BY <2>4, <4>1 DEF TreeInv
    <3> QED BY <3>1, <3>2
  <2> QED BY <1>1, <2>4, <2>5
<1> QED BY <1>2, <1>3

LEMMA TreeStep ==
  ASSUME ParserInv, TreeInv, text' = text, tokens' = tokens \/ advance,
         NodesMade(nodes', Len(tokens')), Calls(stack', nodes', tokens', text'),
         reports' = reports \/ (\E i \in DOMAIN tokens : reports' = Append(reports, i)),
         mode' \in {"parse", "skip", "crashed"}
  PROVE  TreeInv'
<1>1. /\ DOMAIN tokens = 1 .. Len(tokens) /\ DOMAIN tokens' = 1 .. Len(tokens')
      /\ Len(tokens) \in Nat /\ Len(tokens') \in Nat /\ Len(tokens) <= Len(tokens')
      /\ \A i \in DOMAIN tokens' : HasDigits(text', tokens'[i])
  BY ReadOn
<1>2. DOMAIN tokens \subseteq DOMAIN tokens'
  BY <1>1
<1>3. \A r \in DOMAIN reports' : reports'[r] \in DOMAIN tokens'
  <2>1. CASE reports' = reports
    BY <1>2, <2>1 DEF TreeInv
  <2>2. CASE \E i \in DOMAIN tokens : reports' = Append(reports, i)
    <3>1. PICK i \in DOMAIN tokens : reports' = Append(reports, i)
      BY <2>2
    <3>2. IsSeq(reports) /\ Len(reports) \in Nat /\ DOMAIN reports = 1 .. Len(reports)
      BY IsSeqFacts DEF ParserInv, Sequences
    <3>3. /\ DOMAIN reports' = 1 .. Len(reports) + 1 /\ reports'[Len(reports) + 1] = i
          /\ \A j \in DOMAIN reports : reports'[j] = reports[j]
      <4>1. /\ DOMAIN Append(reports, i) = 1 .. Len(reports) + 1 /\ Append(reports, i)[Len(reports) + 1] = i
            /\ \A j \in DOMAIN reports : Append(reports, i)[j] = reports[j]
        BY <3>2, AppendFacts
      <4> QED BY <3>1, <4>1
    <3>4. \A j \in 1 .. Len(reports) + 1 : j = Len(reports) + 1 \/ j \in DOMAIN reports
      BY <3>2
    <3> QED BY <1>2, <3>3, <3>4 DEF TreeInv
  <2> QED BY <2>1, <2>2
<1> QED BY <1>1, <1>3 DEF TreeInv

(* The innermost frame becomes g, which is at the stage b. *)
LEMMA FrameActs ==
  ASSUME ParserInv, TreeInv, text' = text, tokens' = tokens \/ advance,
         UNCHANGED <<nodes, reports>>, mode' \in {"parse", "skip", "crashed"},
         NEW r, NEW f, NEW a, Acting(r, f, a), NEW g, stack' = Append(r, g), IsCall(g, nodes, Len(tokens')), g.first = f.first,
         NEW b, RowLeads(g.todo, b, "1"), Stands(g, b, Len(tokens'), nodes), AtStage(b, g, tokens', text)
  PROVE  TreeInv'
<1>1. Len(tokens) \in Nat /\ Len(tokens') \in Nat /\ Len(tokens) <= Len(tokens')
  BY ReadOn
<1>2. NodesMade(nodes, Len(tokens)) /\ NodesMade(nodes', Len(tokens')) /\ Extends(nodes, nodes)
  BY <1>1, NodesStay, SameExtends DEF TreeInv, NodesMade
<1>3. g.first \in Nat
  BY DEF Acting, IsCall
<1>4. Waiting(r, g.first, nodes, Len(tokens'))
  BY <1>1, <1>2, <1>3, WaitingStays DEF Acting
<1>5. Calls(stack', nodes', tokens', text')
  BY <1>4 DEF Calls, Acts
<1> QED BY <1>2, <1>5, TreeStep

(* The same when its children stay. *)
LEMMA FrameGoesOn ==
  ASSUME ParserInv, TreeInv, text' = text, tokens' = tokens \/ advance,
         UNCHANGED <<nodes, reports>>, mode' = mode,
         NEW r, NEW f, NEW a, Acting(r, f, a), NEW g, stack' = Append(r, g), IsFrame(g), g.first = f.first, g.kids = f.kids,
         NEW b, RowLeads(g.todo, b, "1"), Counts(b, f.kids), Start(b) = Start(a),
         AtStage(b, g, tokens', text)
  PROVE  TreeInv'
<1>1. Len(tokens) \in Nat /\ Len(tokens') \in Nat /\ Len(tokens) <= Len(tokens')
  BY ReadOn
<1>2. NodesMade(nodes, Len(tokens)) /\ Extends(nodes, nodes) /\ mode \in {"parse", "skip", "crashed"}
  BY SameExtends DEF TreeInv, NodesMade
<1>3. Among(f.kids, nodes) /\ Ordered(f.kids, Start(a), f.first, Len(tokens), nodes) /\ f.first \in 1 .. Len(tokens)
  BY DEF Acting, IsCall, Stands
<1>4. Ordered(f.kids, Start(a), f.first, Len(tokens'), nodes)
  BY <1>1, <1>2, <1>3, OrderedStays
<1>5. IsCall(g, nodes, Len(tokens')) /\ Stands(g, b, Len(tokens'), nodes)
  BY <1>1, <1>3, <1>4 DEF IsCall, Stands
<1> QED BY <1>2, <1>5, FrameActs

-----------------------------------------------------------------------------
(* Steps that keep the stage                                               *)

(* g is the innermost frame with items in the place of its first item. *)
Becomes(g, items, kids, op) ==
  g = [todo |-> items \o Tail(Top.todo), kids |-> kids, first |-> Top.first, op |-> op]

LEMMA ThenParts ==
  ASSUME IsFrame(Top), NEW items
  PROVE  /\ Becomes(Then(items), items, Top.kids, Top.op)
         /\ \A op : Becomes([Then(items) EXCEPT !.op = op], items, Top.kids, op)
         /\ \A kids : Becomes([Then(items) EXCEPT !.kids = kids], items, kids, Top.op)
<1> DEFINE r == items \o Tail(Top.todo)
<1>1. PICK t, k, i, o : Top = [todo |-> t, kids |-> k, first |-> i, op |-> o]
  BY DEF IsFrame
<1>2. Top.kids = k /\ Top.first = i /\ Top.op = o
  BY <1>1
<1>3. Then(items) = [todo |-> r, kids |-> k, first |-> i, op |-> o]
  <2>1. ASSUME NEW x, NEW u, x = [todo |-> t, kids |-> k, first |-> i, op |-> o]
        PROVE  [x EXCEPT !.todo = u] = [todo |-> u, kids |-> k, first |-> i, op |-> o]
    BY <2>1
  <2>2. Then(items) = [Top EXCEPT !.todo = r]
    BY DEF Then
  <2> HIDE DEF r
  <2> QED BY <1>1, <2>1, <2>2
<1> HIDE DEF r
<1>4. /\ \A op : [Then(items) EXCEPT !.op = op] = [todo |-> r, kids |-> k, first |-> i, op |-> op]
      /\ \A kids : [Then(items) EXCEPT !.kids = kids] = [todo |-> r, kids |-> kids, first |-> i, op |-> o]
  BY <1>3
<1> QED BY <1>2, <1>3, <1>4 DEF Becomes, r

LEMMA BecomesFacts ==
  ASSUME NEW g, NEW items, NEW kids, NEW op, Becomes(g, items, kids, op)
  PROVE  /\ IsFrame(g) /\ g.todo = items \o Tail(Top.todo) /\ g.kids = kids
         /\ g.first = Top.first /\ g.op = op
<1> DEFINE r == items \o Tail(Top.todo)
<1>1. g = [todo |-> r, kids |-> kids, first |-> Top.first, op |-> op]
  BY DEF Becomes
<1> HIDE DEF r
<1>2. IsFrame(g) /\ g.todo = r /\ g.kids = kids /\ g.first = Top.first /\ g.op = op
  BY <1>1 DEF IsFrame
<1> QED BY <1>2 DEF r

LEMMA ActingFacts ==
  ASSUME NEW r, NEW f, NEW a, Acting(r, f, a)
  PROVE  IsFrame(Top) /\ Top = f /\ stack # <<>> /\ Counts(a, f.kids) /\ IsSeq(f.kids)
<1>1. Top = f /\ IsFrame(f) /\ Counts(a, f.kids) /\ IsSeq(f.kids)
  BY DEF Acting, IsCall, Stands, Among
<1>2. stack # <<>>
  BY StackShapes DEF Acting
<1> QED BY <1>1, <1>2

LEMMA GoesOn ==
  ASSUME ParserInv, TreeInv, NEW r, NEW f, NEW a, Acting(r, f, a),
         NEW g, NEW items, NEW op, Becomes(g, items, f.kids, op), Continue(g) \/ Consumes(g),
         NEW b, RowLeads(items \o Tail(f.todo), b, "1"), Counts(b, f.kids), Start(b) = Start(a),
         AtStage(b, g, tokens', text)
  PROVE  TreeInv'
<1>1. /\ text' = text /\ (tokens' = tokens \/ advance) /\ UNCHANGED <<nodes, reports>>
      /\ mode' = mode /\ stack' = Append(r, g)
  BY DEF Continue, Consumes, Acting
<1>2. Top = f /\ IsFrame(g) /\ g.first = f.first /\ g.kids = f.kids /\ g.todo = items \o Tail(f.todo)
  BY ActingFacts, BecomesFacts
<1>3. RowLeads(g.todo, b, "1")
  BY <1>2
<1> QED BY <1>1, <1>2, <1>3, FrameGoesOn

LEMMA GoesOnAtStage ==
  ASSUME ParserInv, TreeInv, NEW r, NEW f, NEW a, Acting(r, f, a), a \notin LiteralStages,
         NEW g, NEW items, NEW op, Becomes(g, items, f.kids, op), Continue(g) \/ Consumes(g),
         RowLeads(items \o Tail(f.todo), a, "1")
  PROVE  TreeInv'
<1>1. Counts(a, f.kids)
  BY ActingFacts
<1>2. AtStage(a, g, tokens', text)
  BY DEF AtStage, LiteralStages
<1> QED BY <1>1, <1>2, GoesOn

LEMMA PlainItem ==
  ASSUME NEW what \in {"must", "oneof", "notempty", "delim"}, Item.do = what, NEW a, NEW m, Leads(Item, a, m)
  PROVE  a = m /\ a \notin LiteralStages
<1>1. what \in Flat
  BY DEF Flat
<1> QED BY <1>1, FlatItem DEF FlatLeads

LEMMA TreeMustConsume == ParserInv /\ TreeInv /\ must_consume => TreeInv'
<1> SUFFICES ASSUME ParserInv, TreeInv, must_consume PROVE TreeInv'
  OBVIOUS
<1>1. PICK what \in {"must", "oneof"} : Doing(what)
  BY DEF must_consume
<1>2. PICK r, f, a : Acting(r, f, a)
  BY <1>1, SomeActing DEF Doing
<1>3. PICK m : Leads(Item, a, m) /\ RowLeads(Tail(f.todo), m, "1") /\ <<>> \o Tail(f.todo) = Tail(f.todo)
  BY <1>1, <1>2, ActingFacts, FirstItem DEF Doing
<1>4. a = m /\ a \notin LiteralStages
  BY <1>1, <1>3, PlainItem DEF Doing
<1>5. PICK op, g : Becomes(g, <<>>, f.kids, op) /\ Consumes(g)
  <2>1. PICK op : Consumes([Then(<<>>) EXCEPT !.op = op])
    BY DEF must_consume
  <2> QED BY <1>2, <2>1, ActingFacts, ThenParts
<1>6. RowLeads(<<>> \o Tail(f.todo), a, "1")
  BY <1>3, <1>4
<1> QED BY <1>2, <1>4, <1>5, <1>6, GoesOnAtStage

LEMMA TreeThrow ==
  ASSUME ParserInv, TreeInv, stack # <<>>, NEW i, Throw(i),
         i = Len(tokens) \/ (i = Len(tokens) - 1 /\ ~Fresh)
  PROVE  TreeInv'
<1>1. mode' = "skip" /\ stack' = <<>> /\ reports' = Append(reports, i)
      /\ UNCHANGED <<text, tokens, nodes, tree>>
  BY DEF Throw
<1>2. Len(tokens) \in Nat \ {0} /\ DOMAIN tokens = 1 .. Len(tokens)
  BY IsSeqFacts DEF ParserInv, Sequences, TokensInText
<1>3. i \in DOMAIN tokens
  <2>1. stack[1].first \in 1 .. Len(tokens)
    <3>1. LastEnd \in 1 .. Len(tokens) /\ stack[1].first \in LastEnd .. Len(tokens)
      BY DEF ParserInv, Declaring, ClosedGap
    <3> QED BY <1>2, <3>1
  <2>2. ~Fresh => Len(tokens) # stack[1].first
    BY TopFacts
  <2>3. ~Fresh => Len(tokens) - 1 \in 1 .. Len(tokens)
    BY <1>2, <2>1, <2>2
  <2> QED BY <1>2, <2>3
<1>4. NodesMade(nodes', Len(tokens')) /\ Calls(stack', nodes', tokens', text')
  BY <1>1 DEF TreeInv, Calls
<1> QED BY <1>1, <1>3, <1>4, TreeStep

LEMMA TreeMustMatchFails == ParserInv /\ TreeInv /\ must_match_fails => TreeInv'
<1> SUFFICES ASSUME ParserInv, TreeInv, must_match_fails PROVE TreeInv'
  OBVIOUS
<1>1. stack # <<>> /\ peek.kind \notin Item.kinds
  BY DEF must_match_fails, Doing
<1>2. CASE Item.do = "must"
  <2>1. ~Fresh
    BY <1>1, <1>2 DEF Fresh, Untouched
  <2>2. Throw(Len(tokens) - 1)
    BY <1>2 DEF must_match_fails
  <2> QED BY <1>1, <2>1, <2>2, TreeThrow
<1>3. CASE Item.do # "must"
  <2>1. Throw(Len(tokens))
    BY <1>3 DEF must_match_fails
  <2> QED BY <1>1, <2>1, TreeThrow
<1> QED BY <1>2, <1>3

LEMMA TreeParsePackage == ParserInv /\ TreeInv /\ parse_package => TreeInv'
<1> SUFFICES ASSUME ParserInv, TreeInv, parse_package PROVE TreeInv'
  OBVIOUS
<1>1. Doing("notempty") /\ stack # <<>> /\ Item.do = "notempty"
  BY DEF parse_package, Doing
<1>2. CASE Content(previous) # <<>>
  <2>1. Continue(Then(<<>>))
    BY <1>2 DEF parse_package
  <2>2. PICK r, f, a : Acting(r, f, a)
    BY <1>1, SomeActing
  <2>3. PICK m : Leads(Item, a, m) /\ RowLeads(Tail(f.todo), m, "1") /\ <<>> \o Tail(f.todo) = Tail(f.todo)
    BY <1>1, <2>2, ActingFacts, FirstItem DEF Doing
  <2>4. a = m /\ a \notin LiteralStages
    BY <1>1, <2>3, PlainItem
  <2>5. RowLeads(<<>> \o Tail(f.todo), a, "1")
    BY <2>3, <2>4
  <2>6. Becomes(Then(<<>>), <<>>, f.kids, Top.op)
    BY <2>2, ActingFacts, ThenParts
  <2> QED BY <2>1, <2>2, <2>4, <2>5, <2>6, GoesOnAtStage
<1>3. CASE ~(Content(previous) # <<>>)
  <2>1. ~Fresh
    BY <1>1 DEF Doing, Fresh, Untouched
  <2>2. Throw(Len(tokens) - 1)
    BY <1>3 DEF parse_package
  <2> QED BY <1>1, <2>1, <2>2, TreeThrow
<1> QED BY <1>2, <1>3

LEMMA TreeKeepKind == ParserInv /\ TreeInv /\ KeepKind => TreeInv'
<1> SUFFICES ASSUME ParserInv, TreeInv, KeepKind PROVE TreeInv'
  OBVIOUS
<1>1. Doing("keep") /\ stack # <<>> /\ Item.do = "keep"
  BY DEF KeepKind, Doing
<1>2. PICK r, f, a : Acting(r, f, a)
  BY <1>1, SomeActing
<1>3. PICK m : Leads(Item, a, m) /\ RowLeads(Tail(f.todo), m, "1") /\ <<>> \o Tail(f.todo) = Tail(f.todo)
  BY <1>1, <1>2, ActingFacts, FirstItem DEF Doing
<1>4. (a = "literal" /\ m = "kept") \/ (a = "1" /\ m = "1")
  <2>1. "keep" \in Flat
    BY DEF Flat
  <2> QED BY <1>1, <1>3, <2>1, FlatItem DEF FlatLeads
<1> DEFINE k == peek.kind
           g == [Then(<<>>) EXCEPT !.op = k]
<1>5. Becomes(g, <<>>, f.kids, k) /\ Consumes(g)
  <2>1. Consumes(g)
    BY DEF KeepKind
  <2>2. \A op : Becomes([Then(<<>>) EXCEPT !.op = op], <<>>, Top.kids, op)
    BY <1>2, ActingFacts, ThenParts
  <2> QED BY <1>2, <2>1, <2>2, ActingFacts
<1> HIDE DEF g
<1>6. RowLeads(<<>> \o Tail(f.todo), m, "1")
  BY <1>3
<1>7. CASE a = "1"
  BY <1>2, <1>4, <1>5, <1>6, <1>7, GoesOnAtStage DEF LiteralStages
<1>8. CASE a = "literal"
  <2>1. m = "kept"
    BY <1>4, <1>8
  <2>2. Counts(m, f.kids) /\ Start(m) = Start(a)
    <3>1. Counts("literal", f.kids) /\ IsSeq(f.kids)
      BY <1>2, <1>8, ActingFacts
    <3>2. Len(f.kids) = 0 /\ \A i \in DOMAIN f.kids : f.kids[i] # Null
      BY <3>1 DEF Counts, LiteralStages
    <3>3. Counts("kept", f.kids)
      BY <3>2 DEF Counts
    <3>4. Start("kept") = Start("literal")
      BY DEF Start
    <3> QED BY <1>8, <2>1, <3>3, <3>4
  <2>3. k \in Literal
    BY <1>2, <1>8 DEF Acting, AtStage, peek
  <2>4. g.op = k
    BY <1>5, BecomesFacts
  <2>5. Len(tokens') >= 2 /\ tokens'[Len(tokens') - 1].kind = k
    <3>1. advance /\ text' = text
      BY <1>5 DEF Consumes
    <3>2. Len(tokens') = Len(tokens) + 1 /\ Len(tokens) \in Nat \ {0} /\ DOMAIN tokens = 1 .. Len(tokens)
          /\ Extends(tokens, tokens')
      BY <3>1, ReadOn
    <3>3. Len(tokens') - 1 = Len(tokens) /\ Len(tokens) \in DOMAIN tokens /\ Len(tokens') >= 2
      BY <3>2
    <3>4. tokens'[Len(tokens)] = tokens[Len(tokens)]
      BY <3>2, <3>3 DEF Extends
    <3> QED BY <3>3, <3>4 DEF peek
  <2>6. AtStage(m, g, tokens', text)
    BY <2>1, <2>3, <2>4, <2>5 DEF AtStage
  <2> QED BY <1>2, <1>5, <1>6, <2>2, <2>6, GoesOn
<1> QED BY <1>4, <1>7, <1>8

LEMMA TreeOptional == ParserInv /\ TreeInv /\ Optional => TreeInv'
<1> SUFFICES ASSUME ParserInv, TreeInv, Optional PROVE TreeInv'
  OBVIOUS
<1>1. Doing("opt") /\ stack # <<>> /\ Item.do = "opt"
  BY DEF Optional, Doing
<1>2. PICK r, f, a : Acting(r, f, a)
  BY <1>1, SomeActing
<1>3. PICK m : Leads(Item, a, m) /\ RowLeads(Tail(f.todo), m, "1")
  BY <1>1, <1>2, ActingFacts, FirstItem DEF Doing
<1>4. a \notin LiteralStages /\ RowLeads(Item.yes, a, m) /\ RowLeads(Item.no, a, m)
  BY <1>1, <1>3, FlatItem
<1>5. PICK items \in {Item.yes, Item.no} : Continue(Then(items)) \/ Consumes(Then(items))
  BY DEF Optional
<1>6. RowLeads(items, a, m)
  BY <1>4
<1>7. RowLeads(items \o Tail(f.todo), a, "1")
  BY <1>3, <1>6, RowsJoin
<1>8. Becomes(Then(items), items, f.kids, Top.op)
  BY <1>2, ActingFacts, ThenParts
<1> QED BY <1>2, <1>4, <1>5, <1>7, <1>8, GoesOnAtStage

LEMMA TreeLoop == ParserInv /\ TreeInv /\ Loop => TreeInv'
<1> SUFFICES ASSUME ParserInv, TreeInv, Loop PROVE TreeInv'
  OBVIOUS
<1>1. stack # <<>> /\ Top.todo # <<>> /\ Item.do \in {"until", "while"}
  BY DEF Loop, Doing
<1>2. PICK r, f, a : Acting(r, f, a)
  BY <1>1, SomeActing
<1>3. PICK m : Leads(Item, a, m) /\ RowLeads(Tail(f.todo), m, "1") /\ <<>> \o Tail(f.todo) = Tail(f.todo)
  BY <1>1, <1>2, ActingFacts, FirstItem
<1>4. a = m /\ a \notin LiteralStages /\ RowLeads(Item.body, a, a)
  BY <1>1, <1>3, FlatItem
<1>5. PICK items \in {<<>>, Item.body \o <<Item>>} : Continue(Then(items)) \/ Consumes(Then(items))
  BY DEF Loop
<1>6. RowLeads(items \o Tail(f.todo), a, "1")
  <2>1. RowLeads(<<>> \o Tail(f.todo), a, "1")
    BY <1>3, <1>4
  <2>2. RowLeads(<<Item>>, a, a)
    BY <1>3, <1>4, RowLeads1
  <2>3. RowLeads(Item.body \o <<Item>>, a, a)
    BY <1>4, <2>2, RowsJoin
  <2>4. RowLeads((Item.body \o <<Item>>) \o Tail(f.todo), a, "1")
    BY <1>3, <1>4, <2>3, RowsJoin
  <2> QED BY <2>1, <2>4
<1>7. Becomes(Then(items), items, f.kids, Top.op)
  BY <1>2, ActingFacts, ThenParts
<1> QED BY <1>2, <1>4, <1>5, <1>6, <1>7, GoesOnAtStage

LEMMA TreeDelimiter == ParserInv /\ TreeInv /\ Delimiter => TreeInv'
<1> SUFFICES ASSUME ParserInv, TreeInv, Delimiter PROVE TreeInv'
  OBVIOUS
<1> DEFINE must == [do |-> "must", kinds |-> Item.kinds]
<1>1. Doing("delim") /\ stack # <<>> /\ Item.do = "delim"
  BY DEF Delimiter, Doing
<1>2. PICK r, f, a : Acting(r, f, a)
  BY <1>1, SomeActing
<1>3. PICK m : Leads(Item, a, m) /\ RowLeads(Tail(f.todo), m, "1") /\ <<>> \o Tail(f.todo) = Tail(f.todo)
  BY <1>1, <1>2, ActingFacts, FirstItem DEF Doing
<1>4. a = m /\ a \notin LiteralStages
  BY <1>1, <1>3, PlainItem
<1>5. PICK items \in {<<>>, <<must>>} : Continue(Then(items))
  BY DEF Delimiter
<1>6. RowLeads(<<must>>, a, a)
  <2>1. must.do = "must"
    OBVIOUS
  <2>2. Leads(must, a, a)
    <3> HIDE DEF must
    <3> QED BY <1>4, <2>1 DEF Leads, FlatLeads, Flat
  <2> HIDE DEF must
  <2> QED BY <2>2, RowLeads1
<1> HIDE DEF must
<1>7. RowLeads(items \o Tail(f.todo), a, "1")
  <2>1. RowLeads(<<>> \o Tail(f.todo), a, "1")
    BY <1>3, <1>4
  <2>2. RowLeads(<<must>> \o Tail(f.todo), a, "1")
    BY <1>3, <1>4, <1>6, RowsJoin
  <2> QED BY <2>1, <2>2
<1>8. Becomes(Then(items), items, f.kids, Top.op)
  BY <1>2, ActingFacts, ThenParts
<1> QED BY <1>2, <1>4, <1>5, <1>7, <1>8, GoesOnAtStage

(* expression() and the right operand go on with an item that leads as they do. *)
LEMMA TreeGoesOnWithPrec ==
  ASSUME ParserInv, TreeInv, stack # <<>>, Top.todo # <<>>, Item.do \in {"expression", "above"},
         NEW p, Continue(Then(<<Prec(p)>>))
  PROVE  TreeInv'
<1>1. PICK r, f, a : Acting(r, f, a)
  BY SomeActing
<1>2. PICK m : Leads(Item, a, m) /\ RowLeads(Tail(f.todo), m, "1")
  BY <1>1, ActingFacts, FirstItem
<1>3. <<a, m>> \in Adds
  <2>1. "expression" \in Flat /\ "above" \in Flat
    BY DEF Flat
  <2> QED BY <1>2, <2>1, FlatItem DEF FlatLeads
<1>4. a \notin LiteralStages
  BY <1>3 DEF Adds, LiteralStages
<1>5. RowLeads(<<Prec(p)>>, a, m)
  BY <1>3, ItemLeads, RowLeads1
<1>6. RowLeads(<<Prec(p)>> \o Tail(f.todo), a, "1")
  BY <1>2, <1>5, RowsJoin
<1>7. Becomes(Then(<<Prec(p)>>), <<Prec(p)>>, f.kids, Top.op)
  BY <1>1, ActingFacts, ThenParts
<1> QED BY <1>1, <1>4, <1>6, <1>7, GoesOnAtStage

LEMMA TreeRightOperand == ParserInv /\ TreeInv /\ RightOperand => TreeInv'
  BY TreeGoesOnWithPrec DEF RightOperand, Doing

LEMMA TreeExpression == ParserInv /\ TreeInv /\ expression => TreeInv'
<1> SUFFICES ASSUME ParserInv, TreeInv, expression PROVE TreeInv'
  OBVIOUS
<1>1. stack # <<>> /\ Top.todo # <<>> /\ Item.do = "expression"
  BY DEF expression, Doing
<1>2. CASE eof
  <2>1. ~Fresh
    BY <1>1, <1>2 DEF Fresh, Untouched
  <2>2. Throw(Len(tokens) - 1)
    BY <1>2 DEF expression
  <2> QED BY <1>1, <2>1, <2>2, TreeThrow
<1>3. CASE ~eof
  BY <1>1, <1>3, TreeGoesOnWithPrec DEF expression
<1> QED BY <1>2, <1>3

-----------------------------------------------------------------------------
(* Steps that change the children                                          *)

LEMMA TreeConvertLiteral == ParserInv /\ TreeInv /\ ConvertLiteral => TreeInv'
<1> SUFFICES ASSUME ParserInv, TreeInv, ConvertLiteral PROVE TreeInv'
  OBVIOUS
<1>1. Doing("convert") /\ stack # <<>> /\ Item.do = "convert"
  BY DEF ConvertLiteral, Doing
<1>2. CASE Unconvertible(previous)
  <2>1. stack' = <<>> /\ mode' = "skip" /\ UNCHANGED <<text, tokens, nodes, tree, reports>>
    BY <1>2 DEF ConvertLiteral
  <2> QED BY <2>1 DEF TreeInv, Calls
<1>3. CASE ~Unconvertible(previous)
  <2>1. Continue(Then(<<>>))
    BY <1>3 DEF ConvertLiteral
  <2>2. PICK r, f, a : Acting(r, f, a)
    BY <1>1, SomeActing
  <2>3. PICK m : Leads(Item, a, m) /\ RowLeads(Tail(f.todo), m, "1") /\ <<>> \o Tail(f.todo) = Tail(f.todo)
    BY <1>1, <2>2, ActingFacts, FirstItem DEF Doing
  <2>4. (a = "kept" /\ m = "value") \/ (a = "0" /\ m = "0")
    <3>1. "convert" \in Flat
      BY DEF Flat
    <3> QED BY <1>1, <2>3, <3>1, FlatItem DEF FlatLeads
  <2>5. RowLeads(<<>> \o Tail(f.todo), m, "1")
    BY <2>3
  <2> DEFINE g == Then(<<>>)
  <2>6. Becomes(g, <<>>, f.kids, Top.op)
    BY <2>2, ActingFacts, ThenParts
  <2> HIDE DEF g
  <2>7. CASE a = "0"
    BY <2>1, <2>2, <2>4, <2>5, <2>6, <2>7, GoesOnAtStage DEF LiteralStages, g
  <2>8. CASE a = "kept"
    <3>1. m = "value"
      BY <2>4, <2>8
    <3>2. Counts("value", f.kids) /\ Start("value") = Start("kept")
      <4>1. Counts("kept", f.kids)
        BY <2>2, <2>8, ActingFacts
      <4>2. Len(f.kids) = 0 /\ \A i \in DOMAIN f.kids : f.kids[i] # Null
        BY <4>1 DEF Counts, LiteralStages
      <4>3. Counts("value", f.kids)
        BY <4>2 DEF Counts
      <4>4. Start("value") = Start("kept")
        BY DEF Start
      <4> QED BY <4>3, <4>4
    <3>3. g.op = f.op
      BY <2>2, <2>6, BecomesFacts, ActingFacts
    <3>4. f.op \in Literal /\ Len(tokens) >= 2 /\ tokens[Len(tokens) - 1].kind = f.op
      BY <2>2, <2>8 DEF Acting, AtStage
    <3>5. ~UnconvertibleIn(text, tokens[Len(tokens) - 1])
      BY <1>3 DEF Unconvertible, UnconvertibleIn, previous
    <3>6. tokens' = tokens
      BY <2>1 DEF Continue
    <3>7. AtStage(m, g, tokens', text)
      <4>1. AtStage("value", g, tokens, text)
        BY <3>3, <3>4, <3>5 DEF AtStage
      <4> QED BY <3>1, <3>6, <4>1
    <3> QED BY <2>1, <2>2, <2>5, <2>6, <2>8, <3>1, <3>2, <3>7, GoesOn DEF g
  <2> QED BY <2>4, <2>7, <2>8
<1> QED BY <1>2, <1>3

(* The innermost frame is done with its item and has other children. *)
LEMMA KidsChange ==
  ASSUME ParserInv, TreeInv, NEW r, NEW f, NEW a, Acting(r, f, a),
         NEW g, NEW kids, NEW op, Becomes(g, <<>>, kids, op), Continue(g),
         NEW b, RowLeads(<<>> \o Tail(f.todo), b, "1"), b \notin LiteralStages,
         Among(kids, nodes), Counts(b, kids), Ordered(kids, Start(b), f.first, Len(tokens), nodes)
  PROVE  TreeInv'
<1>1. /\ UNCHANGED <<text, tokens, nodes, reports, mode>> /\ stack' = Append(r, g)
  BY DEF Continue, Acting
<1>2. Top = f /\ IsFrame(g) /\ g.first = f.first /\ g.kids = kids /\ g.todo = <<>> \o Tail(f.todo)
  BY ActingFacts, BecomesFacts
<1>3. RowLeads(g.todo, b, "1")
  BY <1>2
<1>4. IsCall(g, nodes, Len(tokens')) /\ Stands(g, b, Len(tokens'), nodes)
  BY <1>1, <1>2 DEF IsCall, Stands, Acting
<1>5. AtStage(b, g, tokens', text) /\ mode' \in {"parse", "skip", "crashed"}
  BY <1>1 DEF AtStage, LiteralStages, TreeInv
<1> QED BY <1>1, <1>2, <1>3, <1>4, <1>5, FrameActs

LEMMA WithParts ==
  ASSUME IsFrame(Top), NEW items, NEW n
  PROVE  Becomes(With(Then(items), n), items, Append(Top.kids, n), Top.op)
<1>1. With(Then(items), n) = [Then(items) EXCEPT !.kids = Append(Then(items).kids, n)]
  BY DEF With
<1>2. Then(items).kids = Top.kids
  BY ThenParts, BecomesFacts
<1>3. Becomes([Then(items) EXCEPT !.kids = Append(Top.kids, n)], items, Append(Top.kids, n), Top.op)
  BY ThenParts
<1> QED BY <1>1, <1>2, <1>3

LEMMA TreeNoChild == ParserInv /\ TreeInv /\ NoChild => TreeInv'
<1> SUFFICES ASSUME ParserInv, TreeInv, NoChild PROVE TreeInv'
  OBVIOUS
<1>1. Doing("nonode") /\ stack # <<>> /\ Item.do = "nonode"
  BY DEF NoChild, Doing
<1>2. PICK r, f, a : Acting(r, f, a)
  BY <1>1, SomeActing
<1>3. PICK m : Leads(Item, a, m) /\ RowLeads(Tail(f.todo), m, "1") /\ <<>> \o Tail(f.todo) = Tail(f.todo)
  BY <1>1, <1>2, ActingFacts, FirstItem DEF Doing
<1>4. <<a, m>> \in AddsNull
  <2>1. "nonode" \in Flat
    BY DEF Flat
  <2> QED BY <1>1, <1>3, <2>1, FlatItem DEF FlatLeads
<1> DEFINE k == f.kids
           kids == Append(k, Null)
<1>5. Counts(a, k) /\ IsSeq(k) /\ Top = f /\ IsFrame(Top) /\ Among(k, nodes)
      /\ Ordered(k, Start(a), f.first, Len(tokens), nodes)
  BY <1>2, ActingFacts DEF Acting, IsCall, Stands
<1>6. Counts(m, kids) /\ m \notin LiteralStages /\ (Start(m) # Start(a) => Len(k) = 0)
  BY <1>4, <1>5, AddsNullCount
<1>7. /\ IsSeq(kids) /\ DOMAIN kids = 1 .. Len(k) + 1 /\ DOMAIN k = 1 .. Len(k) /\ Len(k) \in Nat
      /\ \A i \in DOMAIN k : kids[i] = k[i]
      /\ kids[Len(k) + 1] = Null
  BY <1>5, AppendFacts, IsSeqFacts
<1>8. Becomes(With(Then(<<>>), Null), <<>>, kids, Top.op) /\ Continue(With(Then(<<>>), Null))
  BY <1>5, WithParts DEF NoChild
<1> HIDE DEF kids, k
<1>9. \A i \in DOMAIN kids : kids[i] # Null => i \in DOMAIN k /\ kids[i] = k[i]
  BY <1>7
<1>10. Among(kids, nodes)
  <2>1. Len(nodes) \in Nat
    BY IsSeqFacts DEF TreeInv, NodesMade
  <2>2. \A i \in DOMAIN kids : kids[i] \in 0 .. Len(nodes)
    BY <1>5, <1>7, <1>9, <2>1 DEF Among, Null
  <2> QED BY <1>7, <2>2 DEF Among
<1>11. Ordered(kids, Start(m), f.first, Len(tokens), nodes)
  <2>1. CASE Start(m) = Start(a)
    BY <1>5, <1>9, <2>1 DEF Ordered
  <2>2. CASE Len(k) = 0
    <3>1. \A i \in DOMAIN kids : kids[i] = Null
      BY <1>7, <2>2
    <3> QED BY <3>1 DEF Ordered
  <2> QED BY <1>6, <2>1, <2>2
<1>12. RowLeads(<<>> \o Tail(f.todo), m, "1")
  BY <1>3
<1> QED BY <1>2, <1>6, <1>8, <1>10, <1>11, <1>12, KidsChange

LEMMA DefaultKids ==
  ASSUME NEW k, IsSeq(k), Len(k) >= 2
  PROVE  LET n == Len(k)
             kids == <<k[n]>> \o SubSeq(k, 2, n - 1)
         IN  /\ n \in Nat /\ IsSeq(kids) /\ Len(kids) = n - 1 /\ DOMAIN kids = 1 .. n - 1 /\ kids[1] = k[n]
             /\ \A i \in 2 .. n - 1 : kids[i] = k[i]
<1> DEFINE S == {k[i] : i \in DOMAIN k}
           n == Len(k)
           s == SubSeq(k, 2, n - 1)
           kids == <<k[n]>> \o s
<1>1. k \in Seq(S) /\ n \in Nat /\ DOMAIN k = 1 .. n
  BY IsSeqFacts DEF IsSeq
<1>2. k[n] \in S
  BY <1>1
<1> HIDE DEF S
<1>3. s \in Seq(S) /\ Len(s) = n - 2 /\ \A i \in 1 .. n - 2 : s[i] = k[i + 1]
  BY <1>1
<1> HIDE DEF s
<1>4. <<k[n]>> \in Seq(S) /\ Len(<<k[n]>>) = 1 /\ <<k[n]>>[1] = k[n]
  BY <1>2
<1>5. kids \in Seq(S) /\ Len(kids) = n - 1 /\ kids[1] = k[n] /\ \A i \in 2 .. n - 1 : kids[i] = s[i - 1]
  <2>1. Len(kids) = 1 + (n - 2) /\ kids \in Seq(S)
    BY <1>3, <1>4
  <2>2. IsSeq(<<k[n]>>) /\ IsSeq(s)
    BY <1>3, <1>4, SeqIsSeq
  <2>3. /\ \A i \in 1 .. 1 : kids[i] = <<k[n]>>[i]
        /\ \A i \in 1 .. n - 2 : kids[1 + i] = s[i]
    BY <1>3, <1>4, <2>2, ConcatFacts
  <2>4. \A i \in 2 .. n - 1 : i - 1 \in 1 .. n - 2 /\ 1 + (i - 1) = i
    BY <1>1
  <2> HIDE DEF kids
  <2>5. \A i \in 2 .. n - 1 : kids[i] = s[i - 1]
    BY <2>3, <2>4
  <2>6. Len(kids) = n - 1
    BY <1>1, <2>1
  <2> QED BY <1>4, <2>1, <2>3, <2>5, <2>6
<1>6. IsSeq(kids) /\ DOMAIN kids = 1 .. n - 1
  BY <1>5, SeqIsSeq, IsSeqFacts
<1> HIDE DEF kids
<1>7. \A i \in 2 .. n - 1 : kids[i] = k[i]
  <2> SUFFICES ASSUME NEW i \in 2 .. n - 1 PROVE kids[i] = k[i]
    OBVIOUS
  <2>1. i - 1 \in 1 .. n - 2 /\ (i - 1) + 1 = i
    BY <1>1
  <2> QED BY <1>3, <1>5, <2>1
<1> QED BY <1>1, <1>5, <1>6, <1>7 DEF kids, s

LEMMA TreeSetDefault == ParserInv /\ TreeInv /\ SetDefault => TreeInv'
<1> SUFFICES ASSUME ParserInv, TreeInv, SetDefault PROVE TreeInv'
  OBVIOUS
<1>1. Doing("default") /\ stack # <<>> /\ Item.do = "default"
  BY DEF SetDefault, Doing
<1>2. PICK r, f, a : Acting(r, f, a)
  BY <1>1, SomeActing
<1>3. PICK m : Leads(Item, a, m) /\ RowLeads(Tail(f.todo), m, "1") /\ <<>> \o Tail(f.todo) = Tail(f.todo)
  BY <1>1, <1>2, ActingFacts, FirstItem DEF Doing
<1>4. a = "circuit+" /\ m = "circuit"
  <2>1. "default" \in Flat
    BY DEF Flat
  <2> QED BY <1>1, <1>3, <2>1, FlatItem DEF FlatLeads
<1> DEFINE k == f.kids
           n == Len(k)
           kids == <<k[n]>> \o SubSeq(k, 2, n - 1)
           g == [Then(<<>>) EXCEPT !.kids = kids]
<1>5. Counts("circuit+", k) /\ IsSeq(k) /\ Top = f /\ IsFrame(Top) /\ Among(k, nodes)
      /\ Ordered(k, 2, f.first, Len(tokens), nodes)
  BY <1>2, <1>4, ActingFacts DEF Acting, IsCall, Stands, Start
<1>6. n >= 2 /\ \A i \in DOMAIN k : k[i] = Null => i = 1
  BY <1>5 DEF Counts
<1>7. Then(<<>>).kids = k
  BY <1>5, ThenParts, BecomesFacts
<1>8. Continue(g)
  BY <1>5, <1>7 DEF SetDefault
<1>9. Becomes(g, <<>>, kids, Top.op)
  BY <1>5, ThenParts
<1>10. /\ n \in Nat /\ IsSeq(kids) /\ Len(kids) = n - 1 /\ DOMAIN kids = 1 .. n - 1 /\ kids[1] = k[n]
       /\ \A i \in 2 .. n - 1 : kids[i] = k[i]
  BY <1>5, <1>6, DefaultKids
<1>11. DOMAIN k = 1 .. n
  BY <1>5, IsSeqFacts
<1> HIDE DEF g, kids, n, k
<1>12. \A i \in DOMAIN kids : kids[i] # Null /\ \E j \in DOMAIN k : kids[i] = k[j] /\ (i = 1 \/ j = i)
  <2> SUFFICES ASSUME NEW i \in DOMAIN kids
               PROVE  kids[i] # Null /\ \E j \in DOMAIN k : kids[i] = k[j] /\ (i = 1 \/ j = i)
    OBVIOUS
  <2>1. CASE i = 1
    <3>1. n \in DOMAIN k /\ n # 1
      BY <1>6, <1>10, <1>11
    <3> QED BY <1>6, <1>10, <2>1, <3>1
  <2>2. CASE i # 1
    <3>1. i \in 2 .. n - 1 /\ i \in DOMAIN k
      BY <1>10, <1>11, <2>2
    <3> QED BY <1>6, <1>10, <2>2, <3>1
  <2> QED BY <2>1, <2>2
<1>13. Among(kids, nodes)
  BY <1>5, <1>10, <1>12 DEF Among
<1>14. Counts("circuit", kids)
  <2>1. Len(kids) >= 1
    BY <1>6, <1>10
  <2> QED BY <1>12, <2>1 DEF Counts, LiteralStages
<1>15. Ordered(kids, 2, f.first, Len(tokens), nodes)
  <2>1. \A i \in DOMAIN kids : f.first <= nodes[kids[i]].lo /\ nodes[kids[i]].hi <= Len(tokens)
    BY <1>5, <1>12 DEF Ordered
  <2>2. \A i, j \in DOMAIN kids : 2 <= i /\ i < j => nodes[kids[i]].hi <= nodes[kids[j]].lo
    <3> SUFFICES ASSUME NEW i \in DOMAIN kids, NEW j \in DOMAIN kids, 2 <= i, i < j
                 PROVE  nodes[kids[i]].hi <= nodes[kids[j]].lo
      OBVIOUS
    <3>1. i # 1 /\ j # 1
      BY <1>10
    <3>2. i \in DOMAIN k /\ j \in DOMAIN k /\ kids[i] = k[i] /\ kids[j] = k[j] /\ k[i] # Null /\ k[j] # Null
      BY <1>12, <3>1
    <3> QED BY <1>5, <3>2 DEF Ordered
  <2> QED BY <2>1, <2>2 DEF Ordered
<1>16. RowLeads(<<>> \o Tail(f.todo), m, "1") /\ Start("circuit") = 2 /\ "circuit" \notin LiteralStages
  BY <1>3 DEF Start, LiteralStages
<1> QED BY <1>2, <1>4, <1>8, <1>9, <1>13, <1>14, <1>15, <1>16, KidsChange

LEMMA TreeDropChild == ParserInv /\ TreeInv /\ DropChild => TreeInv'
<1> SUFFICES ASSUME ParserInv, TreeInv, DropChild PROVE TreeInv'
  OBVIOUS
<1>1. Doing("discard") /\ stack # <<>> /\ Item.do = "discard"
  BY DEF DropChild, Doing
<1>2. PICK r, f, a : Acting(r, f, a)
  BY <1>1, SomeActing
<1>3. PICK m : Leads(Item, a, m) /\ RowLeads(Tail(f.todo), m, "1") /\ <<>> \o Tail(f.todo) = Tail(f.todo)
  BY <1>1, <1>2, ActingFacts, FirstItem DEF Doing
<1>4. m = "0"
  <2>1. "discard" \in Flat
    BY DEF Flat
  <2> QED BY <1>1, <1>3, <2>1, FlatItem DEF FlatLeads
<1> DEFINE g == [Then(<<>>) EXCEPT !.kids = <<>>]
<1>5. Continue(g) /\ Becomes(g, <<>>, <<>>, Top.op)
  BY <1>2, ActingFacts, ThenParts DEF DropChild
<1>6. DOMAIN <<>> = {} /\ Len(<<>>) = 0 /\ IsSeq(<<>>)
  BY NoItems DEF IsRow
<1>7. Among(<<>>, nodes) /\ Ordered(<<>>, Start("0"), f.first, Len(tokens), nodes) /\ Counts("0", <<>>)
  BY <1>6 DEF Among, Ordered, Counts, LiteralStages
<1>8. RowLeads(<<>> \o Tail(f.todo), m, "1") /\ "0" \notin LiteralStages
  BY <1>3 DEF LiteralStages
<1> HIDE DEF g
<1> QED BY <1>2, <1>4, <1>5, <1>7, <1>8, KidsChange

-----------------------------------------------------------------------------
(* Steps that call                                                         *)

LEMMA NoKids ==
  /\ DOMAIN <<>> = {} /\ Len(<<>>) = 0 /\ IsSeq(<<>>)
  /\ \A made : Among(<<>>, made)
  /\ \A from, lo, hi, made : Ordered(<<>>, from, lo, hi, made)
  /\ \A a \in {"0", "all", "even", "literal"} : Counts(a, <<>>)
  /\ \A made, limit, next : Waiting(<<>>, limit, made, next)
<1>1. DOMAIN <<>> = {} /\ Len(<<>>) = 0 /\ IsSeq(<<>>)
  BY NoItems DEF IsRow
<1>2. \A a \in {"0", "all", "even", "literal"} : Counts(a, <<>>)
  <2>1. 0 % 2 = 0
    OBVIOUS
  <2> QED BY <1>1, <2>1 DEF Counts, LiteralStages
<1> QED BY <1>1, <1>2 DEF Among, Ordered, Waiting

LEMMA FreshCall ==
  ASSUME ParserInv, TreeInv, NEW row,
         NEW a \in {"0", "all", "even", "literal"}, RowLeads(row, a, "1"),
         a = "literal" => peek.kind \in Literal
  PROVE  /\ IsCall(Called(row), nodes, Len(tokens)) /\ Acts(Called(row), nodes, tokens, text)
         /\ Called(row).first = Len(tokens)
<1> DEFINE h == Called(row)
<1>1. h = [todo |-> row, kids |-> <<>>, first |-> Len(tokens), op |-> ""]
  BY DEF Called, Frame
<1> HIDE DEF h
<1>2. IsFrame(h) /\ h.todo = row /\ h.kids = <<>> /\ h.first = Len(tokens)
  BY <1>1 DEF IsFrame
<1>3. Len(tokens) \in Nat \ {0}
  BY IsSeqFacts DEF ParserInv, Sequences, TokensInText
<1>4. IsCall(h, nodes, Len(tokens))
  BY <1>2, <1>3, NoKids DEF IsCall
<1>5. Stands(h, a, Len(tokens), nodes)
  BY <1>2, NoKids DEF Stands
<1>6. AtStage(a, h, tokens, text)
  BY DEF AtStage, peek
<1> QED BY <1>2, <1>4, <1>5, <1>6 DEF Acts, h

LEMMA CallsMore ==
  ASSUME ParserInv, TreeInv, UNCHANGED <<text, tokens, nodes, mode, reports>>,
         NEW r, NEW h, stack' = Append(r, h), Waiting(r, h.first, nodes, Len(tokens)),
         IsCall(h, nodes, Len(tokens)), Acts(h, nodes, tokens, text)
  PROVE  TreeInv'
  BY DEF TreeInv, Calls

(* The innermost frame waits for its item to return. *)
LEMMA StartsToWait ==
  ASSUME ParserInv, TreeInv, NEW r, NEW f, NEW a, Acting(r, f, a),
         NEW m, <<a, m>> \in Adds, RowLeads(<<>> \o Tail(f.todo), m, "1")
  PROVE  LET s == Append(r, Then(<<>>)) IN
         /\ Set(Then(<<>>)) = s /\ IsSeq(s) /\ Waiting(s, Len(tokens), nodes, Len(tokens))
<1> DEFINE g == Then(<<>>)
<1>1. Becomes(g, <<>>, f.kids, Top.op) /\ Top = f
  BY ActingFacts, ThenParts
<1>2. Set(g) = Append(r, g)
  BY DEF Acting
<1> HIDE DEF g
<1>3. IsFrame(g) /\ g.todo = <<>> \o Tail(f.todo) /\ g.kids = f.kids /\ g.first = f.first
  BY <1>1, BecomesFacts
<1>4. /\ Waiting(r, f.first, nodes, Len(tokens)) /\ IsCall(f, nodes, Len(tokens))
      /\ Stands(f, a, Len(tokens), nodes)
  BY DEF Acting
<1>5. IsCall(g, nodes, Len(tokens)) /\ Stands(g, a, Len(tokens), nodes) /\ g.first <= Len(tokens)
  <2>1. f.first \in 1 .. Len(tokens) /\ Len(tokens) \in Nat
    BY <1>4, IsSeqFacts DEF IsCall, ParserInv, Sequences
  <2>2. f.first <= Len(tokens)
    BY <2>1
  <2> QED BY <1>3, <1>4, <2>2 DEF IsCall, Stands
<1>6. Waits(g, Len(tokens), nodes)
  <2>1. RowLeads(g.todo, m, "1")
    BY <1>3
  <2> QED BY <1>5, <2>1 DEF Waits
<1>7. Waiting(Append(r, g), Len(tokens), nodes, Len(tokens)) /\ IsSeq(Append(r, g))
  BY <1>3, <1>4, <1>5, <1>6, WaitingMore
<1> QED BY <1>2, <1>7 DEF g

LEMMA TreeCallFunction == ParserInv /\ TreeInv /\ CallFunction => TreeInv'
<1> SUFFICES ASSUME ParserInv, TreeInv, CallFunction PROVE TreeInv'
  OBVIOUS
<1>1. Doing("sub") /\ stack # <<>> /\ Item.do = "sub"
  BY DEF CallFunction, Doing
<1>2. PICK r, f, a : Acting(r, f, a)
  BY <1>1, SomeActing
<1>3. PICK m : Leads(Item, a, m) /\ RowLeads(Tail(f.todo), m, "1") /\ <<>> \o Tail(f.todo) = Tail(f.todo)
  BY <1>1, <1>2, ActingFacts, FirstItem DEF Doing
<1>4. <<a, m>> \in Adds /\ Item.fn \in ItsRows
  <2>1. "sub" \in Flat
    BY DEF Flat
  <2> QED BY <1>1, <1>3, <2>1, FlatItem DEF FlatLeads
<1> DEFINE s == Append(r, Then(<<>>))
           h == Called(Row(Item.fn, peek.kind))
<1>5. RowLeads(<<>> \o Tail(f.todo), m, "1")
  BY <1>3
<1>6. Set(Then(<<>>)) = s /\ IsSeq(s) /\ Waiting(s, Len(tokens), nodes, Len(tokens))
  BY <1>2, <1>4, <1>5, StartsToWait
<1>7. IsCall(h, nodes, Len(tokens)) /\ Acts(h, nodes, tokens, text) /\ h.first = Len(tokens)
  <2>1. PICK b \in {"0", "all"} : RowLeads(Row(Item.fn, peek.kind), b, "1")
    BY <1>4, SubLeads
  <2> QED BY <2>1, FreshCall
<1>8. stack' = Set(Then(<<>>)) \o <<h>> /\ UNCHANGED <<text, tokens, nodes, mode, reports>>
  BY DEF CallFunction, Pushes
<1> HIDE DEF s, h
<1>9. stack' = Append(s, h)
  BY <1>6, <1>8, StackGrows
<1> QED BY <1>6, <1>7, <1>8, <1>9, CallsMore

LEMMA TreePrecendece == ParserInv /\ TreeInv /\ precendece => TreeInv'
<1> SUFFICES ASSUME ParserInv, TreeInv, precendece PROVE TreeInv'
  OBVIOUS
<1>1. Doing("precedence") /\ stack # <<>> /\ Item.do = "precedence" /\ peek.kind \in PrefixToken
  BY DEF precendece, Doing
<1>2. PICK r, f, a : Acting(r, f, a)
  BY <1>1, SomeActing
<1>3. PICK m : Leads(Item, a, m) /\ RowLeads(Tail(f.todo), m, "1") /\ <<>> \o Tail(f.todo) = Tail(f.todo)
  BY <1>1, <1>2, ActingFacts, FirstItem DEF Doing
<1>4. <<a, m>> \in Adds
  <2>1. "precedence" \in Flat
    BY DEF Flat
  <2> QED BY <1>1, <1>3, <2>1, FlatItem DEF FlatLeads
<1> DEFINE s == Append(r, Then(<<>>))
           loop == <<Infix(Item.prec)>>
           g == Called(loop)
           h == Called(PrefixRow(peek.kind))
<1>5. RowLeads(<<>> \o Tail(f.todo), m, "1")
  BY <1>3
<1>6. Set(Then(<<>>)) = s /\ IsSeq(s) /\ Waiting(s, Len(tokens), nodes, Len(tokens))
  BY <1>2, <1>4, <1>5, StartsToWait
<1>7. IsCall(h, nodes, Len(tokens)) /\ Acts(h, nodes, tokens, text) /\ h.first = Len(tokens)
  <2>1. PICK b \in {"0", "all", "even", "literal"} :
          RowLeads(PrefixRow(peek.kind), b, "1") /\ (b = "literal" => peek.kind \in Literal)
    BY <1>1, PrefixLeads
  <2> QED BY <2>1, FreshCall
<1>8. stack' = Set(Then(<<>>)) \o <<g, h>> /\ UNCHANGED <<text, tokens, nodes, mode, reports>>
  BY DEF precendece, Pushes
<1>9. g = [todo |-> loop, kids |-> <<>>, first |-> Len(tokens), op |-> ""]
  BY DEF Called, Frame
<1>10. RowLeads(loop, "1", "1")
  <2>1. Leads(Infix(Item.prec), "1", "1")
    BY ItemLeads
  <2> QED BY <2>1, RowLeads1
<1> HIDE DEF s, h, g, loop
<1>11. IsFrame(g) /\ g.todo = loop /\ g.kids = <<>> /\ g.first = Len(tokens)
  BY <1>9 DEF IsFrame
<1>12. Len(tokens) \in Nat \ {0}
  BY IsSeqFacts DEF ParserInv, Sequences, TokensInText
<1>13. IsCall(g, nodes, Len(tokens))
  BY <1>11, <1>12, NoKids DEF IsCall
<1>14. Waits(g, Len(tokens), nodes)
  <2>1. Stands(g, "0", Len(tokens), nodes)
    BY <1>11, NoKids DEF Stands
  <2>2. <<"0", "1">> \in Adds
    BY DEF Adds
  <2>3. g.first <= Len(tokens)
    BY <1>11, <1>12
  <2> QED BY <1>10, <1>11, <2>1, <2>2, <2>3 DEF Waits
<1>15. Waiting(Append(s, g), Len(tokens), nodes, Len(tokens))
  BY <1>6, <1>11, <1>13, <1>14, WaitingMore
<1>16. stack' = Append(Append(s, g), h)
  BY <1>6, <1>8, StackGrows
<1> QED BY <1>7, <1>8, <1>15, <1>16, CallsMore

LEMMA TreeInfixLoop == ParserInv /\ TreeInv /\ InfixLoop => TreeInv'
<1> SUFFICES ASSUME ParserInv, TreeInv, InfixLoop PROVE TreeInv'
  OBVIOUS
<1>1. Doing("infix") /\ stack # <<>> /\ Item.do = "infix"
  BY DEF InfixLoop, Doing
<1>2. PICK r, f, a : Acting(r, f, a)
  BY <1>1, SomeActing
<1>3. PICK m : Leads(Item, a, m) /\ RowLeads(Tail(f.todo), m, "1") /\ <<>> \o Tail(f.todo) = Tail(f.todo)
  BY <1>1, <1>2, ActingFacts, FirstItem DEF Doing
<1>4. a = "1" /\ m = "1"
  <2>1. "infix" \in Flat
    BY DEF Flat
  <2> QED BY <1>1, <1>3, <2>1, FlatItem DEF FlatLeads
<1>5. CASE ~Continues(Item.prec)
  <2>1. Continue(Then(<<>>))
    BY <1>5 DEF InfixLoop
  <2>2. RowLeads(<<>> \o Tail(f.todo), a, "1") /\ "1" \notin LiteralStages
    BY <1>3, <1>4 DEF LiteralStages
  <2>3. Becomes(Then(<<>>), <<>>, f.kids, Top.op)
    BY <1>2, ActingFacts, ThenParts
  <2> QED BY <1>2, <1>4, <2>1, <2>2, <2>3, GoesOnAtStage
<1>6. CASE Continues(Item.prec)
  <2> DEFINE row == InfixRow(peek.kind)
             g == [Top EXCEPT !.kids = <<>>]
             h == Frame(row, Top.kids, Top.first)
  <2>1. stack' = Append(Set(g), h) /\ UNCHANGED <<text, tokens, nodes, mode, reports>>
    BY <1>6 DEF InfixLoop
  <2>2. /\ Top = f /\ IsCall(f, nodes, Len(tokens)) /\ RowLeads(f.todo, "1", "1") /\ Set(g) = Append(r, g)
        /\ Counts("1", f.kids) /\ Ordered(f.kids, 1, f.first, Len(tokens), nodes)
        /\ Waiting(r, f.first, nodes, Len(tokens))
    BY <1>2, <1>4 DEF Acting, Stands, Start
  <2>3. /\ h = [todo |-> row, kids |-> f.kids, first |-> f.first, op |-> ""]
    BY <2>2 DEF Frame
  <2>4. g = [todo |-> f.todo, kids |-> <<>>, first |-> f.first, op |-> f.op]
    <3>1. f = [todo |-> f.todo, kids |-> f.kids, first |-> f.first, op |-> f.op]
      BY <2>2 DEF IsCall, IsFrame
    <3>2. PICK t, k, i, o : f = [todo |-> t, kids |-> k, first |-> i, op |-> o]
      BY <3>1
    <3>3. [f EXCEPT !.kids = <<>>] = [todo |-> t, kids |-> <<>>, first |-> i, op |-> o]
      BY <3>2
    <3> QED BY <2>2, <3>2, <3>3
  <2>5. PICK b \in {"1", "some"} : RowLeads(row, b, "1")
    BY InfixLeads
  <2> HIDE DEF row, g, h
  <2>6. IsFrame(h) /\ h.todo = row /\ h.kids = f.kids /\ h.first = f.first
    BY <2>3 DEF IsFrame
  <2>7. IsFrame(g) /\ g.todo = f.todo /\ g.kids = <<>> /\ g.first = f.first
    BY <2>4 DEF IsFrame
  <2>8. IsCall(h, nodes, Len(tokens)) /\ IsCall(g, nodes, Len(tokens))
    BY <2>2, <2>6, <2>7, NoKids DEF IsCall
  <2>9. Acts(h, nodes, tokens, text)
    <3>1. Counts(b, h.kids)
      <4>1. Len(f.kids) = 1 /\ \A i \in DOMAIN f.kids : f.kids[i] # Null
        BY <2>2 DEF Counts
      <4> QED BY <2>6, <4>1 DEF Counts, LiteralStages
    <3>2. Ordered(h.kids, Start(b), h.first, Len(tokens), nodes)
      BY <2>2, <2>6 DEF Start
    <3>3. AtStage(b, h, tokens, text)
      BY DEF AtStage
    <3>4. Stands(h, b, Len(tokens), nodes)
      BY <3>1, <3>2 DEF Stands
    <3> QED BY <2>5, <2>6, <3>3, <3>4 DEF Acts
  <2>10. Waits(g, h.first, nodes)
    <3>1. Stands(g, "0", h.first, nodes) /\ <<"0", "1">> \in Adds
      BY <2>7, NoKids DEF Stands, Adds
    <3>2. g.first <= h.first
      <4>1. f.first \in 1 .. Len(tokens)
        BY <2>2 DEF IsCall
      <4> QED BY <2>6, <2>7, <4>1
    <3> QED BY <2>2, <2>7, <3>1, <3>2 DEF Waits
  <2>11. Waiting(Append(r, g), h.first, nodes, Len(tokens))
    BY <2>2, <2>7, <2>8, <2>10, WaitingMore
  <2>12. stack' = Append(Append(r, g), h)
    BY <2>1, <2>2
  <2> QED BY <2>1, <2>8, <2>9, <2>11, <2>12, CallsMore
<1> QED BY <1>5, <1>6

LEMMA TreeDeclaration == ParserInv /\ TreeInv /\ Declaration => TreeInv'
<1> SUFFICES ASSUME ParserInv, TreeInv, Declaration PROVE TreeInv'
  OBVIOUS
<1> DEFINE h == Called(declaration(peek.kind))
<1>1. stack' = <<h>> /\ UNCHANGED <<text, tokens, nodes, mode, reports>>
  BY DEF Declaration
<1>2. IsCall(h, nodes, Len(tokens)) /\ Acts(h, nodes, tokens, text) /\ h.first = Len(tokens)
  <2>1. PICK b \in {"0", "all"} : RowLeads(declaration(peek.kind), b, "1")
    BY DeclarationLeads
  <2> QED BY <2>1, FreshCall
<1> HIDE DEF h
<1>3. stack' = Append(<<>>, h)
  <2>1. <<h>> = Append(<<>>, h)
    OBVIOUS
  <2> QED BY <1>1, <2>1
<1>4. Waiting(<<>>, h.first, nodes, Len(tokens))
  BY NoKids
<1> QED BY <1>1, <1>2, <1>3, <1>4, CallsMore

LEMMA TreeOutside ==
  ParserInv /\ TreeInv /\ (precendece_NoRule \/ precendece_NullPrefix \/ Recover) => TreeInv'
<1> SUFFICES ASSUME ParserInv, TreeInv PROVE precendece_NoRule \/ precendece_NullPrefix \/ Recover => TreeInv'
  OBVIOUS
<1>1. precendece_NoRule => TreeInv'
  <2> SUFFICES ASSUME precendece_NoRule PROVE TreeInv'
    OBVIOUS
  <2>1. stack # <<>> /\ Throw(Len(tokens))
    BY DEF precendece_NoRule, Doing
  <2> QED BY <2>1, TreeThrow
<1>2. precendece_NullPrefix => TreeInv'
  BY DEF precendece_NullPrefix, TreeInv, Calls
<1>3. Recover => TreeInv'
  <2> SUFFICES ASSUME Recover PROVE TreeInv'
    OBVIOUS
  <2>1. /\ text' = text /\ (tokens' = tokens \/ advance) /\ UNCHANGED <<nodes, reports>>
        /\ mode' \in {"parse", "skip"} /\ stack' = stack /\ mode = "skip"
    BY DEF Recover
  <2>2. stack' = <<>>
    BY <2>1 DEF ParserInv, Skipping
  <2>3. NodesMade(nodes', Len(tokens'))
    <3>1. Len(tokens) \in Nat /\ Len(tokens') \in Nat /\ Len(tokens) <= Len(tokens')
      BY <2>1, ReadOn
    <3> QED BY <2>1, <3>1, NodesStay DEF TreeInv
  <2>4. Calls(stack', nodes', tokens', text')
    BY <2>2 DEF Calls
  <2> QED BY <2>1, <2>3, <2>4, TreeStep
<1> QED BY <1>1, <1>2, <1>3

-----------------------------------------------------------------------------
(* Steps that make nodes and return them                                   *)

LEMMA HalfTheModulus ==
  Modulus \in Nat /\ Modulus \div 2 \in Nat /\ Modulus \div 2 >= 1 /\ Modulus = 2 * (Modulus \div 2)
<1> DEFINE m == Modulus
<1>1. m \in Nat /\ m >= 2 /\ m % 2 = 0
  BY ModulusAssumption
<1> HIDE DEF m
<1>2. m = (m \div 2) * 2 + (m % 2)
  BY <1>1
<1>3. m \div 2 \in Int
  BY <1>1
<1> DEFINE h == m \div 2
<1>4. m = h * 2 /\ h \in Int
  BY <1>1, <1>2, <1>3
<1> HIDE DEF h
<1>5. h \in Nat /\ h >= 1 /\ m = 2 * h
  BY <1>1, <1>4
<1> QED BY <1>1, <1>5 DEF h, m

LEMMA NodeIsMade ==
  ASSUME ParserInv, TreeInv, NEW r, NEW f, NEW a, Acting(r, f, a),
         NEW kind \in Kind, Makes(kind), RowLeads(<<>> \o Tail(f.todo), "1", "1"),
         NumberOfChildren(kind, Len(f.kids)),
         \A i \in DOMAIN f.kids : f.kids[i] = Null => MayBeNull(kind, i),
         Start(a) = 2 <=> kind = "StatementCircuit",
         kind = "ExpressionNat" => ValueOf(kind) \in NatRange,
         kind = "ExpressionInt" => ValueOf(kind) \in IntRange
  PROVE  TreeInv'
<1> DEFINE n == Len(nodes)
           node == NewNode(kind, Top.kids)
           g == [Then(<<>>) EXCEPT !.kids = <<n + 1>>]
<1>1. nodes' = Append(nodes, node) /\ stack' = Append(r, g) /\ UNCHANGED <<text, tokens, tree, mode, reports>>
  BY DEF Makes, Acting
<1>2. /\ Top = f /\ IsCall(f, nodes, Len(tokens)) /\ Waiting(r, f.first, nodes, Len(tokens))
      /\ Ordered(f.kids, Start(a), f.first, Len(tokens), nodes) /\ Among(f.kids, nodes)
      /\ f.first \in 1 .. Len(tokens)
  BY DEF Acting, IsCall, Stands
<1>3. node = [kind |-> kind, kids |-> f.kids, op |-> f.op, val |-> ValueOf(kind),
              lo |-> f.first, hi |-> Len(tokens)]
  BY <1>2 DEF NewNode
<1>4. Becomes(g, <<>>, <<n + 1>>, Top.op)
  BY <1>2, ThenParts DEF IsCall
<1>5. n \in Nat /\ IsSeq(nodes) /\ DOMAIN nodes = 1 .. n /\ Len(tokens) \in Nat /\ NodesMade(nodes, Len(tokens))
  BY IsSeqFacts DEF ParserInv, Sequences, TreeInv
<1> HIDE DEF node, g
<1>6. /\ IsSeq(nodes') /\ Len(nodes') = n + 1 /\ DOMAIN nodes' = 1 .. n + 1 /\ nodes'[n + 1] = node
      /\ Extends(nodes, nodes') /\ \A i \in 1 .. n : nodes'[i] = nodes[i]
  <2>1. /\ IsSeq(Append(nodes, node)) /\ Len(Append(nodes, node)) = n + 1
        /\ DOMAIN Append(nodes, node) = 1 .. n + 1 /\ Append(nodes, node)[n + 1] = node
        /\ \A i \in 1 .. n : Append(nodes, node)[i] = nodes[i]
        /\ Extends(nodes, Append(nodes, node))
    BY <1>5, AppendFacts, AppendExtends
  <2> QED BY <1>1, <2>1
<1>7. /\ node.kind = kind /\ node.kids = f.kids /\ node.op = f.op /\ node.val = ValueOf(kind)
      /\ node.lo = f.first /\ node.hi = Len(tokens)
  BY <1>3
<1>8. Made(node, n, Len(tokens), nodes')
  <2>1. node = [kind |-> node.kind, kids |-> node.kids, op |-> node.op, val |-> node.val,
                lo |-> node.lo, hi |-> node.hi]
    BY <1>3
  <2>2. WellFormed(node, n)
    <3>1. \A i \in DOMAIN f.kids : f.kids[i] \in 1 .. n \/ f.kids[i] = Null
      BY <1>2, <1>5 DEF Among, Null
    <3> QED BY <1>7, <3>1 DEF WellFormed
  <2>3. node.lo \in 1 .. Len(tokens) /\ node.hi \in node.lo .. Len(tokens)
    BY <1>2, <1>5, <1>7
  <2>4. Ordered(f.kids, Start(a), f.first, Len(tokens), nodes')
    BY <1>2, <1>5, <1>6, OrderedStays
  <2>5. Start(a) = IF kind = "StatementCircuit" THEN 2 ELSE 1
    BY DEF Start
  <2>6. Ordered(node.kids, IF node.kind = "StatementCircuit" THEN 2 ELSE 1, node.lo, node.hi, nodes')
    BY <1>7, <2>4, <2>5
  <2>7. IsSeq(node.kids)
    BY <1>2, <1>7 DEF Among
  <2> QED BY <1>7, <2>1, <2>2, <2>3, <2>6, <2>7 DEF Made
<1>9. ASSUME NEW i \in 1 .. n PROVE Made(nodes[i], i - 1, Len(tokens), nodes')
  <2>1. Made(nodes[i], i - 1, Len(tokens), nodes)
    BY <1>5 DEF NodesMade
  <2> DEFINE x == nodes[i]
             s == IF x.kind = "StatementCircuit" THEN 2 ELSE 1
  <2>2. Ordered(x.kids, s, x.lo, x.hi, nodes) /\ x.hi \in Nat /\ Among(x.kids, nodes)
    <3>1. x.lo \in 1 .. Len(tokens) /\ x.hi \in x.lo .. Len(tokens) /\ IsSeq(x.kids) /\ WellFormed(x, i - 1)
      BY <2>1 DEF Made
    <3>2. \A j \in DOMAIN x.kids : x.kids[j] \in 0 .. Len(nodes)
      <4>1. \A j \in DOMAIN x.kids : x.kids[j] \in 1 .. i - 1 \/ x.kids[j] = 0
        BY <3>1 DEF WellFormed, Null
      <4> QED BY <1>5, <4>1
    <3>3. Ordered(x.kids, s, x.lo, x.hi, nodes)
      BY <2>1 DEF Made
    <3>4. x.hi \in Nat
      BY <1>5, <3>1
    <3> QED BY <3>1, <3>2, <3>3, <3>4 DEF Among
  <2> HIDE DEF x, s
  <2>3. Ordered(x.kids, s, x.lo, x.hi, nodes')
    <3>1. x.hi <= x.hi
      BY <2>2
    <3> QED BY <1>5, <1>6, <2>2, <3>1, OrderedStays
  <2> QED BY <2>1, <2>3 DEF Made, x, s
<1>10. NodesMade(nodes', Len(tokens'))
  <2>1. \A i \in DOMAIN nodes' : Made(nodes'[i], i - 1, Len(tokens), nodes')
    <3> SUFFICES ASSUME NEW i \in DOMAIN nodes' PROVE Made(nodes'[i], i - 1, Len(tokens), nodes')
      OBVIOUS
    <3>1. CASE i = n + 1
      <4>1. i - 1 = n
        BY <1>5, <3>1
      <4> QED BY <1>6, <1>8, <3>1, <4>1
    <3>2. CASE i # n + 1
      <4>1. i \in 1 .. n
        BY <1>5, <1>6, <3>2
      <4> QED BY <1>6, <1>9, <4>1
    <3> QED BY <3>1, <3>2
  <2> QED BY <1>1, <1>6, <2>1 DEF NodesMade
<1> DEFINE k == <<n + 1>>
<1>11. IsFrame(g) /\ g.todo = <<>> \o Tail(f.todo) /\ g.kids = k /\ g.first = f.first
  BY <1>2, <1>4, BecomesFacts
<1>12. IsSeq(k) /\ Len(k) = 1 /\ DOMAIN k = {1} /\ k[1] = n + 1
  <2>1. k \in Seq({n + 1})
    OBVIOUS
  <2>2. Len(k) = 1 /\ k[1] = n + 1
    OBVIOUS
  <2> HIDE DEF k
  <2>3. IsSeq(k) /\ DOMAIN k = 1 .. 1
    BY <2>1, <2>2, SeqIsSeq, IsSeqFacts
  <2>4. 1 .. 1 = {1}
    OBVIOUS
  <2> QED BY <2>2, <2>3, <2>4
<1> HIDE DEF k
<1>13. IsCall(g, nodes', Len(tokens'))
  <2>1. Among(k, nodes')
    BY <1>5, <1>6, <1>12 DEF Among
  <2> QED BY <1>1, <1>2, <1>11, <2>1 DEF IsCall
<1>14. Acts(g, nodes', tokens', text')
  <2>1. Counts("1", k)
    BY <1>5, <1>12 DEF Counts, LiteralStages, Null
  <2>2. Ordered(k, Start("1"), f.first, Len(tokens), nodes')
    <3>1. f.first <= nodes'[n + 1].lo /\ nodes'[n + 1].hi <= Len(tokens)
      BY <1>2, <1>5, <1>6, <1>7
    <3> QED BY <1>12, <3>1 DEF Ordered
  <2>3. Stands(g, "1", Len(tokens'), nodes')
    BY <1>1, <1>11, <2>1, <2>2 DEF Stands
  <2>4. RowLeads(g.todo, "1", "1") /\ AtStage("1", g, tokens', text')
    BY <1>11 DEF AtStage
  <2> QED BY <2>3, <2>4 DEF Acts
<1>15. Waiting(r, g.first, nodes', Len(tokens'))
  <2>1. f.first \in Nat
    BY <1>2
  <2>2. Len(tokens) <= Len(tokens)
    BY <1>5
  <2>3. Waiting(r, f.first, nodes', Len(tokens))
    BY <1>2, <1>5, <1>6, <2>1, <2>2, WaitingStays
  <2> QED BY <1>1, <1>11, <2>3
<1>16. Calls(stack', nodes', tokens', text')
  BY <1>1, <1>13, <1>14, <1>15 DEF Calls
<1>17. mode' \in {"parse", "skip", "crashed"}
  BY <1>1 DEF TreeInv
<1> QED BY <1>1, <1>10, <1>16, <1>17, TreeStep

LEMMA LiteralValue ==
  ASSUME ParserInv, TreeInv, NEW f, NEW r, Acting(r, f, "value")
  PROVE  LET kind == LiteralKind(f.op) IN
         /\ kind \in {"ExpressionBool", "ExpressionRealKeyword", "ExpressionNat", "ExpressionInt", "ExpressionReal"}
         /\ kind = "ExpressionNat" => ValueOf(kind) \in NatRange
         /\ kind = "ExpressionInt" => ValueOf(kind) \in IntRange
<1>1. /\ f.op \in Literal /\ Len(tokens) >= 2 /\ previous.kind = f.op
      /\ ~UnconvertibleIn(text, previous)
  BY DEF Acting, AtStage, previous
<1>2. HasDigits(text, previous)
  <2>1. Len(tokens) \in Nat /\ DOMAIN tokens = 1 .. Len(tokens)
    BY IsSeqFacts DEF ParserInv, Sequences
  <2>2. Len(tokens) - 1 \in DOMAIN tokens
    BY <1>1, <2>1
  <2> QED BY <2>2 DEF TreeInv, previous
<1> DEFINE k == f.op
           kind == LiteralKind(k)
<1>3. /\ k \in {"true", "false"} => kind = "ExpressionBool"
      /\ k \in {"pi", "tau", "eul"} => kind = "ExpressionRealKeyword"
      /\ k = "LITERAL_NAT" => kind = "ExpressionNat"
      /\ k = "LITERAL_INT" => kind = "ExpressionInt"
      /\ k = "LITERAL_REAL" => kind = "ExpressionReal"
  BY DEF LiteralKind
<1>4. k \in {"true", "false"} \/ k \in {"pi", "tau", "eul"} \/ k = "LITERAL_NAT" \/ k = "LITERAL_INT" \/ k = "LITERAL_REAL"
  BY <1>1 DEF Literal
<1> HIDE DEF kind
<1>5. kind \in {"ExpressionBool", "ExpressionRealKeyword", "ExpressionNat", "ExpressionInt", "ExpressionReal"}
  BY <1>3, <1>4
<1>6. ASSUME kind = "ExpressionNat" PROVE ValueOf(kind) \in NatRange
  <2>1. previous.kind = "LITERAL_NAT"
    BY <1>1, <1>3, <1>4, <1>6
  <2> DEFINE v == Number[text[previous.lo]]
  <2>2. ValueOf(kind) = v
    BY <1>6 DEF ValueOf
  <2>3. v \in Nat
    BY <1>2, <2>1, ParserAssumption DEF HasDigits
  <2>4. ~(v >= Modulus)
    BY <1>1, <2>1 DEF UnconvertibleIn
  <2> HIDE DEF v
  <2> QED BY <2>2, <2>3, <2>4, HalfTheModulus DEF NatRange
<1>7. ASSUME kind = "ExpressionInt" PROVE ValueOf(kind) \in IntRange
  <2>1. previous.kind = "LITERAL_INT"
    BY <1>1, <1>3, <1>4, <1>7
  <2> DEFINE v == Number[text[previous.lo + 1]]
             h == Modulus \div 2
  <2>2. ValueOf(kind) = 0 - v
    BY <1>7 DEF ValueOf
  <2>3. v \in Nat
    BY <1>2, <2>1, ParserAssumption DEF HasDigits
  <2>4. ~(v > h)
    BY <1>1, <2>1 DEF UnconvertibleIn
  <2>5. h \in Nat /\ h >= 1
    BY HalfTheModulus
  <2>6. IntRange = 0 - h .. h - 1
    BY DEF IntRange
  <2> HIDE DEF v, h
  <2>7. 0 - v \in 0 - h .. h - 1
    BY <2>3, <2>4, <2>5
  <2> QED BY <2>2, <2>6, <2>7
<1> QED BY <1>5, <1>6, <1>7 DEF kind

LEMMA TreeMakeNode == ParserInv /\ TreeInv /\ make_node => TreeInv'
<1> SUFFICES ASSUME ParserInv, TreeInv, make_node PROVE TreeInv'
  OBVIOUS
<1>1. Doing("node") /\ stack # <<>> /\ Item.do = "node"
  BY DEF make_node, Doing
<1>2. PICK r, f, a : Acting(r, f, a)
  BY <1>1, SomeActing
<1>3. PICK m : Leads(Item, a, m) /\ RowLeads(Tail(f.todo), m, "1") /\ <<>> \o Tail(f.todo) = Tail(f.todo)
  BY <1>1, <1>2, ActingFacts, FirstItem DEF Doing
<1>4. Item.kind \in (Kind \cup {"Literal"}) \ Unmade /\ a = Takes(Item.kind) /\ m = "1"
  <2>1. "node" \in Flat
    BY DEF Flat
  <2> QED BY <1>1, <1>3, <2>1, FlatItem DEF FlatLeads
<1>5. RowLeads(<<>> \o Tail(f.todo), "1", "1")
  BY <1>3, <1>4
<1>6. Top = f /\ Among(f.kids, nodes) /\ Counts(a, f.kids) /\ Len(nodes) \in Nat
  BY <1>2, IsSeqFacts DEF Acting, IsCall, Stands, ParserInv, Sequences
<1>7. CASE Item.kind = "Literal"
  <2>1. a = "value"
    BY <1>4, <1>7 DEF Takes, Leaf
  <2> DEFINE kind == LiteralKind(f.op)
  <2>2. /\ kind \in {"ExpressionBool", "ExpressionRealKeyword", "ExpressionNat", "ExpressionInt", "ExpressionReal"}
        /\ kind = "ExpressionNat" => ValueOf(kind) \in NatRange
        /\ kind = "ExpressionInt" => ValueOf(kind) \in IntRange
    BY <1>2, <2>1, LiteralValue
  <2>3. Makes(kind)
    BY <1>6, <1>7 DEF make_node
  <2> HIDE DEF kind
  <2>4. kind \in Leaf /\ kind \in Kind /\ kind # "StatementCircuit" /\ kind \notin DOMAIN Arity
        /\ kind \notin {"StatementCircuit", "ExpressionCall", "ExpressionDictionary", "ExpressionTuple"}
    BY <2>2 DEF Leaf, Kind, Arity
  <2>5. Len(f.kids) = 0 /\ \A i \in DOMAIN f.kids : f.kids[i] # Null
    BY <1>6, <2>1 DEF Counts, LiteralStages
  <2>6. NumberOfChildren(kind, Len(f.kids))
    BY <2>4, <2>5 DEF NumberOfChildren
  <2>7. Start(a) # 2
    BY <2>1 DEF Start
  <2> QED BY <1>2, <1>5, <2>2, <2>3, <2>4, <2>5, <2>6, <2>7, NodeIsMade
<1>8. CASE Item.kind # "Literal"
  <2> DEFINE kind == Item.kind
             x == [kind |-> kind, kids |-> f.kids]
  <2>1. kind \in Kind \ {"ExpressionTuple"} /\ kind \notin {"ExpressionNat", "ExpressionInt"} /\ Makes(kind)
    BY <1>4, <1>8 DEF Unmade, make_node
  <2>2. a = Takes(kind)
    BY <1>4
  <2> HIDE DEF kind
  <2>3. x.kind = kind /\ x.kids = f.kids
    OBVIOUS
  <2> HIDE DEF x
  <2>4. WellFormed(x, Len(nodes)) /\ (Start(Takes(kind)) = 2 <=> kind = "StatementCircuit")
    BY <1>6, <2>1, <2>2, <2>3, TakesWellFormed
  <2>5. /\ NumberOfChildren(kind, Len(f.kids))
        /\ \A i \in DOMAIN f.kids : f.kids[i] = Null => MayBeNull(kind, i)
    BY <1>6, <2>3, <2>4 DEF WellFormed, Null
  <2> QED BY <1>2, <1>5, <2>1, <2>2, <2>4, <2>5, NodeIsMade
<1> QED BY <1>7, <1>8

LEMMA TreeTupleOrGroup == ParserInv /\ TreeInv /\ TupleOrGroup => TreeInv'
<1> SUFFICES ASSUME ParserInv, TreeInv, TupleOrGroup PROVE TreeInv'
  OBVIOUS
<1>1. Doing("single") /\ stack # <<>> /\ Item.do = "single"
  BY DEF TupleOrGroup, Doing
<1>2. PICK r, f, a : Acting(r, f, a)
  BY <1>1, SomeActing
<1>3. PICK m : Leads(Item, a, m) /\ RowLeads(Tail(f.todo), m, "1") /\ <<>> \o Tail(f.todo) = Tail(f.todo)
  BY <1>1, <1>2, ActingFacts, FirstItem DEF Doing
<1>4. a = "all" /\ m = "1"
  <2>1. "single" \in Flat
    BY DEF Flat
  <2> QED BY <1>1, <1>3, <2>1, FlatItem DEF FlatLeads
<1>5. RowLeads(<<>> \o Tail(f.todo), "1", "1")
  BY <1>3, <1>4
<1>6. Top = f /\ Counts("all", f.kids) /\ \A i \in DOMAIN f.kids : f.kids[i] # Null
  <2>1. Top = f /\ Counts("all", f.kids)
    BY <1>2, <1>4, ActingFacts
  <2>2. \A i \in DOMAIN f.kids : f.kids[i] # Null
    BY <2>1 DEF Counts
  <2> QED BY <2>1, <2>2
<1>7. CASE Len(f.kids) = 1
  <2>1. Continue(Then(<<>>)) /\ Becomes(Then(<<>>), <<>>, f.kids, Top.op)
    BY <1>2, <1>6, <1>7, ActingFacts, ThenParts DEF TupleOrGroup
  <2>2. Counts("1", f.kids) /\ Start("1") = Start(a)
    BY <1>4, <1>6, <1>7 DEF Counts, LiteralStages, Start
  <2>3. AtStage("1", Then(<<>>), tokens', text)
    BY DEF AtStage
  <2> QED BY <1>2, <1>5, <2>1, <2>2, <2>3, GoesOn
<1>8. CASE Len(f.kids) # 1
  <2>1. Makes("ExpressionTuple")
    BY <1>6, <1>8 DEF TupleOrGroup
  <2>2. "ExpressionTuple" \in Kind /\ NumberOfChildren("ExpressionTuple", Len(f.kids))
    BY <1>8 DEF Kind, Vector, Leaf, Arity, NumberOfChildren
  <2>3. Start(a) # 2
    BY <1>4 DEF Start
  <2> QED BY <1>2, <1>5, <1>6, <2>1, <2>2, <2>3, NodeIsMade
<1> QED BY <1>7, <1>8

(* A frame that waited takes the node of a call that began behind what it had. *)
LEMMA TakesTheNode ==
  ASSUME NEW made, NEW next, NodesMade(made, next), next \in Nat,
         NEW f, IsCall(f, made, next), NEW limit, limit \in Nat, Waits(f, limit, made),
         NEW n \in DOMAIN made, limit <= made[n].lo,
         NEW ts, NEW units, next = Len(ts)
  PROVE  IsCall(With(f, n), made, next) /\ Acts(With(f, n), made, ts, units) /\ With(f, n).first = f.first
<1> DEFINE k == f.kids
           kids == Append(k, n)
           g == With(f, n)
<1>1. PICK a, b : <<a, b>> \in Adds /\ RowLeads(f.todo, b, "1") /\ Stands(f, a, limit, made)
  BY DEF Waits
<1>2. f.first <= limit /\ f.first \in 1 .. next /\ Among(k, made) /\ IsSeq(k)
  BY DEF Waits, IsCall, Among
<1>3. PICK t, i, o : f = [todo |-> t, kids |-> k, first |-> i, op |-> o]
  BY DEF IsCall, IsFrame
<1>4. g = [todo |-> f.todo, kids |-> kids, first |-> f.first, op |-> f.op]
  <2> HIDE DEF kids, k
  <2>1. [f EXCEPT !.kids = kids] = [todo |-> t, kids |-> kids, first |-> i, op |-> o]
    BY <1>3
  <2>2. f.todo = t /\ f.first = i /\ f.op = o
    BY <1>3
  <2>3. g = [f EXCEPT !.kids = kids]
    BY DEF With, kids, k
  <2> QED BY <2>1, <2>2, <2>3
<1>5. /\ DOMAIN made = 1 .. Len(made) /\ Len(made) \in Nat
      /\ \A m \in 1 .. Len(made) :
           made[m].lo \in 1 .. next /\ made[m].hi \in made[m].lo .. next
           /\ made[m].lo \in Nat /\ made[m].hi \in Nat
  BY NodeSpans
<1>6. n # Null /\ made[n].lo \in Nat /\ made[n].hi \in Nat /\ made[n].hi <= next
  BY <1>5 DEF Null
<1>7. Counts(b, kids) /\ b \notin LiteralStages /\ (Start(a) = 2 <=> Start(b) = 2)
  BY <1>1, <1>2, <1>6, AddsCount DEF Stands
<1>8. /\ IsSeq(kids) /\ DOMAIN kids = 1 .. Len(k) + 1 /\ DOMAIN k = 1 .. Len(k) /\ Len(k) \in Nat
      /\ \A j \in DOMAIN k : kids[j] = k[j]
      /\ kids[Len(k) + 1] = n
  BY <1>2, AppendFacts, IsSeqFacts
<1>9. Start(a) = Start(b)
  BY <1>7 DEF Start
<1>10. Ordered(k, Start(b), f.first, limit, made)
  BY <1>1, <1>9 DEF Stands
<1> HIDE DEF g, kids, k
<1>11. IsFrame(g) /\ g.todo = f.todo /\ g.kids = kids /\ g.first = f.first
  BY <1>4 DEF IsFrame
<1>12. \A j \in DOMAIN kids : (j \in DOMAIN k /\ kids[j] = k[j]) \/ (j = Len(k) + 1 /\ kids[j] = n)
  BY <1>8
<1>13. Among(kids, made)
  BY <1>2, <1>5, <1>8, <1>12 DEF Among
<1>14. ASSUME NEW j \in DOMAIN k, k[j] # Null
       PROVE  /\ f.first <= made[k[j]].lo /\ made[k[j]].hi <= limit /\ made[k[j]].hi \in Nat
              /\ made[k[j]].hi <= made[n].lo /\ made[k[j]].hi <= next
  <2>1. k[j] \in 1 .. Len(made)
    BY <1>2, <1>5, <1>14 DEF Among, Null
  <2>2. made[k[j]].hi \in Nat /\ made[k[j]].hi \in made[k[j]].lo .. next /\ made[k[j]].lo \in Nat
    BY <1>5, <2>1
  <2>3. f.first <= made[k[j]].lo /\ made[k[j]].hi <= limit
    BY <1>10, <1>14 DEF Ordered
  <2>4. \A x, y, z \in Nat : x <= y /\ y <= z => x <= z
    OBVIOUS
  <2>5. made[k[j]].hi <= made[n].lo
    BY <1>6, <2>2, <2>3, <2>4
  <2> QED BY <2>2, <2>3, <2>5
<1>15. Ordered(kids, Start(b), f.first, next, made)
  <2>1. f.first <= made[n].lo
    <3>1. f.first \in Nat
      BY <1>2
    <3> QED BY <1>2, <1>6, <3>1
  <2>2. \A j \in DOMAIN kids : kids[j] # Null => f.first <= made[kids[j]].lo /\ made[kids[j]].hi <= next
    BY <1>6, <1>12, <1>14, <2>1
  <2>3. ASSUME NEW i2 \in DOMAIN kids, NEW j \in DOMAIN kids, Start(b) <= i2, i2 < j, kids[i2] # Null, kids[j] # Null
        PROVE  made[kids[i2]].hi <= made[kids[j]].lo
    <3>1. i2 \in DOMAIN k /\ kids[i2] = k[i2]
      BY <1>8, <2>3
    <3>2. CASE j = Len(k) + 1
      BY <1>8, <1>14, <2>3, <3>1, <3>2
    <3>3. CASE j # Len(k) + 1
      <4>1. j \in DOMAIN k /\ kids[j] = k[j]
        BY <1>12, <3>3
      <4> QED BY <1>10, <2>3, <3>1, <4>1 DEF Ordered
    <3> QED BY <3>2, <3>3
  <2> QED BY <2>2, <2>3 DEF Ordered
<1>16. IsCall(g, made, next)
  BY <1>2, <1>11, <1>13 DEF IsCall
<1>17. Acts(g, made, ts, units)
  <2>1. RowLeads(g.todo, b, "1") /\ Stands(g, b, next, made)
    BY <1>1, <1>7, <1>11, <1>15 DEF Stands
  <2>2. AtStage(b, g, ts, units)
    BY <1>7 DEF AtStage, LiteralStages
  <2> QED BY <2>1, <2>2 DEF Acts
<1> QED BY <1>11, <1>16, <1>17 DEF g

LEMMA TreeReturnNode == ParserInv /\ TreeInv /\ ReturnNode => TreeInv'
<1> SUFFICES ASSUME ParserInv, TreeInv, ReturnNode PROVE TreeInv'
  OBVIOUS
<1> DEFINE n == Top.kids[1]
           rest == SubSeq(stack, 1, Len(stack) - 1)
<1>1. stack # <<>> /\ Top.todo = <<>> /\ UNCHANGED <<text, tokens, nodes, mode, reports>>
  BY DEF ReturnNode
<1>2. rest = <<>> => stack' = <<>>
  BY DEF ReturnNode
<1>3. rest # <<>> => stack' = [rest EXCEPT ![Len(rest)] = With(rest[Len(rest)], n)]
  BY DEF ReturnNode
<1>4. PICK r, f, a : Acting(r, f, a)
  BY <1>1, SomeActing
<1>5. /\ stack = Append(r, f) /\ IsSeq(r) /\ Top = f /\ IsCall(f, nodes, Len(tokens))
      /\ Waiting(r, f.first, nodes, Len(tokens))
      /\ RowLeads(f.todo, a, "1") /\ Stands(f, a, Len(tokens), nodes)
  BY <1>4 DEF Acting
<1>6. rest = r
  BY <1>5, StackShapes
<1>7. a = "1"
  BY <1>1, <1>5, FirstLeads
<1> HIDE DEF n, rest
<1>8. CASE r = <<>>
  BY <1>1, <1>2, <1>6, <1>8 DEF TreeInv, Calls
<1>9. CASE r # <<>>
  <2>1. PICK s, h : /\ r = Append(s, h) /\ Waiting(s, h.first, nodes, Len(tokens))
                    /\ IsCall(h, nodes, Len(tokens)) /\ Waits(h, f.first, nodes)
    BY <1>5, <1>9, WaitingLast
  <2>2. n \in DOMAIN nodes /\ f.first <= nodes[n].lo /\ f.first \in Nat
    <3>1. Counts("1", f.kids) /\ Ordered(f.kids, 1, f.first, Len(tokens), nodes) /\ Among(f.kids, nodes)
          /\ f.first \in 1 .. Len(tokens)
      BY <1>5, <1>7 DEF Stands, IsCall, Start
    <3>2. Len(f.kids) = 1 /\ DOMAIN f.kids = 1 .. 1 /\ \A i \in DOMAIN f.kids : f.kids[i] # Null
      <4>1. Len(f.kids) = 1 /\ \A i \in DOMAIN f.kids : f.kids[i] # Null
        BY <3>1 DEF Counts
      <4>2. DOMAIN f.kids = 1 .. Len(f.kids)
        BY <3>1, IsSeqFacts DEF Among
      <4> QED BY <4>1, <4>2
    <3>3. 1 \in DOMAIN f.kids /\ n = f.kids[1]
      BY <1>5, <3>2 DEF n
    <3>4. n \in 0 .. Len(nodes) /\ n # 0 /\ f.first <= nodes[n].lo
      BY <3>1, <3>2, <3>3 DEF Among, Ordered, Null
    <3>5. Len(nodes) \in Nat /\ DOMAIN nodes = 1 .. Len(nodes)
      BY IsSeqFacts DEF ParserInv, Sequences
    <3> QED BY <3>1, <3>4, <3>5
  <2>3. Len(tokens) \in Nat /\ NodesMade(nodes, Len(tokens))
    BY IsSeqFacts DEF ParserInv, Sequences, TreeInv
  <2> DEFINE g == With(h, n)
  <2>4. IsCall(g, nodes, Len(tokens)) /\ Acts(g, nodes, tokens, text) /\ g.first = h.first
    <3>1. IsCall(h, nodes, Len(tokens)) /\ Waits(h, f.first, nodes)
      BY <2>1
    <3> QED BY <2>2, <2>3, <3>1, TakesTheNode
  <2>5. stack' = Append(s, g)
    <3>1. IsSeq(s)
      BY <2>1 DEF Waiting
    <3>2. r[Len(r)] = h /\ \A x : [r EXCEPT ![Len(r)] = x] = Append(s, x)
      BY <2>1, <3>1, StackShapes
    <3> QED BY <1>3, <1>6, <1>9, <3>2
  <2> HIDE DEF g
  <2> QED BY <1>1, <2>1, <2>4, <2>5, CallsMore
<1> QED BY <1>8, <1>9

LEMMA NextTreeInv == ParserInv /\ TreeInv /\ (ParserStep \/ UNCHANGED parserVars) => TreeInv'
<1>1. ParserInv /\ TreeInv /\ UNCHANGED parserVars => TreeInv'
  BY DEF parserVars, TreeInv, Calls
<1>2. ParserInv /\ TreeInv /\ ParserStep => TreeInv'
  BY TreeDeclaration, TreeMustConsume, TreeMustMatchFails, TreeParsePackage, TreeKeepKind,
     TreeOptional, TreeLoop, TreeDelimiter, TreeCallFunction, TreeExpression, TreeRightOperand,
     TreePrecendece, TreeOutside, TreeInfixLoop, TreeMakeNode, TreeTupleOrGroup, TreeConvertLiteral,
     TreeNoChild, TreeSetDefault, TreeDropChild, TreeReturnNode
  DEF ParserStep
<1> QED BY <1>1, <1>2

LEMMA TreeBegin ==
  ASSUME NEW units, IsSeq(units), Begin(units)
  PROVE  TreeInv'
<1> DEFINE k == scan(units, 1)
<1>1. /\ text' = units /\ tokens' = <<k>> /\ mode' = "parse" /\ stack' = <<>> /\ nodes' = <<>>
      /\ reports' = <<>>
  BY DEF Begin, Holds
<1>2. HasDigits(units, k)
  <2>1. 1 \in 1 .. Len(units) + 1
    BY IsSeqFacts
  <2> QED BY <2>1, ScanHasDigits
<1> HIDE DEF k
<1>3. DOMAIN <<k>> = {1} /\ <<k>>[1] = k
  OBVIOUS
<1>4. \A i \in DOMAIN tokens' : HasDigits(text', tokens'[i])
  BY <1>1, <1>2, <1>3
<1>5. NodesMade(nodes', Len(tokens'))
  BY <1>1, NoKids DEF NodesMade
<1>6. \A i \in DOMAIN reports' : reports'[i] \in DOMAIN tokens'
  BY <1>1, NoKids
<1> QED BY <1>1, <1>4, <1>5, <1>6 DEF TreeInv, Calls

-----------------------------------------------------------------------------
(* What the invariant says of types and spans *)

LEMMA ParserTypes == ParserInv /\ TreeInv => ParserTypeOK
<1> SUFFICES ASSUME ParserInv, TreeInv PROVE ParserTypeOK
  OBVIOUS
<1>1. /\ IsSeq(text) /\ Len(text) \in Nat
      /\ \A i \in DOMAIN tokens :
           tokens[i].lo \in 1 .. Len(text) + 1 /\ tokens[i].hi \in tokens[i].lo .. Len(text) + 1
  BY IsSeqFacts DEF ParserInv, TokensInText
<1>2. \A i \in DOMAIN tokens : tokens[i].lo <= tokens[i].hi /\ tokens[i].hi <= Len(text) + 1
  BY <1>1
<1>3. \A n \in DOMAIN nodes : nodes[n].kind \in Kind /\ WellFormed(nodes[n], n - 1)
  BY DEF TreeInv, NodesMade, Made
<1>4. ASSUME NEW i \in DOMAIN stack, NEW j \in DOMAIN stack[i].kids
      PROVE  stack[i].kids[j] \in 0 .. Len(nodes)
  <2>1. stack # <<>>
    BY NoKids
  <2>2. PICK r, f, a : Acting(r, f, a)
    BY <2>1, SomeActing
  <2>3. /\ stack = Append(r, f) /\ IsSeq(r) /\ Among(f.kids, nodes)
        /\ \A k \in DOMAIN r : Among(r[k].kids, nodes)
    BY <2>2 DEF Acting, IsCall, Waiting
  <2>4. /\ Len(r) \in Nat /\ DOMAIN r = 1 .. Len(r) /\ DOMAIN Append(r, f) = 1 .. Len(r) + 1
        /\ Append(r, f)[Len(r) + 1] = f /\ \A k \in DOMAIN r : Append(r, f)[k] = r[k]
    BY <2>3, AppendFacts, IsSeqFacts
  <2>5. Among(stack[i].kids, nodes)
    <3>1. CASE i = Len(r) + 1
      BY <2>3, <2>4, <3>1
    <3>2. CASE i # Len(r) + 1
      <4>1. i \in DOMAIN r
        BY <2>3, <2>4, <3>2
      <4> QED BY <2>3, <2>4, <4>1
    <3> QED BY <3>1, <3>2
  <2> QED BY <2>5 DEF Among
<1>5. \A i \in DOMAIN tree : tree[i] \in DOMAIN nodes
  BY DEF ParserInv, TreeOfNodes
<1>6. mode \in {"idle", "parse", "skip", "crashed"} /\ \A r \in DOMAIN reports : reports[r] \in DOMAIN tokens
  BY DEF TreeInv
<1> QED BY <1>2, <1>3, <1>4, <1>5, <1>6 DEF ParserTypeOK

LEMMA NodesNest == ASSUME NEW next, NodesMade(nodes, next) PROVE SpansNest
<1> SUFFICES ASSUME NEW n \in DOMAIN nodes
             PROVE  LET node == nodes[n]
                        kids == {i \in DOMAIN node.kids : node.kids[i] # Null}
                    IN  /\ \A i \in kids : nodes[node.kids[i]].lo >= node.lo /\ nodes[node.kids[i]].hi <= node.hi
                        /\ \A i, j \in kids :
                             i < j /\ ~(i = 1 /\ node.kind = "StatementCircuit") =>
                               nodes[node.kids[i]].hi <= nodes[node.kids[j]].lo
  BY DEF SpansNest
<1> DEFINE x == nodes[n]
           from == IF x.kind = "StatementCircuit" THEN 2 ELSE 1
           kids == {i \in DOMAIN x.kids : x.kids[i] # Null}
<1>1. Ordered(x.kids, from, x.lo, x.hi, nodes) /\ IsSeq(x.kids) /\ WellFormed(x, n - 1)
      /\ x.lo \in 1 .. next
  BY DEF NodesMade, Made
<1>2. DOMAIN x.kids = 1 .. Len(x.kids) /\ Len(x.kids) \in Nat
  BY <1>1, IsSeqFacts
<1> HIDE DEF x
<1>3. \A i \in kids : nodes[x.kids[i]].lo >= x.lo /\ nodes[x.kids[i]].hi <= x.hi
  BY <1>1 DEF Ordered
<1>4. \A i, j \in kids :
        i < j /\ ~(i = 1 /\ x.kind = "StatementCircuit") => nodes[x.kids[i]].hi <= nodes[x.kids[j]].lo
  <2> SUFFICES ASSUME NEW i \in kids, NEW j \in kids, i < j, ~(i = 1 /\ x.kind = "StatementCircuit")
               PROVE  nodes[x.kids[i]].hi <= nodes[x.kids[j]].lo
    OBVIOUS
  <2>1. from <= i
    BY <1>2
  <2> QED BY <1>1, <2>1 DEF Ordered
<1> QED BY <1>3, <1>4 DEF x

-----------------------------------------------------------------------------
(* The nodes that are reached, and what the machine makes of them: both    *)
(* are recursive functions, which there are.                               *)

Older(ns) ==
  /\ IsSeq(ns)
  /\ \A m \in DOMAIN ns :
       IsSeq(ns[m].kids) /\ \A i \in DOMAIN ns[m].kids : ns[m].kids[i] \in 0 .. m - 1

(* n is a child of the node x that some statement needs. *)
Child(x, n) ==
  \E i \in DOMAIN x.kids : x.kids[i] = n /\ ~(x.kind = "StatementReturn" /\ i = 1)

ReachedAt(ns, roots, f, n) ==
  \/ n \in {roots[i] : i \in DOMAIN roots}
  \/ \E m \in n + 1 .. Len(ns) :
       /\ f[m]
       /\ \E i \in DOMAIN ns[m].kids : ns[m].kids[i] = n /\ ~(ns[m].kind = "StatementReturn" /\ i = 1)
Reaches(ns, roots, f, from) == f = [n \in from .. Len(ns) |-> ReachedAt(ns, roots, f, n)]
ReachedIn(ns, roots) ==
  LET f == CHOOSE f : Reaches(ns, roots, f, 0)
  IN  {n \in 0 .. Len(ns) : f[n]}

LEMMA ReachedAtBelow ==
  ASSUME NEW ns, NEW roots, NEW f, NEW g, NEW n,
         \A m \in n + 1 .. Len(ns) : f[m] = g[m]
  PROVE  ReachedAt(ns, roots, f, n) = ReachedAt(ns, roots, g, n)
  BY DEF ReachedAt

LEMMA ReachingEnds ==
  ASSUME NEW ns, IsSeq(ns), NEW roots, NEW n \in Nat, n <= Len(ns) + 1
  PROVE  \E f : Reaches(ns, roots, f, Len(ns) + 1 - n)
<1> DEFINE T == {j \in 0 .. Len(ns) + 1 : ~\E f : Reaches(ns, roots, f, Len(ns) + 1 - j)}
           l == Len(ns)
<1>1. Len(ns) \in Nat
  BY IsSeqFacts
<1> SUFFICES ASSUME T # {} PROVE FALSE
  BY <1>1
<1>2. PICK j \in T : \A i \in T : j <= i
  <2>1. T \in SUBSET Nat
    BY <1>1
  <2> HIDE DEF T
  <2> QED BY <2>1, LeastOfNaturals
<1>3. CASE j = 0
  <2> DEFINE f == [i \in l + 1 .. l |-> TRUE]
  <2>1. f = [i \in l + 1 .. l |-> ReachedAt(ns, roots, f, i)]
    <3>1. l + 1 .. l = {}
      BY <1>1
    <3> HIDE DEF l
    <3> QED BY <3>1
  <2> HIDE DEF f
  <2>2. Reaches(ns, roots, f, l + 1)
    BY <2>1 DEF Reaches
  <2>3. l + 1 - j = l + 1
    BY <1>1, <1>3
  <2> QED BY <1>2, <2>2, <2>3
<1>4. CASE j # 0
  <2> DEFINE m == l + 1 - j
  <2>1. j - 1 \in 0 .. l + 1 /\ j - 1 \notin T /\ m \in 0 .. l /\ l + 1 - (j - 1) = m + 1
    BY <1>1, <1>2, <1>4
  <2>2. PICK g : Reaches(ns, roots, g, m + 1)
    BY <2>1
  <2> HIDE DEF m, l
  <2> DEFINE At(h, i) == ReachedAt(ns, roots, h, i)
             f == [i \in m .. l |-> IF i = m THEN At(g, m) ELSE g[i]]
  <2>3. l \in Nat /\ l = Len(ns) /\ m \in Nat
    BY <1>1, <2>1 DEF l
  <2>4. ASSUME NEW i \in m .. l PROVE f[i] = At(f, i)
    <3>1. \A k \in i + 1 .. l : f[k] = g[k]
      BY <2>3
    <3>2. At(f, i) = At(g, i)
      <4> HIDE DEF f
      <4> QED BY <2>3, <3>1, ReachedAtBelow
    <3>3. CASE i = m
      BY <3>2, <3>3
    <3>4. CASE i # m
      <4>1. i \in m + 1 .. l
        BY <2>3, <3>4
      <4>2. g[i] = At(g, i)
        <5>1. g = [k \in m + 1 .. l |-> At(g, k)]
          BY <2>2, <2>3 DEF Reaches
        <5> HIDE DEF At
        <5> QED BY <4>1, <5>1
      <4> HIDE DEF At
      <4> QED BY <3>2, <3>4, <4>2
    <3> QED BY <3>3, <3>4
  <2>5. f = [i \in m .. l |-> At(f, i)]
    <3>1. f = [i \in m .. l |-> f[i]]
      OBVIOUS
    <3> HIDE DEF f, At
    <3> QED BY <2>4, <3>1
  <2> HIDE DEF f
  <2>6. Reaches(ns, roots, f, m)
    BY <2>3, <2>5 DEF Reaches
  <2>7. \E h : Reaches(ns, roots, h, Len(ns) + 1 - j)
    BY <2>6 DEF m, l
  <2> QED BY <1>2, <2>7
<1> QED BY <1>3, <1>4

LEMMA ReachedIsIn == ASSUME NEW m PROVE Reached(m) = ReachedIn(m.nodes, m.tree)
  BY DEF Reached, ReachedIn, Reaches, ReachedAt

LEMMA ReachedFacts ==
  ASSUME NEW ns, Older(ns), NEW roots, \A i \in DOMAIN roots : roots[i] \in DOMAIN ns
  PROVE  LET R == ReachedIn(ns, roots) IN
         /\ R \subseteq 0 .. Len(ns)
         /\ \A i \in DOMAIN roots : roots[i] \in R
         /\ \A m \in R : m # Null => \A n : Child(ns[m], n) => n \in R
         /\ \A S : (\A i \in DOMAIN roots : roots[i] \in S)
                   /\ (\A m \in S : m \in DOMAIN ns => \A n : Child(ns[m], n) => n \in S)
              => R \subseteq S
<1> DEFINE l == Len(ns)
           f == CHOOSE f : Reaches(ns, roots, f, 0)
           R == ReachedIn(ns, roots)
<1>1. l \in Nat /\ IsSeq(ns) /\ DOMAIN ns = 1 .. l
  BY IsSeqFacts DEF Older
<1>2. Reaches(ns, roots, f, 0)
  <2>1. l + 1 \in Nat /\ l + 1 <= l + 1 /\ l + 1 - (l + 1) = 0
    BY <1>1
  <2>2. \E g : Reaches(ns, roots, g, l + 1 - (l + 1))
    BY <1>1, <2>1, ReachingEnds
  <2>3. \E g : Reaches(ns, roots, g, 0)
    BY <2>1, <2>2
  <2> QED BY <2>3
<1>3. R = {n \in 0 .. l : f[n]}
  BY DEF ReachedIn
<1> HIDE DEF f, R
<1>4. \A n \in 0 .. l : f[n] = ReachedAt(ns, roots, f, n)
  <2>1. f = [n \in 0 .. l |-> ReachedAt(ns, roots, f, n)]
    BY <1>2 DEF Reaches
  <2> QED BY <2>1
<1>5. \A n \in 0 .. l : n \in R <=> ReachedAt(ns, roots, f, n)
  BY <1>3, <1>4
<1>6. R \subseteq 0 .. l
  BY <1>3
<1>7. ASSUME NEW n \in 0 .. l
      PROVE  n \in R <=> \/ \E i \in DOMAIN roots : roots[i] = n
                         \/ \E m \in n + 1 .. l : m \in R /\ Child(ns[m], n)
  <2>1. \A m \in n + 1 .. l : m \in R <=> f[m]
    <3>1. n + 1 .. l \subseteq 0 .. l
      BY <1>1
    <3> QED BY <1>3, <3>1
  <2>2. ReachedAt(ns, roots, f, n) <=> \/ \E i \in DOMAIN roots : roots[i] = n
                                       \/ \E m \in n + 1 .. l : m \in R /\ Child(ns[m], n)
    BY <2>1 DEF ReachedAt, Child
  <2> QED BY <1>5, <2>2
<1>8. \A i \in DOMAIN roots : roots[i] \in R
  <2>1. \A i \in DOMAIN roots : roots[i] \in 0 .. l
    BY <1>1
  <2> QED BY <1>7, <2>1
<1>9. ASSUME NEW m \in R, m # Null, NEW n, Child(ns[m], n) PROVE n \in R
  <2>1. m \in 1 .. l
    BY <1>1, <1>6, <1>9 DEF Null
  <2>2. n \in 0 .. m - 1
    BY <1>1, <1>9, <2>1 DEF Child, Older
  <2>3. n \in 0 .. l /\ m \in n + 1 .. l
    BY <1>1, <2>1, <2>2
  <2> QED BY <1>7, <1>9, <2>3
<1>10. ASSUME NEW S, \A i \in DOMAIN roots : roots[i] \in S,
              \A m \in S : m \in DOMAIN ns => \A n : Child(ns[m], n) => n \in S
       PROVE  R \subseteq S
  <2> DEFINE T == {j \in 0 .. l : l - j \in R /\ l - j \notin S}
  <2> SUFFICES ASSUME NEW n0 \in R, n0 \notin S PROVE FALSE
    OBVIOUS
  <2>1. l - n0 \in T
    BY <1>1, <1>6
  <2>2. PICK j \in T : \A i \in T : j <= i
    <3>1. T \in SUBSET Nat /\ T # {}
      BY <1>1, <2>1
    <3> HIDE DEF T
    <3> QED BY <3>1, LeastOfNaturals
  <2> DEFINE n == l - j
  <2>3. n \in 0 .. l /\ n \in R /\ n \notin S
    BY <1>1, <2>2
  <2>4. ASSUME NEW m \in n + 1 .. l, m \in R PROVE m \in S
    <3>1. l - m \in 0 .. l /\ ~(j <= l - m) /\ l - (l - m) = m
      BY <1>1, <2>2, <2>4
    <3>2. l - m \notin T
      BY <2>2, <3>1
    <3> QED BY <2>4, <3>1, <3>2
  <2> HIDE DEF n, T
  <2>5. \A i \in DOMAIN roots : roots[i] # n
    BY <1>10, <2>3
  <2>6. PICK m \in n + 1 .. l : m \in R /\ Child(ns[m], n)
    BY <1>7, <2>3, <2>5
  <2>7. m \in S /\ m \in DOMAIN ns
    BY <1>1, <2>3, <2>4, <2>6
  <2> QED BY <1>10, <2>3, <2>6, <2>7
<1> QED BY <1>6, <1>8, <1>9, <1>10 DEF R

-----------------------------------------------------------------------------
(* What the machine makes of the nodes. *)

(* The operands of a binary operator are there, and older than it. *)
Operates(ns) ==
  /\ IsSeq(ns)
  /\ \A n \in DOMAIN ns : ns[n].kind = "ExpressionBinaryOp" =>
       ns[n].kids[1] \in 1 .. n - 1 /\ ns[n].kids[2] \in 1 .. n - 1

MeaningAt(ns, f, n) == NodeMeaning(ns[n], f)
Computes(ns, f, D) == f = [n \in D |-> MeaningAt(ns, f, n)]

LEMMA MeaningIs == ASSUME NEW ns PROVE Meaning(ns) = CHOOSE f : Computes(ns, f, DOMAIN ns)
  BY DEF Meaning, Computes, MeaningAt

LEMMA MeaningBelow ==
  ASSUME NEW ns, Operates(ns), NEW n \in DOMAIN ns, NEW f, NEW g,
         \A k \in 1 .. n - 1 : f[k] = g[k]
  PROVE  MeaningAt(ns, f, n) = MeaningAt(ns, g, n)
<1>1. CASE ns[n].kind = "ExpressionBinaryOp"
  <2>1. ns[n].kids[1] \in 1 .. n - 1 /\ ns[n].kids[2] \in 1 .. n - 1
    BY <1>1 DEF Operates
  <2>2. f[ns[n].kids[1]] = g[ns[n].kids[1]] /\ f[ns[n].kids[2]] = g[ns[n].kids[2]]
    BY <2>1
  <2> QED BY <2>2 DEF MeaningAt, NodeMeaning
<1>2. CASE ns[n].kind # "ExpressionBinaryOp"
  BY <1>2 DEF MeaningAt, NodeMeaning
<1> QED BY <1>1, <1>2

LEMMA ComputingEnds ==
  ASSUME NEW ns, Operates(ns), NEW m \in 0 .. Len(ns)
  PROVE  \E f : Computes(ns, f, 1 .. m)
<1> DEFINE T == {j \in 0 .. Len(ns) : ~\E f : Computes(ns, f, 1 .. j)}
<1>1. Len(ns) \in Nat /\ DOMAIN ns = 1 .. Len(ns)
  BY IsSeqFacts DEF Operates
<1> SUFFICES ASSUME T # {} PROVE FALSE
  BY <1>1
<1>2. PICK j \in T : \A i \in T : j <= i
  <2>1. T \in SUBSET Nat
    BY <1>1
  <2> HIDE DEF T
  <2> QED BY <2>1, LeastOfNaturals
<1>3. CASE j = 0
  <2> DEFINE f == [i \in 1 .. 0 |-> TRUE]
  <2>1. f = [i \in 1 .. 0 |-> MeaningAt(ns, f, i)]
    <3>1. 1 .. 0 = {}
      OBVIOUS
    <3> QED BY <3>1
  <2> HIDE DEF f
  <2>2. Computes(ns, f, 1 .. 0)
    BY <2>1 DEF Computes
  <2> QED BY <1>2, <1>3, <2>2
<1>4. CASE j # 0
  <2>1. j - 1 \in 0 .. Len(ns) /\ j - 1 \notin T /\ j \in 1 .. Len(ns)
    BY <1>1, <1>2, <1>4
  <2>2. PICK g : Computes(ns, g, 1 .. j - 1)
    BY <2>1
  <2> DEFINE At(h, i) == MeaningAt(ns, h, i)
             f == [i \in 1 .. j |-> IF i = j THEN At(g, j) ELSE g[i]]
  <2>4. ASSUME NEW i \in 1 .. j PROVE f[i] = At(f, i)
    <3>1. \A k \in 1 .. i - 1 : f[k] = g[k]
      BY <2>1
    <3>0. i \in DOMAIN ns
      BY <1>1, <2>1
    <3>2. At(f, i) = At(g, i)
      <4> HIDE DEF f
      <4> QED BY <3>0, <3>1, MeaningBelow
    <3>3. CASE i = j
      BY <3>2, <3>3
    <3>4. CASE i # j
      <4>1. i \in 1 .. j - 1
        BY <2>1, <3>4
      <4>2. g[i] = At(g, i)
        <5>1. g = [k \in 1 .. j - 1 |-> At(g, k)]
          BY <2>2 DEF Computes
        <5> HIDE DEF At
        <5> QED BY <4>1, <5>1
      <4> HIDE DEF At
      <4> QED BY <3>2, <3>4, <4>2
    <3> QED BY <3>3, <3>4
  <2>5. f = [i \in 1 .. j |-> At(f, i)]
    <3>1. f = [i \in 1 .. j |-> f[i]]
      OBVIOUS
    <3> HIDE DEF f, At
    <3> QED BY <2>4, <3>1
  <2> HIDE DEF f
  <2>6. Computes(ns, f, 1 .. j)
    BY <2>5 DEF Computes
  <2> QED BY <1>2, <2>6
<1> QED BY <1>3, <1>4

LEMMA MeaningFacts ==
  ASSUME NEW ns, Operates(ns), NEW n \in DOMAIN ns
  PROVE  Meaning(ns)[n] = MeaningAt(ns, Meaning(ns), n)
<1> DEFINE f == CHOOSE f : Computes(ns, f, DOMAIN ns)
<1>1. DOMAIN ns = 1 .. Len(ns) /\ Len(ns) \in 0 .. Len(ns)
  BY IsSeqFacts DEF Operates
<1>2. \E g : Computes(ns, g, DOMAIN ns)
  BY <1>1, ComputingEnds
<1>3. Computes(ns, f, DOMAIN ns)
  BY <1>2
<1>4. Meaning(ns) = f
  BY MeaningIs
<1> HIDE DEF f
<1>5. f = [k \in DOMAIN ns |-> MeaningAt(ns, f, k)]
  BY <1>3 DEF Computes
<1> QED BY <1>4, <1>5

-----------------------------------------------------------------------------
(* Integers of a width. *)

Cong(x, y) == \E q \in Int : x = y + q * Modulus

LEMMA CongIsSymmetric ==
  ASSUME NEW x \in Int, NEW y \in Int, Cong(x, y)
  PROVE  Cong(y, x)
<1>1. PICK q \in Int : x = y + q * Modulus
  BY DEF Cong
<1>2. Modulus \in Nat /\ 0 - q \in Int
  BY HalfTheModulus
<1>3. y = x + (0 - q) * Modulus
  BY <1>1, <1>2
<1> QED BY <1>2, <1>3 DEF Cong

LEMMA CongIsTransitive ==
  ASSUME NEW x \in Int, NEW y \in Int, NEW z \in Int, Cong(x, y), Cong(y, z)
  PROVE  Cong(x, z)
<1>1. PICK q \in Int : x = y + q * Modulus
  BY DEF Cong
<1>2. PICK p \in Int : y = z + p * Modulus
  BY DEF Cong
<1>3. Modulus \in Nat /\ q + p \in Int
  BY HalfTheModulus
<1>4. x = z + (q + p) * Modulus
  BY <1>1, <1>2, <1>3
<1> QED BY <1>3, <1>4 DEF Cong

LEMMA CongOfArithmetic ==
  ASSUME NEW x \in Int, NEW y \in Int, NEW u \in Int, NEW v \in Int, Cong(x, y), Cong(u, v)
  PROVE  Cong(x + u, y + v) /\ Cong(x - u, y - v) /\ Cong(x * u, y * v)
<1>1. PICK q \in Int : x = y + q * Modulus
  BY DEF Cong
<1>2. PICK p \in Int : u = v + p * Modulus
  BY DEF Cong
<1> DEFINE M == Modulus
<1>3. M \in Int /\ q + p \in Int /\ q - p \in Int
  BY HalfTheModulus
<1> HIDE DEF M
<1>4. x + u = y + v + (q + p) * M /\ x - u = y - v + (q - p) * M
  BY <1>1, <1>2, <1>3 DEF M
<1>5. (y + q * M) * (v + p * M) = y * v + (y * p + q * v + q * p * M) * M
  BY <1>3
<1>6. x * u = y * v + (y * p + q * v + q * p * M) * M
  BY <1>1, <1>2, <1>5 DEF M
<1>7. y * p + q * v + q * p * M \in Int
  BY <1>3
<1> QED BY <1>3, <1>4, <1>6, <1>7 DEF Cong, M

LEMMA UnsignedFacts ==
  ASSUME NEW x \in Int
  PROVE  /\ Unsigned(x) \in NatRange /\ Cong(x, Unsigned(x)) /\ Cong(Unsigned(x), x)
         /\ x \in NatRange => Unsigned(x) = x
<1> DEFINE M == Modulus
           u == x % M
<1>1. M \in Nat /\ M > 0
  BY HalfTheModulus
<1> HIDE DEF M
<1>2. u \in 0 .. M - 1 /\ x \div M \in Int /\ x = (x \div M) * M + u
  BY <1>1
<1>3. x \in 0 .. M - 1 => u = x
  BY <1>1
<1>4. Unsigned(x) = u
  BY DEF Unsigned, M
<1> HIDE DEF u
<1>5. Unsigned(x) \in Int /\ Cong(x, Unsigned(x))
  <2>1. x = u + (x \div M) * M
    BY <1>1, <1>2
  <2> QED BY <1>1, <1>2, <1>4, <2>1 DEF Cong, M
<1> QED BY <1>2, <1>3, <1>4, <1>5, CongIsSymmetric DEF NatRange, M

LEMMA SignedFacts ==
  ASSUME NEW x \in Int
  PROVE  /\ Signed(x) \in IntRange /\ Cong(x, Signed(x)) /\ Cong(Signed(x), x)
         /\ x \in IntRange => Signed(x) = x
<1> DEFINE M == Modulus
           H == Modulus \div 2
           u == Unsigned(x)
<1>1. M \in Nat /\ H \in Nat /\ H >= 1 /\ M = 2 * H
  BY HalfTheModulus
<1>2. u \in 0 .. M - 1 /\ Cong(x, u) /\ Cong(u, x)
  BY UnsignedFacts DEF NatRange
<1>3. Signed(x) = IF u >= H THEN u - M ELSE u
  BY DEF Signed
<1> HIDE DEF M, H, u
<1>4. Signed(x) \in IntRange
  BY <1>1, <1>2, <1>3 DEF IntRange, M, H
<1>5. Cong(u, Signed(x))
  <2>1. CASE u >= H
    <3>1. u = Signed(x) + 1 * M
      BY <1>1, <1>2, <1>3, <2>1
    <3> QED BY <3>1 DEF Cong, M
  <2>2. CASE ~(u >= H)
    <3>1. u = Signed(x) + 0 * M
      BY <1>1, <1>2, <1>3, <2>2
    <3> QED BY <3>1 DEF Cong, M
  <2> QED BY <2>1, <2>2
<1>6. u \in Int /\ Signed(x) \in Int
  BY <1>1, <1>2, <1>4 DEF IntRange, H
<1>7. Cong(x, Signed(x))
  BY <1>2, <1>5, <1>6, CongIsTransitive
<1>8. ASSUME x \in IntRange PROVE Signed(x) = x
  <2>1. PICK q \in Int : x = Signed(x) + q * M
    BY <1>7 DEF Cong, M
  <2>2. x - Signed(x) < M /\ Signed(x) - x < M
    BY <1>1, <1>4, <1>6, <1>8 DEF IntRange, H, M
  <2>3. ~(q >= 1)
    <3> SUFFICES ASSUME q >= 1 PROVE FALSE
      OBVIOUS
    <3>1. q * M >= M
      BY <1>1
    <3> QED BY <1>1, <1>6, <2>1, <2>2, <3>1
  <2>4. ~(q <= -1)
    <3> SUFFICES ASSUME q <= -1 PROVE FALSE
      OBVIOUS
    <3>1. q * M <= 0 - M
      BY <1>1
    <3> QED BY <1>1, <1>6, <2>1, <2>2, <3>1
  <2>5. q = 0
    BY <2>3, <2>4
  <2> QED BY <1>1, <1>6, <2>1, <2>5
<1> QED BY <1>4, <1>6, <1>7, <1>8, CongIsSymmetric

LEMMA CongSigned ==
  ASSUME NEW x \in Int, NEW y \in Int, Cong(x, y)
  PROVE  Signed(x) = Signed(y)
<1> DEFINE M == Modulus
           H == Modulus \div 2
           s == Signed(x)
           t == Signed(y)
<1>1. M \in Nat /\ H \in Nat /\ H >= 1 /\ M = 2 * H
  BY HalfTheModulus
<1>2. s \in IntRange /\ t \in IntRange /\ Cong(s, x) /\ Cong(y, t)
  BY SignedFacts
<1>3. s \in Int /\ t \in Int
  BY <1>1, <1>2 DEF IntRange
<1> HIDE DEF s, t
<1>4. Cong(s, t)
  BY <1>2, <1>3, CongIsTransitive
<1> HIDE DEF M, H
<1>5. PICK q \in Int : s = t + q * M
  BY <1>4 DEF Cong, M
<1>6. s - t < M /\ t - s < M
  BY <1>1, <1>2, <1>3 DEF IntRange, H, M
<1>7. ~(q >= 1)
  <2> SUFFICES ASSUME q >= 1 PROVE FALSE
    OBVIOUS
  <2>1. q * M >= M
    BY <1>1
  <2> QED BY <1>1, <1>3, <1>5, <1>6, <2>1
<1>8. ~(q <= -1)
  <2> SUFFICES ASSUME q <= -1 PROVE FALSE
    OBVIOUS
  <2>1. q * M <= 0 - M
    BY <1>1
  <2> QED BY <1>1, <1>3, <1>5, <1>6, <2>1
<1>9. q = 0
  BY <1>7, <1>8
<1> QED BY <1>1, <1>3, <1>5, <1>9 DEF s, t

-----------------------------------------------------------------------------
(* What becomes of two literals. *)

(* A literal holds a number of its width. *)
InRange(x) ==
  (x.kind = "ExpressionNat" => x.val \in NatRange) /\ (x.kind = "ExpressionInt" => x.val \in IntRange)

LEMMA RangesAreIntegers ==
  ASSUME NEW x, x \in NatRange \/ x \in IntRange PROVE x \in Int
<1> DEFINE M == Modulus
           H == Modulus \div 2
<1>1. M \in Nat /\ H \in Nat
  BY HalfTheModulus
<1>2. x \in 0 .. M - 1 \/ x \in 0 - H .. H - 1
  BY DEF NatRange, IntRange
<1> HIDE DEF M, H
<1> QED BY <1>1, <1>2

LEMMA QuotientIsInteger ==
  ASSUME NEW a \in Int, NEW b \in Int, b # 0
  PROVE  /\ Quotient(a, b) \in Int /\ Remainder(a, b) \in Int
         /\ a >= 0 /\ b > 0 => /\ Quotient(a, b) = a \div b /\ Remainder(a, b) = a % b
                               /\ a \div b \in 0 .. a /\ a % b \in 0 .. b - 1
<1> DEFINE m == Magnitude(a)
           n == Magnitude(b)
<1>1. m \in Nat /\ n \in Nat /\ n # 0 /\ (a >= 0 => m = a) /\ (b > 0 => n = b)
  BY DEF Magnitude
<1>2. Quotient(a, b) = IF (a < 0) = (b < 0) THEN m \div n ELSE 0 - (m \div n)
  BY DEF Quotient
<1> HIDE DEF m, n
<1>3. m \div n \in Int
  BY <1>1
<1>4. Quotient(a, b) \in Int
  BY <1>2, <1>3
<1>5. Remainder(a, b) = a - b * Quotient(a, b)
  BY DEF Remainder
<1>6. Remainder(a, b) \in Int
  BY <1>4, <1>5
<1>7. ASSUME a >= 0, b > 0
      PROVE  /\ Quotient(a, b) = a \div b /\ Remainder(a, b) = a % b
             /\ a \div b \in 0 .. a /\ a % b \in 0 .. b - 1
  <2>1. m = a /\ n = b
    BY <1>1, <1>7
  <2>2. Quotient(a, b) = a \div b
    BY <1>2, <1>7, <2>1
  <2>3. a \div b \in Int /\ a % b \in 0 .. b - 1 /\ a = (a \div b) * b + (a % b)
    BY <1>7
  <2> DEFINE q == a \div b
             c == a % b
  <2>4. q \in Int /\ c \in 0 .. b - 1 /\ a = q * b + c
    BY <2>3
  <2>5. Remainder(a, b) = a - b * q
    BY <1>5, <2>2
  <2> HIDE DEF q, c
  <2>6. q >= 0
    <3> SUFFICES ASSUME q <= -1 PROVE FALSE
      BY <2>4
    <3>1. q * b <= 0 - b
      BY <1>7, <2>4
    <3> QED BY <1>7, <2>4, <3>1
  <2>7. q <= a
    <3>1. q * b >= q
      BY <1>7, <2>4, <2>6
    <3> QED BY <2>4, <3>1
  <2>8. b * q = q * b
    BY <2>4
  <2>9. Remainder(a, b) = c
    BY <2>4, <2>5, <2>8
  <2> QED BY <2>2, <2>4, <2>6, <2>7, <2>9 DEF q, c
<1> QED BY <1>4, <1>6, <1>7

LEMMA RoundedFacts ==
  /\ Doubles \subseteq Int
  /\ \A x : Rounded(x) \subseteq Doubles
  /\ \A x \in Doubles : Rounded(x) \subseteq {x}
<1>1. Modulus \in Nat
  BY HalfTheModulus
<1>2. Doubles \subseteq Int
  <2>1. Doubles \subseteq 0 - Modulus .. Modulus
    BY DEF Doubles
  <2> DEFINE M == Modulus
  <2> HIDE DEF M
  <2>2. 0 - M .. M \subseteq Int
    BY <1>1 DEF M
  <2> QED BY <2>1, <2>2 DEF M
<1>3. \A x : Rounded(x) \subseteq Doubles
  BY DEF Rounded
<1>4. ASSUME NEW x \in Doubles, NEW d \in Rounded(x) PROVE d = x
  <2> SUFFICES ASSUME d # x PROVE FALSE
    OBVIOUS
  <2>1. d \in Int /\ x \in Int
    BY <1>2, <1>3
  <2>2. Magnitude(d - x) < Magnitude(x - x) \/ Magnitude(d - x) = Magnitude(x - x)
    BY DEF Rounded
  <2> QED BY <2>1, <2>2 DEF Magnitude
<1> QED BY <1>2, <1>3, <1>4

LEMMA PowersAreIntegers ==
  ASSUME NEW a \in Int, NEW b \in Int, NEW S, S \subseteq Int
  PROVE  Powers(a, b, S) \subseteq Int
<1>1. CASE b < 0
  BY <1>1 DEF Powers
<1>2. CASE b >= 0
  <2> DEFINE c == a ^ b
  <2>1. \A x \in Powers(a, b, S) : x \in Int \/ (x = c /\ c \in S)
    <3> HIDE DEF c
    <3> SUFFICES ASSUME NEW x \in Powers(a, b, S) PROVE x \in Int \/ (x = c /\ c \in S)
      OBVIOUS
    <3>1. CASE a \in {0, 1} /\ b > 0
      BY <3>1 DEF Powers
    <3>2. CASE ~(a \in {0, 1} /\ b > 0) /\ (a = 1 \/ b = 0)
      BY <3>2 DEF Powers
    <3>3. CASE ~(a \in {0, 1} /\ b > 0) /\ ~(a = 1 \/ b = 0) /\ a = -1
      BY <3>3 DEF Powers
    <3>4. CASE ~(a \in {0, 1} /\ b > 0) /\ ~(a = 1 \/ b = 0) /\ a # -1
      <4>1. ~(a = 0 /\ b < 0)
        BY <1>2
      <4>2. x \in IF b < 0 THEN {0} ELSE IF b < Width /\ a ^ b \in S \cap Doubles THEN {a ^ b} ELSE S
        BY <3>4, <4>1 DEF Powers
      <4> QED BY <1>2, <4>2 DEF c
    <3> QED BY <3>1, <3>2, <3>3, <3>4
  <2> QED BY <2>1
<1> QED BY <1>1, <1>2

(* The operands are the literals' numbers up to whole turns.               *)
LEMMA OperandsFacts ==
  ASSUME NEW l, NEW r, l.val \in Int, r.val \in Int
  PROVE  /\ Operands(l, r)[1] \in Int /\ Operands(l, r)[2] \in Int
         /\ Cong(Operands(l, r)[1], Signed(l.val)) /\ Cong(Operands(l, r)[2], Signed(r.val))
         /\ Signed(l.val) \in Int /\ Signed(r.val) \in Int
<1>1. ASSUME NEW x \in Int PROVE x \in Int /\ Unsigned(x) \in Int /\ Cong(x, Signed(x))
                                 /\ Cong(Unsigned(x), Signed(x)) /\ Signed(x) \in Int
  <2>1. Unsigned(x) \in Int /\ Signed(x) \in Int
    BY UnsignedFacts, SignedFacts, RangesAreIntegers
  <2>2. Cong(x, Signed(x)) /\ Cong(Unsigned(x), x)
    BY UnsignedFacts, SignedFacts
  <2> QED BY <2>1, <2>2, CongIsTransitive
<1>2. \/ Operands(l, r) = <<Unsigned(l.val), Unsigned(r.val)>>
      \/ Operands(l, r) = <<l.val, r.val>>
  BY DEF Operands
<1> QED BY <1>1, <1>2

LEMMA ValuesAreIntegers ==
  ASSUME NEW l, NEW r, l.val \in Int, r.val \in Int, NEW op, ~Fatal(op, l, r),
         FoldedKind(l, r) # "ExpressionReal"
  PROVE  Values(op, l, r) \subseteq Int
<1> DEFINE a == Operands(l, r)[1]
           b == Operands(l, r)[2]
           S == IF FoldedKind(l, r) = "ExpressionNat" THEN NatRange ELSE IntRange
<1>1. a \in Int /\ b \in Int
  BY OperandsFacts
<1>2. op \in Foldable /\ (op \in Dividing => b # 0)
  BY DEF Fatal
<1>3. S \subseteq Int
  BY RangesAreIntegers
<1>4. op \in Dividing => Quotient(a, b) \in Int /\ Remainder(a, b) \in Int
  <2> HIDE DEF a, b
  <2> QED BY <1>1, <1>2, QuotientIsInteger
<1>5. /\ UNION {Powers(x, y, S) : x \in Rounded(l.val), y \in Rounded(r.val)} \subseteq Int
      /\ UNION {Integer(d, S) : d \in Rounded(Quotient(a, b))} \subseteq Int
  <2> HIDE DEF a, b, S
  <2>1. \A x \in Rounded(l.val), y \in Rounded(r.val) : Powers(x, y, S) \subseteq Int
    BY <1>3, RoundedFacts, PowersAreIntegers
  <2>2. \A d \in Rounded(Quotient(a, b)) : Integer(d, S) \subseteq Int
    BY <1>3 DEF Integer
  <2> QED BY <2>1, <2>2
<1>6. Values(op, l, r) =
        CASE op = "+"  -> {a + b}
          [] op = "-"  -> {Difference(a, b)}
          [] op = "*"  -> {a * b}
          [] op = "%"  -> {Remainder(a, b)}
          [] op = "/"  -> {Quotient(a, b)}
          [] op = "//" -> UNION {Integer(d, S) : d \in Rounded(Quotient(a, b))}
          [] op = "**" -> UNION {Powers(x, y, S) : x \in Rounded(l.val), y \in Rounded(r.val)}
  BY DEF Values
<1> HIDE DEF a, b, S
<1>7. a + b \in Int /\ Difference(a, b) \in Int /\ a * b \in Int
  BY <1>1 DEF Difference
<1> QED BY <1>2, <1>3, <1>4, <1>5, <1>6, <1>7 DEF Foldable, Dividing

LEMMA FoldInRange ==
  ASSUME NEW l, NEW r, l.kind \in NumberKinds, r.kind \in NumberKinds, InRange(l), InRange(r),
         NEW op, ~Fatal(op, l, r), NEW w \in make_const_bin_expr(op, l, r)
  PROVE  /\ FoldedKind(l, r) \in {"ExpressionReal", "ExpressionNat", "ExpressionInt"}
         /\ FoldedKind(l, r) = "ExpressionNat" => w \in NatRange
         /\ FoldedKind(l, r) = "ExpressionInt" => w \in IntRange
<1>1. FoldedKind(l, r) \in {"ExpressionReal", "ExpressionNat", "ExpressionInt"}
  <2>1. CASE l.kind \in RealKinds \/ r.kind \in RealKinds
    BY <2>1 DEF FoldedKind
  <2>2. CASE ~(l.kind \in RealKinds \/ r.kind \in RealKinds)
    BY <2>2 DEF FoldedKind, RealKinds
  <2> QED BY <2>1, <2>2
<1>2. ASSUME FoldedKind(l, r) # "ExpressionReal" PROVE l.val \in Int /\ r.val \in Int
  <2>1. l.kind \in {"ExpressionNat", "ExpressionInt"} /\ r.kind \in {"ExpressionNat", "ExpressionInt"}
    BY <1>2 DEF FoldedKind, NumberKinds
  <2> QED BY <2>1, RangesAreIntegers DEF InRange
<1>3. ASSUME FoldedKind(l, r) = "ExpressionNat" PROVE w \in NatRange
  <2>1. PICK v \in Values(op, l, r) : w = Unsigned(v)
    BY <1>3 DEF make_const_bin_expr
  <2>2. v \in Int
    BY <1>2, <1>3, <2>1, ValuesAreIntegers
  <2> QED BY <2>1, <2>2, UnsignedFacts
<1>4. ASSUME FoldedKind(l, r) = "ExpressionInt" PROVE w \in IntRange
  <2>1. PICK v \in Values(op, l, r) : w = Signed(v)
    BY <1>4 DEF make_const_bin_expr
  <2>2. v \in Int
    BY <1>2, <1>4, <2>1, ValuesAreIntegers
  <2> QED BY <2>1, <2>2, SignedFacts
<1> QED BY <1>1, <1>3, <1>4

(* The folded literal is to the machine what the operation is.             *)
LEMMA FoldMeans ==
  ASSUME NEW l, NEW r, l.kind \in {"ExpressionNat", "ExpressionInt"},
         r.kind \in {"ExpressionNat", "ExpressionInt"}, InRange(l), InRange(r),
         NEW op, ~Fatal(op, l, r), NEW w \in make_const_bin_expr(op, l, r),
         VMArithmetic(op, Signed(l.val), Signed(r.val)) # <<>>
  PROVE  /\ FoldedKind(l, r) \in {"ExpressionNat", "ExpressionInt"}
         /\ Signed(w) = VMArithmetic(op, Signed(l.val), Signed(r.val))[1]
<1> DEFINE a == Operands(l, r)[1]
           b == Operands(l, r)[2]
           x == Signed(l.val)
           y == Signed(r.val)
           S == IF FoldedKind(l, r) = "ExpressionNat" THEN NatRange ELSE IntRange
<1>1. FoldedKind(l, r) \in {"ExpressionNat", "ExpressionInt"}
  BY DEF FoldedKind, RealKinds
<1>2. l.val \in Int /\ r.val \in Int
  BY RangesAreIntegers DEF InRange
<1>3. a \in Int /\ b \in Int /\ Cong(a, x) /\ Cong(b, y) /\ x \in Int /\ y \in Int
  BY <1>2, OperandsFacts
<1>4. x \in IntRange /\ y \in IntRange
  BY <1>2, SignedFacts
<1>5. PICK v \in Values(op, l, r) : w = Unsigned(v) \/ w = Signed(v)
  BY <1>1 DEF make_const_bin_expr
<1>6. v \in Int
  BY <1>1, <1>2, <1>5, ValuesAreIntegers
<1>7. Signed(w) = Signed(v)
  <2>1. w \in Int /\ Cong(w, v)
    BY <1>5, <1>6, UnsignedFacts, SignedFacts, RangesAreIntegers
  <2> QED BY <1>6, <2>1, CongSigned
<1>8. Values(op, l, r) =
        CASE op = "+"  -> {a + b}
          [] op = "-"  -> {Difference(a, b)}
          [] op = "*"  -> {a * b}
          [] op = "%"  -> {Remainder(a, b)}
          [] op = "/"  -> {Quotient(a, b)}
          [] op = "//" -> UNION {Integer(d, S) : d \in Rounded(Quotient(a, b))}
          [] op = "**" -> UNION {Powers(f, g, S) : f \in Rounded(l.val), g \in Rounded(r.val)}
  BY DEF Values
<1>9. ASSUME x >= 0, y > 0
      PROVE  /\ a = x /\ b = y
             /\ \A z \in 0 .. x \cup 0 .. y : z \in S /\ Signed(z) = z
  <2> DEFINE M == Modulus
             H == Modulus \div 2
  <2>1. M \in Nat /\ H \in Nat /\ H >= 1 /\ M = 2 * H
    BY HalfTheModulus
  <2>2. ASSUME NEW k \in Int, k \in NatRange \/ k \in IntRange, Signed(k) >= 0
        PROVE  Signed(k) = k /\ Unsigned(k) = k
    <3> DEFINE s == Signed(k)
    <3>1. s \in IntRange
      BY SignedFacts
    <3>2. s \in 0 .. H - 1
      <4>1. s \in 0 - H .. H - 1 /\ s >= 0
        BY <2>2, <3>1 DEF IntRange
      <4> HIDE DEF s, H
      <4> QED BY <2>1, <4>1
    <3>3. CASE k \in IntRange
      <4>1. Signed(k) = k
        BY <3>3, SignedFacts
      <4>2. k \in NatRange
        <5>1. k \in 0 .. H - 1
          BY <3>2, <4>1
        <5> HIDE DEF H
        <5> QED BY <2>1, <5>1 DEF NatRange, M
      <4> QED BY <4>1, <4>2, UnsignedFacts
    <3>4. CASE k \in NatRange
      <4>1. Unsigned(k) = k
        BY <3>4, UnsignedFacts
      <4>2. Signed(k) = IF k >= H THEN k - M ELSE k
        BY <4>1 DEF Signed
      <4>3. k \in 0 .. M - 1
        BY <3>4 DEF NatRange
      <4> HIDE DEF H, M
      <4>4. Signed(k) = k
        BY <2>1, <2>2, <4>2, <4>3
      <4> QED BY <4>1, <4>4
    <3> QED BY <2>2, <3>3, <3>4
  <2>3. Operands(l, r) = <<x, y>>
    <3>1. /\ l.val \in NatRange \/ l.val \in IntRange
          /\ r.val \in NatRange \/ r.val \in IntRange
      BY DEF InRange
    <3>2. x = l.val /\ y = r.val /\ Unsigned(l.val) = l.val /\ Unsigned(r.val) = r.val
      BY <1>2, <1>3, <1>9, <2>2, <3>1
    <3> QED BY <3>2 DEF Operands
  <2>4. a = x /\ b = y
    BY <2>3
  <2>5. ASSUME NEW z \in 0 .. x \cup 0 .. y PROVE z \in S /\ Signed(z) = z
    <3>1. x \in 0 .. H - 1 /\ y \in 0 .. H - 1
      <4>1. x \in 0 - H .. H - 1 /\ y \in 0 - H .. H - 1
        BY <1>4 DEF IntRange
      <4> HIDE DEF x, y, H
      <4> QED BY <1>9, <2>1, <4>1
    <3>2. z \in 0 .. H - 1
      <4> HIDE DEF x, y, H
      <4> QED BY <2>1, <3>1
    <3>3. z \in NatRange /\ z \in IntRange /\ z \in Int
      <4> HIDE DEF x, y, H, M
      <4> QED BY <2>1, <3>2 DEF NatRange, IntRange, H, M
    <3> QED BY <3>3, SignedFacts
  <2> QED BY <2>4, <2>5
<1>10. VMArithmetic(op, x, y) =
         CASE op = "+" -> <<Signed(x + y)>>
           [] op = "-" -> <<Signed(x - y)>>
           [] op = "*" -> <<Signed(x * y)>>
           [] op = "//" /\ x >= 0 /\ y > 0 /\ x \div y \in Doubles -> <<x \div y>>
           [] op = "%" /\ x >= 0 /\ y > 0 -> <<x % y>>
           [] OTHER -> <<>>
  BY DEF VMArithmetic
<1>11. VMArithmetic(op, x, y) # <<>>
  OBVIOUS
<1> HIDE DEF a, b, x, y, S
<1>12. Cong(a + b, x + y) /\ Cong(a - b, x - y) /\ Cong(a * b, x * y)
  BY <1>3, CongOfArithmetic
<1>13. CASE op = "+"
  <2>1. v = a + b /\ VMArithmetic(op, x, y) = <<Signed(x + y)>>
    BY <1>5, <1>8, <1>10, <1>13
  <2>2. Signed(a + b) = Signed(x + y)
    BY <1>3, <1>12, CongSigned
  <2>3. Signed(w) = VMArithmetic(op, x, y)[1]
    BY <1>7, <2>1, <2>2
  <2> QED BY <1>1, <2>3 DEF x, y
<1>14. CASE op = "-"
  <2>1. v = a - b /\ VMArithmetic(op, x, y) = <<Signed(x - y)>>
    BY <1>5, <1>8, <1>10, <1>14 DEF Difference
  <2>2. Signed(a - b) = Signed(x - y)
    BY <1>3, <1>12, CongSigned
  <2>3. Signed(w) = VMArithmetic(op, x, y)[1]
    BY <1>7, <2>1, <2>2
  <2> QED BY <1>1, <2>3 DEF x, y
<1>15. CASE op = "*"
  <2>1. v = a * b /\ VMArithmetic(op, x, y) = <<Signed(x * y)>>
    BY <1>5, <1>8, <1>10, <1>15
  <2>2. Signed(a * b) = Signed(x * y)
    BY <1>3, <1>12, CongSigned
  <2>3. Signed(w) = VMArithmetic(op, x, y)[1]
    BY <1>7, <2>1, <2>2
  <2> QED BY <1>1, <2>3 DEF x, y
<1>16. CASE op = "//" /\ x >= 0 /\ y > 0 /\ x \div y \in Doubles
  <2>1. a = x /\ b = y /\ \A z \in 0 .. x \cup 0 .. y : z \in S /\ Signed(z) = z
    BY <1>9, <1>16
  <2>2. Quotient(x, y) = x \div y /\ x \div y \in 0 .. x
    BY <1>3, <1>16, QuotientIsInteger
  <2>3. x \div y \in S /\ Signed(x \div y) = x \div y
    BY <2>1, <2>2
  <2>4. v = x \div y /\ VMArithmetic(op, x, y) = <<x \div y>>
    <3>1. PICK d \in Rounded(Quotient(a, b)) : v \in Integer(d, S)
      BY <1>5, <1>8, <1>16
    <3>2. d = x \div y
      BY <1>16, <2>1, <2>2, <3>1, RoundedFacts
    <3>3. v = x \div y
      BY <2>3, <3>1, <3>2 DEF Integer
    <3> QED BY <1>10, <1>16, <3>3
  <2>5. Signed(w) = VMArithmetic(op, x, y)[1]
    BY <1>7, <2>3, <2>4
  <2> QED BY <1>1, <2>5 DEF x, y
<1>17. CASE op = "%" /\ x >= 0 /\ y > 0
  <2>1. a = x /\ b = y /\ \A z \in 0 .. x \cup 0 .. y : z \in S /\ Signed(z) = z
    BY <1>9, <1>17
  <2>2. Remainder(x, y) = x % y /\ x % y \in 0 .. y
    <3>1. Remainder(x, y) = x % y /\ x % y \in 0 .. y - 1
      BY <1>3, <1>17, QuotientIsInteger
    <3> QED BY <1>3, <3>1
  <2>3. Signed(x % y) = x % y
    BY <2>1, <2>2
  <2>4. v = x % y /\ VMArithmetic(op, x, y) = <<x % y>>
    <3>1. v \in {Remainder(a, b)}
      BY <1>5, <1>8, <1>17
    <3> QED BY <1>10, <1>17, <2>1, <2>2, <3>1
  <2>5. Signed(w) = VMArithmetic(op, x, y)[1]
    BY <1>7, <2>3, <2>4
  <2> QED BY <1>1, <2>5 DEF x, y
<1> QED BY <1>10, <1>11, <1>13, <1>14, <1>15, <1>16, <1>17

-----------------------------------------------------------------------------
(* The optimizer at work on a module. *)

(* A module as the parser leaves it. *)
Sound(m) ==
  /\ m = [nodes |-> m.nodes, tree |-> m.tree, folded |-> m.folded]
  /\ IsSeq(m.nodes) /\ IsSeq(m.tree) /\ \A i \in DOMAIN m.tree : m.tree[i] \in DOMAIN m.nodes
  /\ \A n \in DOMAIN m.nodes :
       LET x == m.nodes[n] IN
         /\ x = [kind |-> x.kind, kids |-> x.kids, op |-> x.op, val |-> x.val, lo |-> x.lo, hi |-> x.hi]
         /\ x.kind \in Kind /\ IsSeq(x.kids) /\ WellFormed(x, n - 1) /\ InRange(x)

(* The literal y may stand for the operation x. *)
Folds(x, y) ==
  /\ x.kind = "ExpressionBinaryOp"
  /\ y.kind \in {"ExpressionReal", "ExpressionNat", "ExpressionInt"}
  /\ y.kids = <<>> /\ InRange(y)

(* The operands of n are literals that may be folded. *)
Harmless(ns, h, n) ==
  LET l == h[ns[n].kids[1]]
      r == h[ns[n].kids[2]]
  IN  l.kind \in NumberKinds /\ r.kind \in NumberKinds /\ ~Fatal(ns[n].op, l, r)

(* What becomes of n is in h: a literal if n is an operator of literals    *)
(* and none otherwise, and the value that is claimed of it.                *)
Settled(ns, h, n) ==
  /\ Meaning(ns)[n].constant <=> h[n].kind \in NumberKinds
  /\ Meaning(ns)[n].value # <<>> =>
       h[n].kind \in {"ExpressionNat", "ExpressionInt"} /\ Signed(h[n].val) = Meaning(ns)[n].value[1]
  /\ ns[n].kind = "ExpressionBinaryOp" /\ Meaning(ns)[n].constant => Harmless(ns, h, n)

Shaped(m, h) ==
  /\ IsSeq(h) /\ Len(h) = Len(m.nodes)
  /\ \A n \in DOMAIN h :
       h[n] = m.nodes[n] \/ (Folds(m.nodes[n], h[n]) /\ Settled(m.nodes, h, n))

Due(m, h, t) ==
  /\ t.do \in {"visit", "fold", "check"} /\ t.node \in Reached(m)
  /\ t.do # "visit" => t.node # Null
  /\ t.do = "fold" => h[t.node].kind = "ExpressionBinaryOp" /\ h[t.node] = m.nodes[t.node]

(* What is due before an operation is folded or a constant checked is      *)
(* below it.                                                               *)
Downward(w) ==
  \A i, j \in DOMAIN w : i < j /\ w[j].do # "visit" => w[i].node < w[j].node

(* An operation is folded after its operands. *)
Operand(m, t, k) == k = m.nodes[t.node].kids[1] \/ k = m.nodes[t.node].kids[2]
OperandsFirst(m, h, w) ==
  \A j \in DOMAIN w : w[j].do = "fold" =>
    \A k : Operand(m, w[j], k) =>
      Settled(m.nodes, h, k) \/ \E i \in 1 .. j - 1 : w[i].node = k /\ w[i].do # "check"

(* A set of nodes that holds what is still to visit and everything below.  *)
Encloses(h, w, S) ==
  /\ \A i \in DOMAIN w : w[i].do = "visit" => w[i].node \in S
  /\ \A n \in S : n \in DOMAIN h => \A c : Child(h[n], c) => c \in S

(* What is not below something still to visit has its value, or will.      *)
Covered(m, h, w) ==
  \A S : Encloses(h, w, S) =>
    \A n \in Reached(m) :
      n \in S \/ (n # Null /\ (Settled(m.nodes, h, n) \/ \E i \in DOMAIN w : w[i] = Task("fold", n)))

Cause(m, h) == Null \in Reached(m) \/ Reached(m) \cap Deadly(m.nodes, h) # {}

Remaining(m, h, w) ==
  /\ Shaped(m, h)
  /\ IsSeq(w) /\ \A i \in DOMAIN w : Due(m, h, w[i]) /\ w[i] = Task(w[i].do, w[i].node)
  /\ Downward(w) /\ OperandsFirst(m, h, w) /\ Covered(m, h, w)

Optimizing(m) ==
  /\ Remaining(m, heap, work)
  /\ died \in BOOLEAN /\ (died => work # <<>> /\ Cause(m, heap))

(* The nodes h become g when the task t, an operation or a constant, is    *)
(* done.                                                                   *)
Completes(m, h, g, t) ==
  /\ IsSeq(g) /\ Len(g) = Len(h) /\ \A n \in DOMAIN h : n # t.node => g[n] = h[n]
  /\ g[t.node] = h[t.node] \/ Folds(m.nodes[t.node], g[t.node])
  /\ IF t.do = "fold" THEN Settled(m.nodes, g, t.node) ELSE g = h
  /\ g[t.node] # h[t.node] => \A c : Child(h[t.node], c) =>
       c \in DOMAIN h /\ Settled(m.nodes, h, c) /\ \A d : ~Child(h[c], d)

-----------------------------------------------------------------------------
LEMMA SoundFacts ==
  ASSUME NEW m, Sound(m)
  PROVE  /\ Older(m.nodes) /\ Operates(m.nodes)
         /\ Reached(m) \subseteq 0 .. Len(m.nodes)
         /\ \A i \in DOMAIN m.tree : m.tree[i] \in Reached(m)
         /\ \A n \in Reached(m) : n # Null => \A c : Child(m.nodes[n], c) => c \in Reached(m)
         /\ \A S : (\A i \in DOMAIN m.tree : m.tree[i] \in S)
                   /\ (\A n \in S : n \in DOMAIN m.nodes => \A c : Child(m.nodes[n], c) => c \in S)
              => Reached(m) \subseteq S
<1> DEFINE ns == m.nodes
<1>1. IsSeq(ns) /\ DOMAIN ns = 1 .. Len(ns) /\ Len(ns) \in Nat
  BY IsSeqFacts DEF Sound
<1>2. ASSUME NEW n \in DOMAIN ns
      PROVE  /\ IsSeq(ns[n].kids) /\ \A i \in DOMAIN ns[n].kids : ns[n].kids[i] \in 0 .. n - 1
             /\ ns[n].kind = "ExpressionBinaryOp" =>
                  ns[n].kids[1] \in 1 .. n - 1 /\ ns[n].kids[2] \in 1 .. n - 1
  <2> DEFINE x == ns[n]
  <2>1. IsSeq(x.kids) /\ WellFormed(x, n - 1)
    BY DEF Sound
  <2> HIDE DEF x
  <2>2. DOMAIN x.kids = 1 .. Len(x.kids)
    BY <2>1, IsSeqFacts
  <2>3. \A i \in DOMAIN x.kids : x.kids[i] \in 1 .. n - 1 \/ (x.kids[i] = 0 /\ MayBeNull(x.kind, i))
    BY <2>1 DEF WellFormed, Null
  <2>4. \A i \in DOMAIN x.kids : x.kids[i] \in 0 .. n - 1
    BY <1>1, <2>3
  <2>5. ASSUME x.kind = "ExpressionBinaryOp"
        PROVE  x.kids[1] \in 1 .. n - 1 /\ x.kids[2] \in 1 .. n - 1
    <3>1. Len(x.kids) = 2
      <4>1. x.kind \in DOMAIN Arity /\ Arity[x.kind] = 2
        BY <2>5 DEF Arity
      <4>2. Len(x.kids) = Arity[x.kind]
        BY <2>1, <4>1 DEF WellFormed, NumberOfChildren
      <4> QED BY <4>1, <4>2
    <3>2. 1 \in DOMAIN x.kids /\ 2 \in DOMAIN x.kids
      BY <2>2, <3>1
    <3>3. ~MayBeNull(x.kind, 1) /\ ~MayBeNull(x.kind, 2)
      BY <2>5 DEF MayBeNull
    <3> QED BY <2>3, <3>2, <3>3
  <2> QED BY <2>1, <2>4, <2>5 DEF x
<1>3. Older(ns) /\ Operates(ns)
  BY <1>1, <1>2 DEF Older, Operates
<1>4. \A i \in DOMAIN m.tree : m.tree[i] \in DOMAIN ns
  BY DEF Sound
<1>5. Reached(m) = ReachedIn(ns, m.tree)
  BY ReachedIsIn
<1> QED BY <1>3, <1>4, <1>5, ReachedFacts

(* The nodes while the module is optimized. *)
LEMMA HeapNode ==
  ASSUME NEW m, Sound(m), NEW h, Shaped(m, h), NEW n \in DOMAIN h
  PROVE  /\ n \in DOMAIN m.nodes /\ n \in Nat /\ n # Null
         /\ h[n].kind \in Kind /\ WellFormed(h[n], n - 1) /\ InRange(h[n]) /\ IsSeq(h[n].kids)
         /\ h[n].kind = "ExpressionBinaryOp" =>
              /\ h[n] = m.nodes[n] /\ DOMAIN h[n].kids = 1 .. 2
              /\ h[n].kids[1] \in 1 .. n - 1 /\ h[n].kids[2] \in 1 .. n - 1
         /\ h[n].kind # "ExpressionBinaryOp" => Settled(m.nodes, h, n)
         /\ \A c : Child(h[n], c) => c \in 0 .. n - 1 /\ Child(m.nodes[n], c)
         /\ h[n].kind \in NumberKinds => \A c : ~Child(h[n], c)
         /\ h[n].kind = "StatementReturn" => DOMAIN h[n].kids = 1 .. 2
<1> DEFINE x == m.nodes[n]
           y == h[n]
<1>1. n \in DOMAIN m.nodes /\ n \in 1 .. Len(h)
  BY IsSeqFacts DEF Sound, Shaped
<1>2. n \in Nat /\ n # Null
  BY <1>1, IsSeqFacts DEF Shaped, Null
<1>3. x.kind \in Kind /\ WellFormed(x, n - 1) /\ InRange(x) /\ IsSeq(x.kids)
  BY <1>1 DEF Sound
<1>4. y = x \/ (Folds(x, y) /\ Settled(m.nodes, h, n))
  BY DEF Shaped
<1> HIDE DEF x, y
<1>5. ASSUME NEW z, IsSeq(z.kids), WellFormed(z, n - 1)
      PROVE  /\ z.kind = "ExpressionBinaryOp" =>
                  DOMAIN z.kids = 1 .. 2 /\ z.kids[1] \in 1 .. n - 1 /\ z.kids[2] \in 1 .. n - 1
             /\ z.kind \in NumberKinds => DOMAIN z.kids = {}
             /\ z.kind = "StatementReturn" => DOMAIN z.kids = 1 .. 2
             /\ \A c : Child(z, c) => c \in 0 .. n - 1
  <2>1. DOMAIN z.kids = 1 .. Len(z.kids) /\ Len(z.kids) \in Nat
    BY <1>5, IsSeqFacts
  <2>2. NumberOfChildren(z.kind, Len(z.kids))
        /\ \A i \in DOMAIN z.kids : z.kids[i] \in 1 .. n - 1 \/ (z.kids[i] = 0 /\ MayBeNull(z.kind, i))
    BY <1>5 DEF WellFormed, Null
  <2>3. z.kind \in NumberKinds => DOMAIN z.kids = {}
    <3>1. z.kind \in NumberKinds => z.kind \in Leaf
      BY DEF NumberKinds, RealKinds, Leaf
    <3> QED BY <2>1, <2>2, <3>1 DEF NumberOfChildren
  <2>4. ASSUME z.kind \in {"ExpressionBinaryOp", "StatementReturn"} PROVE Len(z.kids) = 2
    <3>1. z.kind \in DOMAIN Arity /\ Arity[z.kind] = 2
      BY <2>4 DEF Arity
    <3> QED BY <2>2, <3>1 DEF NumberOfChildren
  <2>5. ASSUME z.kind = "StatementReturn" PROVE DOMAIN z.kids = 1 .. 2
    <3>1. Len(z.kids) = 2
      BY <2>4, <2>5
    <3> QED BY <2>1, <3>1
  <2>6. ASSUME z.kind = "ExpressionBinaryOp"
        PROVE  DOMAIN z.kids = 1 .. 2 /\ z.kids[1] \in 1 .. n - 1 /\ z.kids[2] \in 1 .. n - 1
    <3>0. Len(z.kids) = 2
      BY <2>4, <2>6
    <3>1. DOMAIN z.kids = 1 .. 2 /\ 1 \in DOMAIN z.kids /\ 2 \in DOMAIN z.kids
      BY <2>1, <3>0
    <3>2. ~MayBeNull(z.kind, 1) /\ ~MayBeNull(z.kind, 2)
      BY <2>6 DEF MayBeNull
    <3> QED BY <2>2, <3>1, <3>2
  <2>7. ASSUME NEW c, Child(z, c) PROVE c \in 0 .. n - 1
    <3>1. PICK i \in DOMAIN z.kids : z.kids[i] = c
      BY <2>7 DEF Child
    <3> QED BY <1>2, <2>2, <3>1 DEF Null
  <2> QED BY <2>3, <2>5, <2>6, <2>7
<1>6. CASE y = x
  <2>0. ASSUME y.kind # "ExpressionBinaryOp"
        PROVE  /\ Meaning(m.nodes)[n].constant <=> y.kind \in NumberKinds
               /\ Meaning(m.nodes)[n].value # <<>> =>
                    /\ y.kind \in {"ExpressionNat", "ExpressionInt"}
                    /\ Signed(y.val) = Meaning(m.nodes)[n].value[1]
    <3>1. Meaning(m.nodes)[n] = NodeMeaning(x, Meaning(m.nodes))
      BY <1>1, SoundFacts, MeaningFacts DEF MeaningAt, x
    <3>2. CASE x.kind \in {"ExpressionNat", "ExpressionInt"}
      <4>1. Meaning(m.nodes)[n] = [constant |-> TRUE, value |-> <<Signed(x.val)>>]
        BY <3>1, <3>2 DEF NodeMeaning, RealKinds
      <4> QED BY <1>6, <3>2, <4>1 DEF NumberKinds
    <3>3. CASE x.kind \in RealKinds
      <4>1. Meaning(m.nodes)[n] = [constant |-> TRUE, value |-> <<>>]
        BY <3>1, <3>3 DEF NodeMeaning, RealKinds
      <4> QED BY <1>6, <3>3, <4>1 DEF NumberKinds
    <3>4. CASE x.kind \notin NumberKinds
      <4>1. Meaning(m.nodes)[n] = [constant |-> FALSE, value |-> <<>>]
        BY <1>6, <2>0, <3>1, <3>4 DEF NodeMeaning, NumberKinds
      <4> QED BY <1>6, <3>4, <4>1
    <3> QED BY <3>2, <3>3, <3>4 DEF NumberKinds
  <2>1. y.kind # "ExpressionBinaryOp" => Settled(m.nodes, h, n)
    <3> SUFFICES ASSUME y.kind # "ExpressionBinaryOp" PROVE Settled(m.nodes, h, n)
      OBVIOUS
    <3>1. m.nodes[n].kind # "ExpressionBinaryOp" /\ h[n] = y
      BY <1>6 DEF x, y
    <3> QED BY <2>0, <3>1 DEF Settled
  <2>2. \A c : Child(y, c) => Child(x, c)
    BY <1>6
  <2>3. y.kind \in NumberKinds => \A c : ~Child(y, c)
    BY <1>3, <1>5, <1>6 DEF Child
  <2> QED BY <1>1, <1>2, <1>3, <1>5, <1>6, <2>1, <2>2, <2>3 DEF x, y
<1>7. CASE Folds(x, y) /\ Settled(m.nodes, h, n)
  <2>1. y.kids = <<>> /\ InRange(y) /\ y.kind \in {"ExpressionReal", "ExpressionNat", "ExpressionInt"}
    BY <1>7 DEF Folds
  <2>2. y.kind \in Leaf /\ y.kind \notin DOMAIN Arity /\ y.kind \notin {"StatementCircuit", "ExpressionCall", "ExpressionDictionary", "ExpressionTuple"}
    BY <2>1 DEF Leaf, Arity
  <2>3. WellFormed(y, n - 1)
    BY <2>1, <2>2 DEF WellFormed, NumberOfChildren
  <2>4. \A c : ~Child(y, c)
    BY <2>1 DEF Child
  <2>5. y.kind \in Kind /\ IsSeq(y.kids) /\ y.kind # "ExpressionBinaryOp" /\ y.kind # "StatementReturn"
    BY <2>1, <2>2 DEF Kind, IsSeq
  <2> QED BY <1>1, <1>2, <1>7, <2>1, <2>3, <2>4, <2>5 DEF y
<1> QED BY <1>4, <1>6, <1>7

-----------------------------------------------------------------------------
(* Steps of the optimizer *)

LEMMA Begins ==
  ASSUME NEW m, Sound(m), optimize(m), died = FALSE
  PROVE  Optimizing(m)'
<1> DEFINE ns == m.nodes
           w == Tasks("visit", m.tree)
<1>1. heap' = ns /\ work' = w /\ died' = FALSE
  BY DEF optimize
<1>2. IsSeq(m.tree) /\ DOMAIN m.tree = 1 .. Len(m.tree) /\ Len(m.tree) \in Nat /\ IsSeq(ns)
  BY IsSeqFacts DEF Sound
<1>3. /\ DOMAIN w = DOMAIN m.tree
      /\ \A i \in DOMAIN w : w[i] = Task("visit", m.tree[i]) /\ w[i].do = "visit" /\ w[i].node = m.tree[i]
  BY DEF Tasks, Task
<1>4. IsSeq(w)
  <2>1. w \in Seq({w[i] : i \in DOMAIN w})
    <3>1. w = [i \in 1 .. Len(m.tree) |-> w[i]]
      BY <1>2 DEF Tasks
    <3> HIDE DEF w
    <3>2. DOMAIN w = 1 .. Len(m.tree)
      BY <1>2, <1>3
    <3> QED BY <1>2, <3>1, <3>2
  <2> QED BY <2>1 DEF IsSeq
<1> HIDE DEF w
<1>5. Shaped(m, ns)
  BY <1>2 DEF Shaped
<1>6. \A i \in DOMAIN w : Due(m, ns, w[i]) /\ w[i] = Task(w[i].do, w[i].node)
  BY <1>3, SoundFacts DEF Due
<1>7. Downward(w) /\ OperandsFirst(m, ns, w)
  BY <1>3 DEF Downward, OperandsFirst
<1>8. Covered(m, ns, w)
  <2> SUFFICES ASSUME NEW S, Encloses(ns, w, S) PROVE Reached(m) \subseteq S
    BY DEF Covered
  <2>1. \A i \in DOMAIN m.tree : m.tree[i] \in S
    BY <1>3 DEF Encloses
  <2> QED BY <2>1, SoundFacts DEF Encloses
<1>9. Remaining(m, ns, w)
  BY <1>4, <1>5, <1>6, <1>7, <1>8 DEF Remaining
<1>10. Remaining(m, heap', work') /\ died' \in BOOLEAN /\ ~died'
  BY <1>1, <1>9
<1> QED BY <1>10 DEF Optimizing

(* An operation is folded or kept, or a constant is checked.               *)
LEMMA TaskDone ==
  ASSUME NEW m, Sound(m), NEW h, NEW g, NEW w, Remaining(m, h, w), w # <<>>,
         Head(w).do # "visit", Completes(m, h, g, Head(w))
  PROVE  Remaining(m, g, Tail(w))
<1> DEFINE s == Head(w).node
<1>0. /\ Shaped(m, h) /\ IsSeq(w)
      /\ \A i \in DOMAIN w : Due(m, h, w[i]) /\ w[i] = Task(w[i].do, w[i].node)
      /\ Downward(w) /\ OperandsFirst(m, h, w) /\ Covered(m, h, w)
      /\ s = Head(w).node
      /\ IsSeq(g) /\ Len(g) = Len(h) /\ \A n \in DOMAIN h : n # s => g[n] = h[n]
      /\ g[s] = h[s] \/ Folds(m.nodes[s], g[s])
      /\ IF Head(w).do = "fold" THEN Settled(m.nodes, g, s) ELSE g = h
      /\ g[s] # h[s] => \A c : Child(h[s], c) =>
           c \in DOMAIN h /\ Settled(m.nodes, h, c) /\ \A d : ~Child(h[c], d)
  BY DEF Remaining, Completes
<1> HIDE DEF s
<1> USE <1>0
<1> DEFINE ns == m.nodes
           v == Tail(w)
<1>1. /\ IsSeq(v) /\ Len(v) = Len(w) - 1 /\ Len(w) \in Nat /\ Len(w) >= 1
      /\ DOMAIN v = 1 .. Len(w) - 1 /\ DOMAIN w = 1 .. Len(w)
      /\ \A i \in DOMAIN v : v[i] = w[i + 1] /\ i + 1 \in DOMAIN w
      /\ Head(w) = w[1] /\ 1 \in DOMAIN w
  <2>1. /\ IsSeq(v) /\ Len(v) = Len(w) - 1 /\ Head(w) = w[1] /\ Len(w) \in Nat \ {0}
        /\ \A i \in 1 .. Len(w) - 1 : v[i] = w[i + 1]
    BY TailFacts
  <2>2. DOMAIN v = 1 .. Len(v) /\ DOMAIN w = 1 .. Len(w)
    BY <2>1, IsSeqFacts
  <2> HIDE DEF v
  <2> QED BY <2>1, <2>2
<1> HIDE DEF v
<1>2. s = w[1].node /\ w[1].do # "visit" /\ Due(m, h, w[1])
  BY <1>1
<1>3. DOMAIN h = 1 .. Len(h) /\ DOMAIN g = DOMAIN h /\ DOMAIN h = DOMAIN ns
  BY IsSeqFacts DEF Shaped, Sound
<1>4. s \in DOMAIN h
  <2>1. s \in Reached(m) /\ s # Null
    BY <1>2 DEF Due
  <2>2. s \in 0 .. Len(h) /\ s # 0 /\ Len(h) \in Nat
    BY <2>1, SoundFacts, IsSeqFacts DEF Shaped, Null
  <2> QED BY <1>3, <2>2
<1>5. \A n \in DOMAIN h : Settled(ns, h, n) => Settled(ns, g, n)
  <2> SUFFICES ASSUME NEW n \in DOMAIN h, Settled(ns, h, n) PROVE Settled(ns, g, n)
    OBVIOUS
  <2>1. CASE g = h
    BY <2>1
  <2>2. CASE n = s /\ g # h
    BY <2>2
  <2>3. CASE n # s /\ g # h
    <3>1. h[s].kind = "ExpressionBinaryOp"
      BY <1>1, <1>2, <2>3 DEF Due
    <3>2. g[n] = h[n]
      BY <2>3
    <3>3. ASSUME ns[n].kind = "ExpressionBinaryOp", Harmless(ns, h, n) PROVE Harmless(ns, g, n)
      <4> DEFINE a == ns[n].kids[1]
                 b == ns[n].kids[2]
      <4>1. a \in 1 .. n - 1 /\ b \in 1 .. n - 1
        BY <1>3, <3>3, SoundFacts DEF Operates
      <4>2. a \in DOMAIN h /\ b \in DOMAIN h
        <5>1. n \in 1 .. Len(h) /\ Len(h) \in Nat
          BY <1>3, IsSeqFacts DEF Shaped
        <5> HIDE DEF a, b
        <5> QED BY <1>3, <4>1, <5>1
      <4>3. h[a].kind \in NumberKinds /\ h[b].kind \in NumberKinds
        BY <3>3 DEF Harmless
      <4>4. a # s /\ b # s
        BY <3>1, <4>3 DEF NumberKinds, RealKinds
      <4>5. g[a] = h[a] /\ g[b] = h[b]
        BY <4>2, <4>4
      <4> QED BY <3>3, <4>5 DEF Harmless
    <3> QED BY <3>2, <3>3 DEF Settled
  <2> QED BY <2>1, <2>2, <2>3
<1>6. Shaped(m, g)
  <2> SUFFICES ASSUME NEW n \in DOMAIN g
               PROVE  g[n] = ns[n] \/ (Folds(ns[n], g[n]) /\ Settled(ns, g, n))
    BY <1>3 DEF Shaped
  <2>1. h[n] = ns[n] \/ (Folds(ns[n], h[n]) /\ Settled(ns, h, n))
    BY <1>3 DEF Shaped
  <2>2. CASE g[n] = h[n]
    BY <1>3, <1>5, <2>1, <2>2
  <2>3. CASE g[n] # h[n]
    <3>1. n = s /\ Folds(ns[s], g[s]) /\ g # h
      BY <1>3, <2>3
    <3> QED BY <3>1
  <2> QED BY <2>2, <2>3
<1>7. ASSUME NEW i \in DOMAIN v
      PROVE  Due(m, g, v[i]) /\ v[i] = Task(v[i].do, v[i].node)
  <2>1. v[i] = w[i + 1] /\ i + 1 \in DOMAIN w /\ Due(m, h, w[i + 1]) /\ 1 < i + 1
    BY <1>1
  <2>2. v[i] = Task(v[i].do, v[i].node)
    BY <2>1
  <2>3. ASSUME v[i].do = "fold" PROVE g[v[i].node] = h[v[i].node]
    <3>1. s < v[i].node
      BY <1>1, <1>2, <2>1, <2>3 DEF Downward
    <3>2. v[i].node \in DOMAIN h
      <4>1. v[i].node \in Reached(m) /\ v[i].node # Null
        BY <2>1, <2>3 DEF Due
      <4>2. v[i].node \in 0 .. Len(h) /\ v[i].node # 0 /\ Len(h) \in Nat
        BY <4>1, SoundFacts, IsSeqFacts DEF Shaped, Null
      <4> QED BY <1>3, <4>2
    <3>3. v[i].node # s
      BY <1>3, <1>4, <3>1, <3>2, IsSeqFacts DEF Shaped
    <3> QED BY <3>2, <3>3
  <2> QED BY <2>1, <2>2, <2>3 DEF Due
<1>8. Downward(v)
  <2> SUFFICES ASSUME NEW i \in DOMAIN v, NEW j \in DOMAIN v, i < j, v[j].do # "visit"
               PROVE  v[i].node < v[j].node
    BY DEF Downward
  <2>1. i + 1 < j + 1
    BY <1>1
  <2> QED BY <1>1, <2>1 DEF Downward
<1>9. OperandsFirst(m, g, v)
  <2> SUFFICES ASSUME NEW j \in DOMAIN v, v[j].do = "fold", NEW k, Operand(m, v[j], k)
               PROVE  Settled(ns, g, k) \/ \E i \in 1 .. j - 1 : v[i].node = k /\ v[i].do # "check"
    BY DEF OperandsFirst
  <2>1. v[j] = w[j + 1] /\ j + 1 \in DOMAIN w /\ j \in 1 .. Len(w) - 1
    BY <1>1
  <2>2. k \in DOMAIN h
    <3>1. v[j].node \in Reached(m) /\ v[j].node # Null /\ h[v[j].node].kind = "ExpressionBinaryOp"
      BY <2>1 DEF Due
    <3>2. v[j].node \in 0 .. Len(h) /\ v[j].node # 0 /\ Len(h) \in Nat
      BY <3>1, SoundFacts, IsSeqFacts DEF Shaped, Null
    <3>3. v[j].node \in DOMAIN h
      BY <1>3, <3>2
    <3>4. k \in 1 .. v[j].node - 1
      <4>1. /\ h[v[j].node] = ns[v[j].node]
            /\ h[v[j].node].kids[1] \in 1 .. v[j].node - 1 /\ h[v[j].node].kids[2] \in 1 .. v[j].node - 1
        BY <3>1, <3>3, HeapNode
      <4> QED BY <4>1 DEF Operand
    <3> QED BY <1>3, <3>2, <3>4
  <2>3. CASE Settled(ns, h, k)
    BY <1>5, <2>2, <2>3
  <2>4. CASE ~Settled(ns, h, k)
    <3>1. PICK i \in 1 .. j + 1 - 1 : w[i].node = k /\ w[i].do # "check"
      BY <2>1, <2>4 DEF OperandsFirst
    <3>2. CASE i = 1
      <4>1. w[1].do = "fold" /\ k = s
        BY <1>2, <3>1, <3>2 DEF Due
      <4> QED BY <1>1, <4>1
    <3>3. CASE i # 1
      <4>1. i - 1 \in 1 .. j - 1 /\ i - 1 \in DOMAIN v /\ i - 1 + 1 = i
        BY <1>1, <2>1, <3>1, <3>3
      <4>2. v[i - 1] = w[i]
        BY <1>1, <4>1
      <4> QED BY <3>1, <4>1, <4>2
    <3> QED BY <3>2, <3>3
  <2> QED BY <2>3, <2>4
<1>10. Covered(m, g, v)
  <2> SUFFICES ASSUME NEW S, Encloses(g, v, S), NEW n \in Reached(m), n \notin S
               PROVE  n # Null /\ (Settled(ns, g, n) \/ \E i \in DOMAIN v : v[i] = Task("fold", n))
    BY DEF Covered
  <2> DEFINE C == {c \in DOMAIN h : g[s] # h[s] /\ Child(h[s], c)}
             T == S \cup C
  <2>1. Encloses(h, w, T)
    <3>1. ASSUME NEW i \in DOMAIN w, w[i].do = "visit" PROVE w[i].node \in T
      <4>1. i # 1
        BY <1>2, <3>1
      <4>2. i - 1 \in DOMAIN v /\ i - 1 + 1 = i
        BY <1>1, <4>1
      <4>3. v[i - 1] = w[i]
        BY <1>1, <4>2
      <4> QED BY <3>1, <4>2, <4>3 DEF Encloses
    <3>2. ASSUME NEW k \in T, k \in DOMAIN h, NEW c, Child(h[k], c) PROVE c \in T
      <4>1. CASE k \in C
        BY <3>2, <4>1
      <4>2. CASE k \in S /\ g[k] = h[k]
        BY <1>3, <3>2, <4>2 DEF Encloses
      <4>3. CASE k \in S /\ g[k] # h[k]
        <5>1. k = s
          BY <3>2, <4>3
        <5>2. c \in C
          BY <3>2, <4>3, <5>1
        <5> QED BY <5>2
      <4> QED BY <4>1, <4>2, <4>3
    <3> HIDE DEF T
    <3> QED BY <3>1, <3>2 DEF Encloses
  <2>2. n \in T \/ (n # Null /\ (Settled(ns, h, n) \/ \E i \in DOMAIN w : w[i] = Task("fold", n)))
    BY <2>1 DEF Covered
  <2>3. n \in 0 .. Len(h) /\ (n # Null => n \in DOMAIN h)
    <3>1. n \in 0 .. Len(h) /\ Len(h) \in Nat
      BY SoundFacts, IsSeqFacts DEF Shaped
    <3> QED BY <1>3, <3>1 DEF Null
  <2>4. CASE n \in C
    <3>1. Settled(ns, h, n) /\ n \in DOMAIN h
      BY <2>4
    <3>2. n # Null
      BY <3>1, HeapNode
    <3> QED BY <1>5, <3>1, <3>2
  <2>5. CASE n # Null /\ Settled(ns, h, n)
    BY <1>5, <2>3, <2>5
  <2>6. CASE n # Null /\ \E i \in DOMAIN w : w[i] = Task("fold", n)
    <3>1. PICK i \in DOMAIN w : w[i] = Task("fold", n)
      BY <2>6
    <3>2. w[i].do = "fold" /\ w[i].node = n
      BY <3>1 DEF Task
    <3>3. CASE i = 1
      <4>1. Settled(ns, g, s) /\ n = s
        BY <1>1, <1>2, <3>2, <3>3
      <4> QED BY <2>6, <4>1
    <3>4. CASE i # 1
      <4>1. i - 1 \in DOMAIN v /\ i - 1 + 1 = i
        BY <1>1, <3>4
      <4>2. v[i - 1] = Task("fold", n)
        BY <1>1, <3>1, <4>1
      <4> QED BY <2>6, <4>1, <4>2
    <3> QED BY <3>3, <3>4
  <2> QED BY <2>2, <2>4, <2>5, <2>6
<1> QED BY <1>1, <1>6, <1>7, <1>8, <1>9, <1>10 DEF v, Remaining

(* The head of the work. *)
LEMMA Heading ==
  ASSUME NEW m, Sound(m), Optimizing(m), work # <<>>
  PROVE  /\ Due(m, heap, Head(work)) /\ Head(work) = work[1] /\ 1 \in DOMAIN work
         /\ Subject \in Reached(m) /\ Subject \in 0 .. Len(heap)
         /\ Subject # Null => Subject \in DOMAIN heap /\ Subject \in DOMAIN m.nodes
<1>1. Head(work) = work[1] /\ Len(work) \in Nat \ {0} /\ DOMAIN work = 1 .. Len(work)
  BY TailFacts, IsSeqFacts DEF Optimizing, Remaining
<1>2. 1 \in DOMAIN work
  BY <1>1
<1>3. Due(m, heap, Head(work))
  BY <1>1, <1>2 DEF Optimizing, Remaining
<1>4. Subject \in Reached(m)
  BY <1>3 DEF Due, Subject
<1>5. Subject \in 0 .. Len(heap) /\ Len(heap) \in Nat /\ DOMAIN heap = 1 .. Len(heap) /\ DOMAIN m.nodes = 1 .. Len(heap)
  BY <1>4, SoundFacts, IsSeqFacts DEF Optimizing, Remaining, Shaped, Sound
<1> QED BY <1>1, <1>2, <1>3, <1>4, <1>5 DEF Null

LEMMA StepFinished ==
  ASSUME NEW m, Sound(m), Optimizing(m), work # <<>>, Head(work).do # "visit",
         work' = Tail(work), died' = FALSE, Completes(m, heap, heap', Head(work))
  PROVE  Optimizing(m)'
<1>1. Remaining(m, heap, work)
  BY DEF Optimizing
<1>2. Remaining(m, heap', Tail(work))
  BY <1>1, TaskDone
<1>3. Remaining(m, heap', work') /\ died' \in BOOLEAN /\ ~died'
  BY <1>2
<1> QED BY <1>3 DEF Optimizing

LEMMA StepCheckConstant ==
  ASSUME NEW m, Sound(m), Optimizing(m), CheckConstant PROVE Optimizing(m)'
<1>1. work # <<>> /\ Head(work).do = "check" /\ work' = Tail(work) /\ heap' = heap /\ died' = FALSE
  BY DEF CheckConstant, Todo, Optimizing
<1>2. IsSeq(heap)
  BY DEF Optimizing, Remaining, Shaped
<1>3. Completes(m, heap, heap', Head(work))
  BY <1>1, <1>2 DEF Completes
<1> QED BY <1>1, <1>3, StepFinished

(* The operands of the operation that is to fold. *)
LEMMA Folding ==
  ASSUME NEW m, Sound(m), Optimizing(m), Todo("fold")
  PROVE  LET s == Subject
             a == heap[s].kids[1]
             b == heap[s].kids[2]
         IN  /\ s \in DOMAIN heap /\ s \in DOMAIN m.nodes /\ s \in Reached(m)
             /\ heap[s] = m.nodes[s] /\ heap[s].kind = "ExpressionBinaryOp"
             /\ a \in DOMAIN heap /\ b \in DOMAIN heap
             /\ \A c : Child(heap[s], c) => c = a \/ c = b
             /\ Settled(m.nodes, heap, a) /\ Settled(m.nodes, heap, b)
             /\ Meaning(m.nodes)[s].constant <=>
                  Meaning(m.nodes)[a].constant /\ Meaning(m.nodes)[b].constant
             /\ Meaning(m.nodes)[s].value =
                  IF Meaning(m.nodes)[a].value = <<>> \/ Meaning(m.nodes)[b].value = <<>> THEN <<>>
                  ELSE VMArithmetic(heap[s].op, Meaning(m.nodes)[a].value[1], Meaning(m.nodes)[b].value[1])
<1> DEFINE s == Subject
           a == heap[s].kids[1]
           b == heap[s].kids[2]
<1>1. work # <<>> /\ Head(work).do = "fold"
  BY DEF Todo
<1>2. Due(m, heap, Head(work)) /\ Head(work) = work[1] /\ 1 \in DOMAIN work /\ s = work[1].node
  BY <1>1, Heading DEF Subject
<1>3. s \in DOMAIN heap /\ s \in DOMAIN m.nodes /\ s \in Reached(m)
  BY <1>1, <1>2, Heading DEF Due
<1>4. heap[s] = m.nodes[s] /\ heap[s].kind = "ExpressionBinaryOp"
  BY <1>1, <1>2 DEF Due
<1>5. /\ DOMAIN heap[s].kids = 1 .. 2 /\ a \in 1 .. s - 1 /\ b \in 1 .. s - 1
  BY <1>3, <1>4, HeapNode DEF Optimizing, Remaining
<1>6. DOMAIN heap = 1 .. Len(heap) /\ Len(heap) \in Nat
  BY IsSeqFacts DEF Optimizing, Remaining, Shaped
<1> HIDE DEF s
<1>7. a \in DOMAIN heap /\ b \in DOMAIN heap
  BY <1>3, <1>5, <1>6
<1>8. \A c : Child(heap[s], c) => c = a \/ c = b
  BY <1>5 DEF Child
<1>9. Settled(m.nodes, heap, a) /\ Settled(m.nodes, heap, b)
  <2>1. Operand(m, work[1], a) /\ Operand(m, work[1], b)
    BY <1>2, <1>4 DEF Operand
  <2>2. \A k : Operand(m, work[1], k) =>
          Settled(m.nodes, heap, k) \/ \E i \in 1 .. 1 - 1 : work[i].node = k /\ work[i].do # "check"
    BY <1>1, <1>2 DEF Optimizing, Remaining, OperandsFirst
  <2> QED BY <2>1, <2>2
<1>10. Meaning(m.nodes)[s] = NodeMeaning(m.nodes[s], Meaning(m.nodes))
  BY <1>3, SoundFacts, MeaningFacts DEF MeaningAt
<1>11. Meaning(m.nodes)[s] =
         [constant |-> Meaning(m.nodes)[a].constant /\ Meaning(m.nodes)[b].constant,
          value |-> IF Meaning(m.nodes)[a].value = <<>> \/ Meaning(m.nodes)[b].value = <<>> THEN <<>>
                    ELSE VMArithmetic(heap[s].op, Meaning(m.nodes)[a].value[1], Meaning(m.nodes)[b].value[1])]
  BY <1>4, <1>10 DEF NodeMeaning, RealKinds
<1>12. /\ Meaning(m.nodes)[s].constant <=>
            Meaning(m.nodes)[a].constant /\ Meaning(m.nodes)[b].constant
       /\ Meaning(m.nodes)[s].value =
            IF Meaning(m.nodes)[a].value = <<>> \/ Meaning(m.nodes)[b].value = <<>> THEN <<>>
            ELSE VMArithmetic(heap[s].op, Meaning(m.nodes)[a].value[1], Meaning(m.nodes)[b].value[1])
  <2> DEFINE V == Meaning(m.nodes)
             A == V[a].constant /\ V[b].constant
             N == IF V[a].value = <<>> \/ V[b].value = <<>> THEN <<>>
                  ELSE VMArithmetic(heap[s].op, V[a].value[1], V[b].value[1])
  <2>1. V[s] = [constant |-> A, value |-> N]
    BY <1>11
  <2> HIDE DEF A, N, V
  <2>2. V[s].constant = A /\ V[s].value = N
    BY <2>1
  <2>3. V[s].constant <=> A
    BY <2>2
  <2> QED BY <2>2, <2>3 DEF A, N, V
<1> QED BY <1>3, <1>4, <1>7, <1>8, <1>9, <1>12 DEF s

LEMMA StepKeepOperator ==
  ASSUME NEW m, Sound(m), Optimizing(m), KeepOperator PROVE Optimizing(m)'
<1> DEFINE s == Subject
           a == heap[s].kids[1]
           b == heap[s].kids[2]
<1>1. /\ work # <<>> /\ Head(work).do = "fold" /\ Todo("fold") /\ ~BothNumbers
      /\ work' = Tail(work) /\ heap' = heap /\ died' = FALSE
  BY DEF KeepOperator, Todo, Optimizing
<1>2. IsSeq(heap) /\ s = Head(work).node
  BY DEF Optimizing, Remaining, Shaped, Subject
<1>3. Settled(m.nodes, heap, s)
  <2> DEFINE V == Meaning(m.nodes)
  <2>1. /\ Settled(m.nodes, heap, a) /\ Settled(m.nodes, heap, b)
        /\ heap[s].kind = "ExpressionBinaryOp"
        /\ V[s].constant => V[a].constant /\ V[b].constant
        /\ V[s].value # <<>> => V[a].value # <<>> /\ V[b].value # <<>>
    BY <1>1, Folding
  <2>2. ~(heap[a].kind \in NumberKinds /\ heap[b].kind \in NumberKinds)
    BY <1>1 DEF BothNumbers, Left, Right
  <2>3. ~V[s].constant
    BY <2>1, <2>2 DEF Settled
  <2>4. V[s].value = <<>>
    BY <2>1, <2>2 DEF Settled, NumberKinds
  <2> QED BY <2>1, <2>3, <2>4 DEF Settled, NumberKinds, RealKinds
<1>4. Completes(m, heap, heap', Head(work))
  BY <1>1, <1>2, <1>3 DEF Completes
<1> QED BY <1>1, <1>4, StepFinished

LEMMA StepFold ==
  ASSUME NEW m, Sound(m), Optimizing(m), Fold PROVE Optimizing(m)'
<1> DEFINE s == Subject
           a == heap[s].kids[1]
           b == heap[s].kids[2]
           l == heap[a]
           r == heap[b]
           op == heap[s].op
<1>1. /\ work # <<>> /\ Head(work).do = "fold" /\ Todo("fold")
      /\ work' = Tail(work) /\ died' = FALSE
      /\ l.kind \in NumberKinds /\ r.kind \in NumberKinds /\ ~Fatal(op, l, r)
  BY DEF Fold, Todo, Optimizing, BothNumbers, Left, Right
<1>2. PICK w \in make_const_bin_expr(op, l, r) :
        heap' = [heap EXCEPT ![s] = [@ EXCEPT !.kind = FoldedKind(l, r), !.kids = <<>>, !.val = w]]
  BY DEF Fold, Left, Right
<1>3. /\ s \in DOMAIN heap /\ s \in DOMAIN m.nodes /\ heap[s] = m.nodes[s]
      /\ heap[s].kind = "ExpressionBinaryOp" /\ a \in DOMAIN heap /\ b \in DOMAIN heap
      /\ \A c : Child(heap[s], c) => c = a \/ c = b
      /\ Settled(m.nodes, heap, a) /\ Settled(m.nodes, heap, b)
      /\ Meaning(m.nodes)[s].constant <=>
           Meaning(m.nodes)[a].constant /\ Meaning(m.nodes)[b].constant
      /\ Meaning(m.nodes)[s].value =
           IF Meaning(m.nodes)[a].value = <<>> \/ Meaning(m.nodes)[b].value = <<>> THEN <<>>
           ELSE VMArithmetic(op, Meaning(m.nodes)[a].value[1], Meaning(m.nodes)[b].value[1])
  BY <1>1, Folding
<1>4. InRange(l) /\ InRange(r) /\ (\A d : ~Child(l, d)) /\ (\A d : ~Child(r, d))
  <2>1. Shaped(m, heap)
    BY DEF Optimizing, Remaining
  <2>2. \A n \in DOMAIN heap : InRange(heap[n]) /\ (heap[n].kind \in NumberKinds => \A d : ~Child(heap[n], d))
    BY <2>1, HeapNode
  <2>3. /\ InRange(l) /\ (l.kind \in NumberKinds => \A d : ~Child(l, d))
        /\ InRange(r) /\ (r.kind \in NumberKinds => \A d : ~Child(r, d))
    BY <1>3, <2>2
  <2> HIDE DEF l, r
  <2> QED BY <1>1, <2>3
<1> DEFINE x == heap[s]
           y == [x EXCEPT !.kind = FoldedKind(l, r), !.kids = <<>>, !.val = w]
<1>5. x = [kind |-> x.kind, kids |-> x.kids, op |-> x.op, val |-> x.val, lo |-> x.lo, hi |-> x.hi]
  BY <1>3 DEF Sound
<1>6. heap' = [heap EXCEPT ![s] = y]
  BY <1>2
<1>7. y.kind = FoldedKind(l, r) /\ y.kids = <<>> /\ y.val = w
  <2> HIDE DEF x
  <2> QED BY <1>5
<1>8. /\ FoldedKind(l, r) \in {"ExpressionReal", "ExpressionNat", "ExpressionInt"}
      /\ FoldedKind(l, r) = "ExpressionNat" => w \in NatRange
      /\ FoldedKind(l, r) = "ExpressionInt" => w \in IntRange
  <2> HIDE DEF l, r, op
  <2> QED BY <1>1, <1>2, <1>4, FoldInRange
<1> HIDE DEF y
<1>9. Folds(m.nodes[s], y)
  BY <1>3, <1>7, <1>8 DEF Folds, InRange
<1>10. IsSeq(heap)
  BY DEF Optimizing, Remaining, Shaped
<1>11. /\ IsSeq(heap') /\ Len(heap') = Len(heap) /\ heap'[s] = y
       /\ \A n \in DOMAIN heap : n # s => heap'[n] = heap[n]
  <2>1. s \in DOMAIN heap
    BY <1>3
  <2> HIDE DEF s
  <2> QED BY <1>6, <1>10, <2>1, ExceptFacts
<1>12. Settled(m.nodes, heap', s)
  <2> DEFINE V == Meaning(m.nodes)
  <2>1. V[s].constant /\ y.kind \in NumberKinds
    <3>1. V[a].constant /\ V[b].constant
      BY <1>1, <1>3 DEF Settled
    <3> QED BY <1>3, <1>7, <1>8, <3>1 DEF NumberKinds, RealKinds
  <2>2. ASSUME V[s].value # <<>>
        PROVE  y.kind \in {"ExpressionNat", "ExpressionInt"} /\ Signed(y.val) = V[s].value[1]
    <3>1. V[a].value # <<>> /\ V[b].value # <<>> /\ V[s].value = VMArithmetic(op, V[a].value[1], V[b].value[1])
      BY <1>3, <2>2
    <3>2. /\ l.kind \in {"ExpressionNat", "ExpressionInt"} /\ Signed(l.val) = V[a].value[1]
          /\ r.kind \in {"ExpressionNat", "ExpressionInt"} /\ Signed(r.val) = V[b].value[1]
      BY <1>3, <3>1 DEF Settled
    <3>3. V[s].value = VMArithmetic(op, Signed(l.val), Signed(r.val))
      BY <3>1, <3>2
    <3>4. VMArithmetic(op, Signed(l.val), Signed(r.val)) # <<>>
      BY <2>2, <3>3
    <3>5. /\ FoldedKind(l, r) \in {"ExpressionNat", "ExpressionInt"}
          /\ Signed(w) = VMArithmetic(op, Signed(l.val), Signed(r.val))[1]
      <4>1. l.kind \in {"ExpressionNat", "ExpressionInt"} /\ r.kind \in {"ExpressionNat", "ExpressionInt"}
        BY <3>2
      <4>2. ~Fatal(op, l, r) /\ w \in make_const_bin_expr(op, l, r) /\ InRange(l) /\ InRange(r)
        BY <1>1, <1>2, <1>4
      <4> HIDE DEF l, r, op, V
      <4> QED BY <3>4, <4>1, <4>2, FoldMeans
    <3> QED BY <1>7, <3>3, <3>5
  <2>3. Harmless(m.nodes, heap', s)
    <3>1. a # s /\ b # s
      BY <1>1, <1>3 DEF NumberKinds, RealKinds
    <3>2. heap'[a] = l /\ heap'[b] = r
      BY <1>3, <1>11, <3>1
    <3>3. m.nodes[s].kids[1] = a /\ m.nodes[s].kids[2] = b /\ m.nodes[s].op = op
      BY <1>3
    <3> HIDE DEF a, b, l, r, op, s
    <3> QED BY <1>1, <3>2, <3>3 DEF Harmless
  <2> QED BY <1>11, <2>1, <2>2, <2>3 DEF Settled
<1>13. \A c : Child(heap[s], c) =>
         c \in DOMAIN heap /\ Settled(m.nodes, heap, c) /\ \A d : ~Child(heap[c], d)
  BY <1>3, <1>4
<1>14. heap'[s] = heap[s] \/ Folds(m.nodes[s], heap'[s])
  BY <1>9, <1>11
<1>15. s = Head(work).node
  BY DEF Subject
<1> HIDE DEF s
<1>16. Completes(m, heap, heap', Head(work))
  BY <1>1, <1>11, <1>12, <1>13, <1>14, <1>15 DEF Completes
<1> QED BY <1>1, <1>16, StepFinished

LEMMA StepDies ==
  ASSUME NEW m, Sound(m), Optimizing(m), handle_node_Null \/ Fold_Fatal PROVE Optimizing(m)'
<1>1. heap' = heap /\ work' = work /\ died' = TRUE /\ work # <<>>
  BY DEF handle_node_Null, Fold_Fatal, Dies, Todo
<1>2. Cause(m, heap)
  <2>1. CASE handle_node_Null
    <3>1. Null \in Reached(m)
      BY <1>1, <2>1, Heading DEF handle_node_Null
    <3> QED BY <3>1 DEF Cause
  <2>2. CASE Fold_Fatal
    <3> DEFINE s == Subject
    <3>1. Todo("fold") /\ Fatal(heap[s].op, Left, Right) /\ Left.kind \in NumberKinds /\ Right.kind \in NumberKinds
      BY <2>2 DEF Fold_Fatal, BothNumbers
    <3> DEFINE a == heap[s].kids[1]
               b == heap[s].kids[2]
    <3>2. /\ s \in Reached(m) /\ s \in DOMAIN m.nodes
          /\ heap[s] = m.nodes[s] /\ heap[s].kind = "ExpressionBinaryOp"
          /\ Settled(m.nodes, heap, a) /\ Settled(m.nodes, heap, b)
          /\ Meaning(m.nodes)[s].constant <=>
               Meaning(m.nodes)[a].constant /\ Meaning(m.nodes)[b].constant
      BY <3>1, Folding
    <3>3. Meaning(m.nodes)[s].constant
      BY <3>1, <3>2 DEF Settled, Left, Right
    <3>4. s \in Deadly(m.nodes, heap)
      BY <3>1, <3>2, <3>3 DEF Deadly, Left, Right
    <3> QED BY <3>2, <3>4 DEF Cause
  <2> QED BY <2>1, <2>2
<1>3. Remaining(m, heap', work') /\ died' \in BOOLEAN /\ work' # <<>>
  BY <1>1 DEF Optimizing
<1>4. Cause(m, heap')
  BY <1>1, <1>2
<1> QED BY <1>3, <1>4 DEF Optimizing

(* What handle_node puts in front: the children to visit, and what it does *)
(* after them.                                                             *)
Ahead(m, h, s, front) ==
  /\ IsSeq(front)
  /\ \A i \in DOMAIN front :
       \/ front[i].do = "visit" /\ Child(h[s], front[i].node) /\ front[i] = Task("visit", front[i].node)
       \/ /\ i = Len(front) /\ s # Null /\ front[i] = Task(front[i].do, s)
          /\ \/ front[i].do = "fold" /\ h[s].kind = "ExpressionBinaryOp"
             \/ front[i].do = "check"
  /\ \A c : Child(h[s], c) => \E i \in DOMAIN front : front[i] = Task("visit", c)
  /\ h[s].kind = "ExpressionBinaryOp" => \E i \in DOMAIN front : front[i] = Task("fold", s)

LEMMA FrontIsFront ==
  ASSUME NEW m, Sound(m), Optimizing(m), NEW s \in DOMAIN heap
  PROVE  Ahead(m, heap, s, Tasks("visit", VisitedChildren(heap[s])) \o Afterwards(s))
<1> DEFINE x == heap[s]
           c == VisitedChildren(x)
           a == Tasks("visit", c)
           b == Afterwards(s)
           front == a \o b
<1>1. /\ s \in Nat /\ s # Null /\ IsSeq(x.kids)
      /\ x.kind = "StatementReturn" => DOMAIN x.kids = 1 .. 2
  BY HeapNode DEF Optimizing, Remaining
<1>2. b = IF x.kind = "ExpressionBinaryOp" THEN <<Task("fold", s)>>
          ELSE IF x.kind = "StatementConstant" THEN <<Task("check", s)>> ELSE <<>>
  BY DEF Afterwards
<1> HIDE DEF x, b
<1>3. /\ IsSeq(c)
      /\ \A i \in DOMAIN c : Child(x, c[i])
      /\ \A k : Child(x, k) => \E i \in DOMAIN c : c[i] = k
  <2>1. CASE x.kind = "StatementReturn"
    <3>1. c = <<x.kids[2]>>
      BY <2>1 DEF VisitedChildren
    <3>2. DOMAIN c = {1} /\ c[1] = x.kids[2] /\ IsSeq(c)
      BY <3>1 DEF IsSeq
    <3>0. 2 \in DOMAIN x.kids
      BY <1>1, <2>1
    <3>3. Child(x, x.kids[2])
      BY <2>1, <3>0 DEF Child
    <3>4. ASSUME NEW k, Child(x, k) PROVE k = x.kids[2]
      <4>1. PICK i \in DOMAIN x.kids : x.kids[i] = k /\ i # 1
        BY <2>1, <3>4 DEF Child
      <4>2. i = 2
        BY <1>1, <2>1, <4>1
      <4> QED BY <4>1, <4>2
    <3> QED BY <3>2, <3>3, <3>4
  <2>2. CASE x.kind # "StatementReturn"
    <3>1. c = x.kids
      BY <2>2 DEF VisitedChildren
    <3> QED BY <1>1, <2>2, <3>1 DEF Child
  <2> QED BY <2>1, <2>2
<1> HIDE DEF c
<1>4. /\ DOMAIN a = DOMAIN c /\ \A i \in DOMAIN c : a[i] = Task("visit", c[i])
  BY DEF Tasks
<1>5. IsSeq(a) /\ Len(a) = Len(c) /\ Len(c) \in Nat /\ DOMAIN c = 1 .. Len(c)
  <2>1. Len(c) \in Nat /\ DOMAIN c = 1 .. Len(c)
    BY <1>3, IsSeqFacts
  <2>2. a = [i \in 1 .. Len(c) |-> a[i]]
    BY <2>1 DEF Tasks
  <2> HIDE DEF a
  <2>3. a \in Seq({a[i] : i \in DOMAIN a}) /\ Len(a) = Len(c)
    BY <1>4, <2>1, <2>2
  <2> QED BY <2>1, <2>3 DEF IsSeq
<1> HIDE DEF a
<1>6. IsSeq(b) /\ Len(b) \in Nat /\ DOMAIN b = 1 .. Len(b) /\ Len(b) <= 1
      /\ (x.kind \in {"ExpressionBinaryOp", "StatementConstant"} <=> Len(b) = 1)
      /\ (x.kind = "ExpressionBinaryOp" => b[1] = Task("fold", s))
      /\ (x.kind = "StatementConstant" => b[1] = Task("check", s))
  <2>1. ASSUME NEW t PROVE IsSeq(<<t>>) /\ Len(<<t>>) = 1 /\ DOMAIN <<t>> = 1 .. 1 /\ <<t>>[1] = t
    BY DEF IsSeq
  <2>2. IsSeq(<<>>) /\ Len(<<>>) = 0 /\ DOMAIN <<>> = 1 .. 0
    BY DEF IsSeq
  <2>3. CASE x.kind = "ExpressionBinaryOp"
    BY <1>2, <2>1, <2>3
  <2>4. CASE x.kind = "StatementConstant"
    BY <1>2, <2>1, <2>4
  <2>5. CASE x.kind \notin {"ExpressionBinaryOp", "StatementConstant"}
    BY <1>2, <2>2, <2>5
  <2> QED BY <2>3, <2>4, <2>5
<1>7. /\ IsSeq(front) /\ Len(front) = Len(a) + Len(b)
      /\ \A i \in 1 .. Len(a) : front[i] = a[i]
      /\ \A i \in 1 .. Len(b) : front[Len(a) + i] = b[i]
  BY <1>5, <1>6, ConcatFacts
<1> HIDE DEF front
<1>8. DOMAIN front = 1 .. Len(a) + Len(b)
  BY <1>7, IsSeqFacts
<1>9. ASSUME NEW i \in DOMAIN front
      PROVE  \/ front[i].do = "visit" /\ Child(x, front[i].node) /\ front[i] = Task("visit", front[i].node)
             \/ /\ i = Len(front) /\ front[i] = Task(front[i].do, s)
                /\ \/ front[i].do = "fold" /\ x.kind = "ExpressionBinaryOp"
                   \/ front[i].do = "check"
  <2>1. CASE i \in 1 .. Len(a)
    <3>1. front[i] = Task("visit", c[i]) /\ Child(x, c[i])
      BY <1>3, <1>4, <1>5, <1>7, <2>1
    <3> QED BY <3>1 DEF Task
  <2>2. CASE i \notin 1 .. Len(a)
    <3>1. i = Len(a) + 1 /\ Len(b) = 1
      BY <1>5, <1>6, <1>8, <2>2
    <3>2. front[i] = b[1] /\ i = Len(front)
      BY <1>7, <3>1
    <3> QED BY <1>6, <3>1, <3>2 DEF Task
  <2> QED BY <2>1, <2>2
<1>10. ASSUME NEW k, Child(x, k) PROVE \E i \in DOMAIN front : front[i] = Task("visit", k)
  <2>1. PICK i \in DOMAIN c : c[i] = k
    BY <1>3, <1>10
  <2>2. front[i] = Task("visit", k) /\ i \in DOMAIN front
    BY <1>4, <1>5, <1>6, <1>7, <1>8, <2>1
  <2> QED BY <2>2
<1>11. ASSUME x.kind = "ExpressionBinaryOp" PROVE \E i \in DOMAIN front : front[i] = Task("fold", s)
  <2>1. Len(a) + 1 \in DOMAIN front /\ front[Len(a) + 1] = Task("fold", s)
    BY <1>5, <1>6, <1>7, <1>8, <1>11
  <2> QED BY <2>1
<1>12. Ahead(m, heap, s, front)
  BY <1>1, <1>7, <1>9, <1>10, <1>11 DEF Ahead, x
<1> QED BY <1>12 DEF front, a, b, c, x

LEMMA VisitDone ==
  ASSUME NEW m, Sound(m), NEW h, NEW w, Remaining(m, h, w), w # <<>>,
         Head(w).do = "visit", NEW s, s = Head(w).node, s \in DOMAIN h, s \in Reached(m),
         NEW front, Ahead(m, h, s, front)
  PROVE  Remaining(m, h, front \o Tail(w))
<1> DEFINE ns == m.nodes
           t == Tail(w)
           v == front \o t
           P == Len(front)
           L == Len(w)
<1>0. /\ Shaped(m, h) /\ IsSeq(w)
      /\ \A i \in DOMAIN w : Due(m, h, w[i]) /\ w[i] = Task(w[i].do, w[i].node)
      /\ Downward(w) /\ OperandsFirst(m, h, w) /\ Covered(m, h, w)
  BY DEF Remaining
<1>1. /\ IsSeq(t) /\ Len(t) = L - 1 /\ L \in Nat \ {0}
      /\ \A i \in 1 .. L - 1 : t[i] = w[i + 1]
      /\ Head(w) = w[1] /\ DOMAIN w = 1 .. L
  BY <1>0, TailFacts, IsSeqFacts
<1>2. IsSeq(front) /\ P \in Nat /\ DOMAIN front = 1 .. P
  BY IsSeqFacts DEF Ahead
<1>3. /\ IsSeq(v) /\ Len(v) = P + (L - 1)
      /\ \A i \in 1 .. P : v[i] = front[i]
      /\ \A i \in 1 .. Len(t) : v[P + i] = t[i]
  BY <1>1, <1>2, ConcatFacts
<1> HIDE DEF t, v
<1>4. DOMAIN v = 1 .. P + (L - 1)
  BY <1>3, IsSeqFacts
<1> HIDE DEF P, L
<1>5. ASSUME NEW i \in 2 .. L PROVE i \in DOMAIN w /\ i - 1 + P \in DOMAIN v /\ v[i - 1 + P] = w[i]
  <2>1. i - 1 \in 1 .. L - 1 /\ i - 1 + 1 = i
    BY <1>1
  <2>2. t[i - 1] = w[i] /\ v[P + (i - 1)] = t[i - 1]
    BY <1>1, <1>3, <2>1
  <2>3. P + (i - 1) = i - 1 + P
    BY <1>2, <2>1
  <2> QED BY <1>1, <1>2, <1>4, <2>1, <2>2, <2>3
<1>6. ASSUME NEW i \in DOMAIN v, i \notin 1 .. P
      PROVE  i - P + 1 \in 2 .. L /\ v[i] = w[i - P + 1] /\ i - P + 1 \in DOMAIN w
  <2> DEFINE k == i - P + 1
  <2>1. L \in Nat \ {0} /\ P \in Nat
    BY <1>1, <1>2
  <2>2. k \in 2 .. L /\ k - 1 + P = i
    BY <1>4, <1>6, <2>1
  <2> HIDE DEF k
  <2>3. k \in DOMAIN w /\ v[k - 1 + P] = w[k]
    BY <1>5, <2>2
  <2>4. k \in 2 .. L /\ v[i] = w[k] /\ k \in DOMAIN w
    BY <2>2, <2>3
  <2> QED BY <2>4 DEF k
<1>7. DOMAIN h = 1 .. Len(h) /\ Len(h) \in Nat /\ DOMAIN h = DOMAIN ns /\ s \in Nat /\ s # Null
  <2>1. s \in Nat /\ s # Null
    BY <1>0, HeapNode
  <2>2. IsSeq(h) /\ IsSeq(ns) /\ Len(h) = Len(ns)
    BY <1>0 DEF Shaped, Sound
  <2> QED BY <2>1, <2>2, IsSeqFacts
<1>8. \A c : Child(h[s], c) => c \in 0 .. s - 1 /\ c \in Reached(m)
  <2>1. \A c : Child(h[s], c) => c \in 0 .. s - 1 /\ Child(ns[s], c)
    BY <1>0, HeapNode
  <2> QED BY <1>7, <2>1, SoundFacts
<1>9. \A i \in 1 .. P :
        /\ front[i] = Task(front[i].do, front[i].node)
        /\ \/ front[i].do = "visit" /\ Child(h[s], front[i].node)
           \/ /\ front[i].do \in {"fold", "check"} /\ front[i].node = s /\ i = P
              /\ front[i].do = "fold" => h[s].kind = "ExpressionBinaryOp"
  <2> SUFFICES ASSUME NEW i \in 1 .. P
               PROVE  /\ front[i] = Task(front[i].do, front[i].node)
                      /\ \/ front[i].do = "visit" /\ Child(h[s], front[i].node)
                         \/ /\ front[i].do \in {"fold", "check"} /\ front[i].node = s /\ i = P
                            /\ front[i].do = "fold" => h[s].kind = "ExpressionBinaryOp"
    OBVIOUS
  <2>1. \/ front[i].do = "visit" /\ Child(h[s], front[i].node) /\ front[i] = Task("visit", front[i].node)
        \/ /\ i = P /\ front[i] = Task(front[i].do, s)
           /\ \/ front[i].do = "fold" /\ h[s].kind = "ExpressionBinaryOp"
              \/ front[i].do = "check"
    BY <1>2 DEF Ahead, P
  <2>2. CASE i = P /\ front[i] = Task(front[i].do, s)
    <3>1. front[i].node = s
      BY <2>2 DEF Task
    <3> QED BY <2>1, <2>2, <3>1
  <2>3. CASE front[i].do = "visit" /\ Child(h[s], front[i].node) /\ front[i] = Task("visit", front[i].node)
    BY <2>3
  <2> QED BY <2>1, <2>2, <2>3
<1>10. ASSUME NEW i \in DOMAIN v PROVE Due(m, h, v[i]) /\ v[i] = Task(v[i].do, v[i].node)
  <2>1. CASE i \in 1 .. P
    <3>1. v[i] = front[i]
      BY <1>3, <2>1
    <3>2. CASE front[i].do = "visit" /\ Child(h[s], front[i].node)
      BY <1>8, <1>9, <2>1, <3>1, <3>2 DEF Due
    <3>3. CASE front[i].do \in {"fold", "check"} /\ front[i].node = s
               /\ (front[i].do = "fold" => h[s].kind = "ExpressionBinaryOp")
      <4>1. h[s].kind = "ExpressionBinaryOp" => h[s] = ns[s]
        BY <1>0, HeapNode
      <4> QED BY <1>7, <1>9, <2>1, <3>1, <3>3, <4>1 DEF Due
    <3> QED BY <1>9, <2>1, <3>2, <3>3
  <2>2. CASE i \notin 1 .. P
    BY <1>0, <1>6, <2>2
  <2> QED BY <2>1, <2>2
<1>11. Downward(v)
  <2> SUFFICES ASSUME NEW i \in DOMAIN v, NEW j \in DOMAIN v, i < j, v[j].do # "visit"
               PROVE  v[i].node < v[j].node
    BY DEF Downward
  <2>1. CASE j \in 1 .. P
    <3>1. v[j] = front[j] /\ v[j].node = s /\ j = P
      BY <1>3, <1>9, <2>1
    <3>2. i \in 1 .. P /\ i # P
      BY <1>2, <1>4, <2>1, <3>1
    <3>3. v[i] = front[i] /\ Child(h[s], v[i].node)
      BY <1>3, <1>9, <3>2
    <3>4. v[i].node \in 0 .. s - 1
      BY <1>8, <3>3
    <3> QED BY <1>7, <3>1, <3>4
  <2>2. CASE j \notin 1 .. P
    <3> DEFINE k == j - P + 1
    <3>1. k \in 2 .. L /\ v[j] = w[k] /\ k \in DOMAIN w
      BY <1>6, <2>2
    <3>2. CASE i \in 1 .. P
      <4>1. 1 \in DOMAIN w /\ 1 < k
        BY <1>1, <3>1
      <4>2. s < w[k].node
        BY <1>0, <1>1, <3>1, <4>1 DEF Downward
      <4>3. v[i].node = s \/ v[i].node \in 0 .. s - 1
        BY <1>3, <1>8, <1>9, <3>2
      <4>4. w[k].node \in Nat
        <5>1. w[k].node \in Reached(m)
          BY <1>0, <3>1 DEF Due
        <5>2. w[k].node \in 0 .. Len(ns)
          BY <5>1, SoundFacts
        <5> QED BY <5>2
      <4> HIDE DEF k
      <4> QED BY <1>7, <3>1, <4>2, <4>3, <4>4
    <3>3. CASE i \notin 1 .. P
      <4>1. i - P + 1 \in DOMAIN w /\ v[i] = w[i - P + 1]
        BY <1>6, <3>3
      <4>2. i - P + 1 < k
        BY <1>2, <1>4
      <4> QED BY <1>0, <3>1, <4>1, <4>2 DEF Downward
    <3> QED BY <3>2, <3>3
  <2> QED BY <2>1, <2>2
<1>12. Settled(ns, h, s) \/ \E i \in 1 .. P : v[i] = Task("fold", s)
  <2>1. CASE h[s].kind = "ExpressionBinaryOp"
    <3>1. PICK i \in DOMAIN front : front[i] = Task("fold", s)
      BY <2>1 DEF Ahead
    <3> QED BY <1>2, <1>3, <3>1
  <2>2. CASE h[s].kind # "ExpressionBinaryOp"
    BY <1>0, <2>2, HeapNode
  <2> QED BY <2>1, <2>2
<1>13. OperandsFirst(m, h, v)
  <2> SUFFICES ASSUME NEW j \in DOMAIN v, v[j].do = "fold", NEW k, Operand(m, v[j], k), ~Settled(ns, h, k)
               PROVE  \E i \in 1 .. j - 1 : v[i].node = k /\ v[i].do # "check"
    BY DEF OperandsFirst
  <2>1. CASE j \in 1 .. P
    <3>1. v[j] = front[j] /\ v[j].node = s /\ j = P /\ h[s].kind = "ExpressionBinaryOp"
      BY <1>3, <1>9, <2>1
    <3>2. Child(h[s], k)
      <4>1. h[s] = ns[s] /\ DOMAIN h[s].kids = 1 .. 2
        BY <1>0, <3>1, HeapNode
      <4>2. (k = h[s].kids[1] \/ k = h[s].kids[2]) /\ 1 \in DOMAIN h[s].kids /\ 2 \in DOMAIN h[s].kids
        BY <3>1, <4>1 DEF Operand
      <4> QED BY <3>1, <4>2 DEF Child
    <3>3. PICK i \in DOMAIN front : front[i] = Task("visit", k)
      BY <3>2 DEF Ahead
    <3>4. front[i].do = "visit" /\ front[i].node = k /\ v[i] = front[i]
      BY <1>2, <1>3, <3>3 DEF Task
    <3>5. i # P
      BY <3>1, <3>4
    <3>6. i \in 1 .. j - 1
      BY <1>2, <3>1, <3>5
    <3> QED BY <3>4, <3>6
  <2>2. CASE j \notin 1 .. P
    <3> DEFINE q == j - P + 1
    <3>1. q \in 2 .. L /\ v[j] = w[q] /\ q \in DOMAIN w
      BY <1>6, <2>2
    <3>2. PICK i \in 1 .. q - 1 : w[i].node = k /\ w[i].do # "check"
      BY <1>0, <3>1 DEF OperandsFirst
    <3>3. j = q - 1 + P /\ j \in Nat
      BY <1>2, <1>4
    <3> HIDE DEF q
    <3>4. CASE i = 1
      <4>1. k = s
        BY <1>1, <3>2, <3>4
      <4>2. PICK e \in 1 .. P : v[e] = Task("fold", s)
        BY <1>12, <4>1
      <4>3. v[e].node = k /\ v[e].do # "check"
        BY <4>1, <4>2 DEF Task
      <4>4. e \in 1 .. j - 1
        BY <1>2, <1>4, <2>2
      <4> QED BY <4>3, <4>4
    <3>5. CASE i # 1
      <4>1. i \in 2 .. L /\ i - 1 + P \in 1 .. j - 1
        <5>1. L \in Nat /\ P \in Nat /\ q \in 2 .. L /\ i \in 1 .. q - 1 /\ i # 1 /\ j = q - 1 + P
          BY <1>1, <1>2, <3>1, <3>2, <3>3, <3>5
        <5> QED BY <5>1
      <4>2. v[i - 1 + P] = w[i]
        BY <1>5, <4>1
      <4> QED BY <3>2, <4>1, <4>2
    <3> QED BY <3>4, <3>5
  <2> QED BY <2>1, <2>2
<1>14. Covered(m, h, v)
  <2> SUFFICES ASSUME NEW S, Encloses(h, v, S), NEW n \in Reached(m), n \notin S
               PROVE  n # Null /\ (Settled(ns, h, n) \/ \E i \in DOMAIN v : v[i] = Task("fold", n))
    BY DEF Covered
  <2> DEFINE T == S \cup {s}
  <2>1. Encloses(h, w, T)
    <3>1. ASSUME NEW i \in DOMAIN w, w[i].do = "visit" PROVE w[i].node \in T
      <4>1. CASE i = 1
        BY <1>1, <4>1
      <4>2. CASE i # 1
        <5>1. i \in 2 .. L
          BY <1>1, <4>2
        <5>2. i - 1 + P \in DOMAIN v /\ v[i - 1 + P] = w[i]
          BY <1>5, <5>1
        <5> QED BY <3>1, <5>2 DEF Encloses
      <4> QED BY <4>1, <4>2
    <3>2. ASSUME NEW k \in T, k \in DOMAIN h, NEW c, Child(h[k], c) PROVE c \in T
      <4>1. CASE k \in S
        BY <3>2, <4>1 DEF Encloses
      <4>2. CASE k = s
        <5>1. PICK i \in DOMAIN front : front[i] = Task("visit", c)
          BY <3>2, <4>2 DEF Ahead
        <5>2. i \in DOMAIN v /\ v[i].do = "visit" /\ v[i].node = c
          BY <1>1, <1>2, <1>3, <1>4, <5>1 DEF Task
        <5> QED BY <5>2 DEF Encloses
      <4> QED BY <4>1, <4>2
    <3> HIDE DEF T
    <3> QED BY <3>1, <3>2 DEF Encloses
  <2>2. n \in T \/ (n # Null /\ (Settled(ns, h, n) \/ \E i \in DOMAIN w : w[i] = Task("fold", n)))
    BY <1>0, <2>1 DEF Covered
  <2>3. CASE n = s
    <3>1. Settled(ns, h, n) \/ \E i \in DOMAIN v : v[i] = Task("fold", n)
      <4>1. 1 .. P \subseteq DOMAIN v
        BY <1>1, <1>2, <1>4
      <4> QED BY <1>12, <2>3, <4>1
    <3> QED BY <1>7, <2>3, <3>1
  <2>4. CASE n # Null /\ Settled(ns, h, n)
    BY <2>4
  <2>5. CASE n # Null /\ \E i \in DOMAIN w : w[i] = Task("fold", n)
    <3>1. PICK i \in DOMAIN w : w[i] = Task("fold", n)
      BY <2>5
    <3>2. i # 1
      BY <1>1, <3>1 DEF Task
    <3>3. i \in 2 .. L
      BY <1>1, <3>2
    <3>4. i - 1 + P \in DOMAIN v /\ v[i - 1 + P] = Task("fold", n)
      BY <1>5, <3>1, <3>3
    <3> QED BY <2>5, <3>4
  <2> QED BY <2>2, <2>3, <2>4, <2>5
<1>15. Remaining(m, h, v)
  BY <1>0, <1>3, <1>10, <1>11, <1>13, <1>14 DEF Remaining
<1> QED BY <1>15 DEF v, t

LEMMA StepHandleNode ==
  ASSUME NEW m, Sound(m), Optimizing(m), handle_node PROVE Optimizing(m)'
<1> DEFINE s == Subject
           front == Tasks("visit", VisitedChildren(heap[s])) \o Afterwards(s)
<1>1. /\ work # <<>> /\ Head(work).do = "visit" /\ s # Null /\ heap' = heap /\ died' = FALSE
      /\ work' = front \o Tail(work)
  BY DEF handle_node, Todo, Optimizing
<1>2. s \in DOMAIN heap /\ s \in Reached(m) /\ s = Head(work).node
  BY <1>1, Heading DEF Subject
<1>3. Ahead(m, heap, s, front)
  BY <1>2, FrontIsFront
<1> HIDE DEF front, s
<1>4. Remaining(m, heap, front \o Tail(work))
  <2>1. Remaining(m, heap, work)
    BY DEF Optimizing
  <2> QED BY <1>1, <1>2, <1>3, <2>1, VisitDone
<1>5. Remaining(m, heap', work') /\ died' \in BOOLEAN /\ ~died'
  BY <1>1, <1>4
<1> QED BY <1>5 DEF Optimizing

LEMMA NextOptimizing ==
  ASSUME NEW m, Sound(m), Optimizing(m), OptimizerStep PROVE Optimizing(m)'
BY StepHandleNode, StepCheckConstant, StepFold, StepKeepOperator, StepDies DEF OptimizerStep

(* When nothing is left to do. *)
Optimal(m, h) ==
  Shaped(m, h) /\ Null \notin Reached(m) /\ \A n \in Reached(m) : Settled(m.nodes, h, n)

LEMMA OptimizingEnds ==
  ASSUME NEW m, Sound(m), Optimizing(m), work = <<>>
  PROVE  ~died /\ Optimal(m, heap)
<1>1. ~died /\ Shaped(m, heap) /\ Covered(m, heap, <<>>)
  BY DEF Optimizing, Remaining
<1>2. Encloses(heap, <<>>, {})
  BY DEF Encloses
<1>3. \A n \in Reached(m) : n # Null /\ Settled(m.nodes, heap, n)
  BY <1>1, <1>2 DEF Covered
<1> QED BY <1>1, <1>3 DEF Optimal

-----------------------------------------------------------------------------
(* The stages of the pipeline *)

Compiling ==
  /\ phase \in {"resolve", "parse", "optimize", "done"}
  /\ file \in Loaded /\ left \subseteq imports
  /\ phase = "resolve" => left = {} /\ modules = <<>>
  /\ phase \in {"resolve", "parse"} => OptimizerIdle
  /\ phase # "parse" => Idle
  /\ phase \in {"parse", "optimize"} => file \notin left
  /\ phase = "parse" => TreeInv /\ DOMAIN modules = Loaded \ (left \cup {file})
  /\ phase \in {"optimize", "done"} => DOMAIN modules = Loaded
  /\ \A p \in DOMAIN modules : Sound(modules[p])
  /\ phase = "optimize" =>
       /\ Remaining(modules[file], heap, work)
       /\ died \in BOOLEAN /\ (died => work # <<>> /\ Cause(modules[file], heap))
       /\ \A p \in Loaded : p \notin left \cup {file} => Optimal(modules[p], modules[p].folded)
  /\ phase = "done" =>
       /\ ~died /\ work = <<>> /\ Shaped(modules[file], heap)
       /\ \A p \in Loaded : Optimal(modules[p], modules[p].folded)

LEMMA InitCompiling == PipelineInit => Compiling
<1> SUFFICES ASSUME PipelineInit PROVE Compiling
  OBVIOUS
<1>1. /\ phase = "resolve" /\ file = Main /\ left = {} /\ modules = <<>> /\ Idle /\ OptimizerIdle
  BY DEF PipelineInit
<1>2. Main \in Loaded /\ DOMAIN modules = {}
  BY <1>1 DEF Loaded
<1> QED BY <1>1, <1>2 DEF Compiling

(* What the parser hands on. *)
LEMMA ParsedIsSound ==
  ASSUME ParserInv, TreeInv, NEW m, m = [nodes |-> nodes, tree |-> tree, folded |-> nodes]
  PROVE  Sound(m)
<1>1. IsSeq(nodes) /\ IsSeq(tree) /\ \A i \in DOMAIN tree : tree[i] \in DOMAIN nodes
  BY DEF ParserInv, Sequences, TreeOfNodes
<1>2. \A n \in DOMAIN nodes : Made(nodes[n], n - 1, Len(tokens), nodes)
  BY DEF TreeInv, NodesMade
<1>3. m.nodes = nodes /\ m.tree = tree /\ m.folded = nodes
  OBVIOUS
<1> QED BY <1>1, <1>2, <1>3 DEF Sound, Made, InRange

(* What is folded is no part of what a module means. *)
LEMMA SameModule ==
  ASSUME NEW m, Sound(m), NEW h, NEW e, e = [m EXCEPT !.folded = h]
  PROVE  /\ Sound(e) /\ e.folded = h
         /\ Optimal(m, h) => Optimal(e, h)
<1>1. /\ e.nodes = m.nodes /\ e.tree = m.tree /\ e.folded = h
      /\ e = [nodes |-> m.nodes, tree |-> m.tree, folded |-> h]
  BY DEF Sound
<1>2. Reached(e) = Reached(m)
  BY <1>1, ReachedIsIn
<1>3. Sound(e)
  BY <1>1 DEF Sound
<1>4. Optimal(m, h) => Optimal(e, h)
  BY <1>1, <1>2 DEF Optimal, Shaped
<1> QED BY <1>1, <1>3, <1>4

LEMMA WithModuleFacts ==
  ASSUME NEW ms, ms = WithModule, file \notin DOMAIN modules
  PROVE  /\ DOMAIN ms = DOMAIN modules \cup {file}
         /\ ms[file] = [nodes |-> nodes, tree |-> tree, folded |-> nodes]
         /\ \A p \in DOMAIN modules : ms[p] = modules[p]
  BY DEF WithModule

LEMMA NextCompiling ==
  Resolution /\ Parsing /\ Compiling /\ [PipelineNext]_pipelineVars => Compiling'
<1> SUFFICES ASSUME Resolution, Parsing, Compiling, [PipelineNext]_pipelineVars PROVE Compiling'
  OBVIOUS
<1>1. imports \subseteq Source /\ Main \notin imports /\ Main \in Source
  BY ContextAssumption DEF Resolution, IInv, ContextTypeOK, Source
<1>2. ASSUME UNCHANGED vars PROVE imports' = imports /\ Loaded' = Loaded /\ calls' = calls
  BY <1>2 DEF vars, Loaded
<1>3. ASSUME NEW p \in Source, calls = <<>>, Begin(Stream(p)) PROVE TreeInv'
  <2>1. Stream(p) = texts[p] /\ IsSeq(texts[p])
    BY <1>3, StreamsAreFull, TextsAreSequences DEF Parsing
  <2>2. Begin(texts[p])
    BY <1>3, <2>1
  <2> QED BY <2>1, <2>2, TreeBegin
<1>4. CASE ResolveImports
  <2>1. /\ phase = "resolve" /\ phase' = "resolve" /\ file' = file /\ left' = left /\ modules' = modules
        /\ UNCHANGED <<parserVars, optimizerVars>>
    BY <1>4 DEF ResolveImports
  <2>2. file = Main /\ left = {} /\ modules = <<>> /\ Idle /\ OptimizerIdle
    BY <2>1 DEF Parsing, Compiling
  <2>3. Idle' /\ OptimizerIdle'
    BY <2>1, <2>2 DEF parserVars, optimizerVars, Idle, OptimizerIdle
  <2>4. Main \in Loaded' /\ DOMAIN modules' = {}
    BY <2>1, <2>2 DEF Loaded
  <2> QED BY <2>1, <2>2, <2>3, <2>4 DEF Compiling
<1>5. CASE StartParsing
  <2>1. /\ phase = "resolve" /\ phase' = "parse" /\ left' = imports /\ calls = <<>>
        /\ Begin(Stream(Main)) /\ UNCHANGED <<vars, optimizerVars, file, modules>>
    BY <1>5 DEF StartParsing
  <2>2. file = Main /\ modules = <<>> /\ OptimizerIdle
    BY <2>1 DEF Parsing, Compiling
  <2>3. OptimizerIdle' /\ TreeInv'
    BY <1>1, <1>3, <2>1, <2>2 DEF optimizerVars, OptimizerIdle
  <2>4. imports' = imports /\ Loaded' = Loaded
    BY <1>2, <2>1
  <2>5. Main \in Loaded /\ Loaded \ (imports \cup {Main}) = {} /\ DOMAIN modules' = {}
    BY <2>1, <2>2 DEF Loaded
  <2> QED BY <1>1, <2>1, <2>2, <2>3, <2>4, <2>5 DEF Compiling
<1>6. CASE Parse
  <2>1. /\ phase = "parse" /\ phase' = "parse" /\ ParserStep
        /\ UNCHANGED <<vars, optimizerVars, file, left, modules>>
    BY <1>6 DEF Parse
  <2>2. OptimizerIdle' /\ TreeInv'
    <3>1. OptimizerIdle /\ TreeInv /\ ParserInv
      BY <2>1 DEF Compiling, Parsing
    <3> QED BY <2>1, <3>1, NextTreeInv DEF optimizerVars, OptimizerIdle
  <2>3. imports' = imports /\ Loaded' = Loaded
    BY <1>2, <2>1
  <2> QED BY <2>1, <2>2, <2>3 DEF Compiling
<1>7. CASE \E p \in Source : ParseNext(p)
  <2> PICK p \in Source : ParseNext(p)
    BY <1>7
  <2>1. /\ phase = "parse" /\ phase' = "parse" /\ p \in left /\ modules' = WithModule
        /\ file' = p /\ left' = left \ {p} /\ Begin(Stream(p)) /\ UNCHANGED <<vars, optimizerVars>>
    BY DEF ParseNext
  <2>2. /\ TreeInv /\ ParserInv /\ OptimizerIdle /\ calls = <<>> /\ file \notin left /\ file \in Loaded
        /\ DOMAIN modules = Loaded \ (left \cup {file}) /\ left \subseteq imports
        /\ \A q \in DOMAIN modules : Sound(modules[q])
    BY <2>1 DEF Compiling, Parsing
  <2>3. imports' = imports /\ Loaded' = Loaded /\ OptimizerIdle' /\ TreeInv'
    BY <1>2, <1>3, <2>1, <2>2 DEF optimizerVars, OptimizerIdle
  <2>4. PICK ms : ms = WithModule
    OBVIOUS
  <2>5. /\ DOMAIN ms = DOMAIN modules \cup {file}
        /\ ms[file] = [nodes |-> nodes, tree |-> tree, folded |-> nodes]
        /\ \A q \in DOMAIN modules : ms[q] = modules[q]
    BY <2>2, <2>4, WithModuleFacts
  <2>6. \A q \in DOMAIN ms : Sound(ms[q])
    BY <2>2, <2>5, ParsedIsSound
  <2>7. DOMAIN ms = Loaded \ (left' \cup {p}) /\ p \in Loaded
    BY <2>1, <2>2, <2>5 DEF Loaded
  <2>8. modules' = ms
    BY <2>1, <2>4
  <2> QED BY <2>1, <2>2, <2>3, <2>6, <2>7, <2>8 DEF Compiling
<1>8. CASE StartOptimizing
  <2>1. /\ phase = "parse" /\ phase' = "optimize" /\ left = {} /\ modules' = WithModule
        /\ file' = Main /\ left' = imports /\ optimize(modules'[Main]) /\ End /\ UNCHANGED vars
    BY <1>8 DEF StartOptimizing
  <2>2. /\ TreeInv /\ ParserInv /\ OptimizerIdle /\ file \in Loaded
        /\ DOMAIN modules = Loaded \ {file}
        /\ \A q \in DOMAIN modules : Sound(modules[q])
    BY <2>1 DEF Compiling, Parsing
  <2>3. imports' = imports /\ Loaded' = Loaded /\ Idle'
    BY <1>2, <2>1 DEF End, Holds, Idle
  <2>4. PICK ms : ms = WithModule
    OBVIOUS
  <2>5. /\ DOMAIN ms = DOMAIN modules \cup {file}
        /\ ms[file] = [nodes |-> nodes, tree |-> tree, folded |-> nodes]
        /\ \A q \in DOMAIN modules : ms[q] = modules[q]
    BY <2>2, <2>4, WithModuleFacts
  <2>6. (\A q \in DOMAIN ms : Sound(ms[q])) /\ DOMAIN ms = Loaded /\ Main \in Loaded
    BY <2>2, <2>5, ParsedIsSound DEF Loaded
  <2>7. modules' = ms
    BY <2>1, <2>4
  <2>8. PICK m : m = ms[Main]
    OBVIOUS
  <2>9. Optimizing(m)'
    <3>1. optimize(m) /\ Sound(m) /\ died = FALSE
      BY <2>1, <2>2, <2>6, <2>7, <2>8 DEF OptimizerIdle
    <3> QED BY <3>1, Begins
  <2>10. Remaining(m, heap', work') /\ died' \in BOOLEAN /\ (died' => work' # <<>> /\ Cause(m, heap'))
    BY <2>9 DEF Optimizing
  <2>11. \A q \in Loaded' : q \in left' \cup {file'}
    BY <2>1, <2>3 DEF Loaded
  <2> QED BY <1>1, <2>1, <2>3, <2>6, <2>7, <2>8, <2>10, <2>11 DEF Compiling
<1>9. CASE Optimize
  <2>1. /\ phase = "optimize" /\ phase' = "optimize" /\ OptimizerStep
        /\ UNCHANGED <<vars, parserVars, file, left, modules>>
    BY <1>9 DEF Optimize
  <2>2. imports' = imports /\ Loaded' = Loaded /\ Idle'
    BY <1>2, <2>1 DEF Compiling, parserVars, Idle
  <2>3. PICK m : m = modules[file]
    OBVIOUS
  <2>4. Optimizing(m) /\ Sound(m)
    BY <2>1, <2>3 DEF Compiling, Optimizing
  <2>5. Optimizing(m)'
    BY <2>1, <2>4, NextOptimizing
  <2>6. Remaining(m, heap', work') /\ died' \in BOOLEAN /\ (died' => work' # <<>> /\ Cause(m, heap'))
    BY <2>5 DEF Optimizing
  <2>7. modules'[file'] = m
    BY <2>1, <2>3
  <2> QED BY <2>1, <2>2, <2>6, <2>7 DEF Compiling
<1>10. ASSUME Optimized, NEW ms, ms = [modules EXCEPT ![file].folded = heap]
       PROVE  /\ file \in Loaded /\ DOMAIN modules = Loaded /\ DOMAIN ms = Loaded
              /\ ~died /\ died \in BOOLEAN /\ work = <<>> /\ Idle /\ left \subseteq imports
              /\ Optimal(ms[file], heap)
              /\ \A q \in Loaded : q # file => ms[q] = modules[q]
              /\ \A q \in Loaded : Sound(ms[q])
              /\ \A q \in Loaded : q \notin left => Optimal(ms[q], ms[q].folded)
  <2> DEFINE m == modules[file]
  <2>1. /\ file \in Loaded /\ DOMAIN modules = Loaded /\ Sound(m) /\ Optimizing(m) /\ work = <<>>
        /\ died \in BOOLEAN /\ Idle /\ left \subseteq imports
        /\ \A q \in Loaded : Sound(modules[q])
        /\ \A q \in Loaded : q \notin left \cup {file} => Optimal(modules[q], modules[q].folded)
    BY <1>10 DEF Optimized, Compiling, Optimizing
  <2>2. ~died /\ Optimal(m, heap)
    BY <2>1, OptimizingEnds
  <2>3. /\ DOMAIN ms = Loaded /\ ms[file] = [m EXCEPT !.folded = heap]
        /\ \A q \in Loaded : q # file => ms[q] = modules[q]
    BY <1>10, <2>1
  <2> HIDE DEF m
  <2>4. Sound(ms[file]) /\ ms[file].folded = heap /\ Optimal(ms[file], heap)
    BY <2>1, <2>2, <2>3, SameModule
  <2>5. \A q \in Loaded : Sound(ms[q])
    BY <2>1, <2>3, <2>4
  <2>6. \A q \in Loaded : q \notin left => Optimal(ms[q], ms[q].folded)
    BY <2>1, <2>3, <2>4
  <2> QED BY <2>1, <2>2, <2>3, <2>4, <2>5, <2>6
<1>11. CASE \E p \in Source : OptimizeNext(p)
  <2> PICK p \in Source : OptimizeNext(p)
    BY <1>11
  <2>1. /\ phase = "optimize" /\ phase' = "optimize" /\ Optimized /\ p \in left /\ file' = p
        /\ left' = left \ {p} /\ modules' = [modules EXCEPT ![file].folded = heap]
        /\ optimize(modules[p]) /\ UNCHANGED <<vars, parserVars>>
    BY DEF OptimizeNext, Optimized
  <2>2. file \notin left
    BY <2>1 DEF Compiling
  <2>3. PICK ms : ms = [modules EXCEPT ![file].folded = heap]
    OBVIOUS
  <2>4. /\ DOMAIN modules = Loaded /\ DOMAIN ms = Loaded /\ ~died /\ Idle /\ left \subseteq imports
        /\ \A q \in Loaded : q # file => ms[q] = modules[q]
        /\ \A q \in Loaded : Sound(ms[q])
        /\ \A q \in Loaded : q \notin left => Optimal(ms[q], ms[q].folded)
        /\ died \in BOOLEAN
    BY <1>10, <2>1, <2>3
  <2>5. imports' = imports /\ Loaded' = Loaded /\ Idle'
    BY <1>2, <2>1, <2>4 DEF parserVars, Idle
  <2>6. p \in Loaded /\ ms[p] = modules[p]
    BY <2>1, <2>2, <2>4 DEF Loaded
  <2>7. PICK m : m = ms[p]
    OBVIOUS
  <2>8. Optimizing(m)'
    <3>1. Sound(m) /\ optimize(m) /\ died = FALSE
      BY <2>1, <2>4, <2>6, <2>7
    <3> QED BY <3>1, Begins
  <2>9. Remaining(m, heap', work') /\ died' \in BOOLEAN /\ (died' => work' # <<>> /\ Cause(m, heap'))
    BY <2>8 DEF Optimizing
  <2>10. modules' = ms
    BY <2>1, <2>3
  <2>11. \A q \in Loaded : q \notin left' \cup {p} => Optimal(ms[q], ms[q].folded)
    BY <2>1, <2>4
  <2> QED BY <2>1, <2>4, <2>5, <2>6, <2>7, <2>9, <2>10, <2>11 DEF Compiling
<1>12. CASE Finish
  <2>1. /\ phase' = "done" /\ Optimized /\ left = {} /\ modules' = [modules EXCEPT ![file].folded = heap]
        /\ UNCHANGED <<vars, parserVars, optimizerVars, file, left>>
    BY <1>12 DEF Finish
  <2>2. PICK ms : ms = [modules EXCEPT ![file].folded = heap]
    OBVIOUS
  <2>3. /\ file \in Loaded /\ DOMAIN ms = Loaded /\ ~died /\ work = <<>> /\ Idle
        /\ Optimal(ms[file], heap)
        /\ \A q \in Loaded : Sound(ms[q])
        /\ \A q \in Loaded : Optimal(ms[q], ms[q].folded)
    BY <1>10, <2>1, <2>2
  <2>4. imports' = imports /\ Loaded' = Loaded /\ Idle' /\ ~died' /\ work' = <<>> /\ heap' = heap
    BY <1>2, <2>1, <2>3 DEF parserVars, optimizerVars, Idle
  <2>5. Shaped(ms[file], heap)
    BY <2>3 DEF Optimal
  <2>6. modules' = ms
    BY <2>1, <2>2
  <2> QED BY <2>1, <2>3, <2>4, <2>5, <2>6 DEF Compiling
<1>13. CASE UNCHANGED pipelineVars
  <2>1. /\ UNCHANGED <<vars, parserVars, optimizerVars>> /\ UNCHANGED parserVars
        /\ UNCHANGED <<phase, file, left, modules, heap, work, died>>
    BY <1>13 DEF pipelineVars, optimizerVars
  <2>2. imports' = imports /\ Loaded' = Loaded
    BY <1>2, <2>1
  <2>3. (Idle => Idle') /\ (OptimizerIdle => OptimizerIdle')
    BY <2>1 DEF parserVars, optimizerVars, Idle, OptimizerIdle
  <2>4. phase = "parse" => TreeInv'
    BY <2>1, NextTreeInv DEF Compiling, Parsing
  <2> QED BY <2>1, <2>2, <2>3, <2>4 DEF Compiling
<1> QED BY <1>4, <1>5, <1>6, <1>7, <1>8, <1>9, <1>11, <1>12, <1>13 DEF PipelineNext

-----------------------------------------------------------------------------
(* Its properties *)

LEMMA CompilingTypes == Parsing /\ Compiling => PipelineTypeOK
<1> SUFFICES ASSUME Parsing, Compiling PROVE PipelineTypeOK
  OBVIOUS
<1>1. ParserTypeOK
  <2>1. CASE phase = "parse"
    BY <2>1, ParserTypes DEF Parsing, Compiling
  <2>2. CASE phase # "parse"
    <3>1. Idle
      BY <2>2 DEF Compiling
    <3> QED BY <3>1, NoKids DEF Idle, ParserTypeOK
  <2> QED BY <2>1, <2>2
<1>2. /\ \A n \in DOMAIN heap : heap[n].kind \in Kind /\ WellFormed(heap[n], n - 1)
      /\ \A i \in DOMAIN work : work[i].node \in 0 .. Len(heap)
  <2>1. CASE phase \in {"resolve", "parse"}
    <3>1. heap = <<>> /\ work = <<>>
      BY <2>1 DEF Compiling, OptimizerIdle
    <3> QED BY <3>1, NoKids
  <2>2. CASE phase \in {"optimize", "done"}
    <3> PICK m : m = modules[file]
      OBVIOUS
    <3>1. Sound(m) /\ Shaped(m, heap)
      BY <2>2 DEF Compiling, Remaining
    <3>2. \A i \in DOMAIN work : work[i].node \in 0 .. Len(heap)
      <4>1. CASE phase = "done"
        BY <4>1, NoKids DEF Compiling
      <4>2. CASE phase = "optimize"
        <5>1. \A i \in DOMAIN work : work[i].node \in Reached(m)
          BY <4>2 DEF Compiling, Remaining, Due
        <5> QED BY <3>1, <5>1, SoundFacts DEF Shaped
      <4> QED BY <2>2, <4>1, <4>2
    <3> QED BY <3>1, <3>2, HeapNode
  <2> QED BY <2>1, <2>2 DEF Compiling
<1>3. DOMAIN modules \subseteq Loaded
  <2>1. CASE phase = "resolve"
    BY <2>1 DEF Compiling
  <2>2. CASE phase # "resolve"
    BY <2>2 DEF Compiling
  <2> QED BY <2>1, <2>2
<1> QED BY <1>1, <1>2, <1>3 DEF PipelineTypeOK, Compiling

LEMMA CompilingNests == Compiling => SpansNest
<1> SUFFICES ASSUME Compiling PROVE SpansNest
  OBVIOUS
<1>1. CASE phase = "parse"
  BY <1>1, NodesNest DEF Compiling, TreeInv
<1>2. CASE phase # "parse"
  BY <1>2, NoKids DEF Compiling, Idle, SpansNest
<1> QED BY <1>1, <1>2

LEMMA CompilingDies == Compiling => DiesForACause
<1> SUFFICES ASSUME Compiling PROVE DiesForACause
  OBVIOUS
<1>1. ASSUME died PROVE Cause(modules[file], heap)
  <2>1. phase = "optimize"
    BY <1>1 DEF Compiling, OptimizerIdle
  <2> QED BY <1>1, <2>1 DEF Compiling
<1>2. ASSUME phase = "done", NEW p \in DOMAIN modules
      PROVE  /\ Null \notin Reached(modules[p])
             /\ Reached(modules[p]) \cap Deadly(modules[p].nodes, modules[p].folded) = {}
  <2>1. Optimal(modules[p], modules[p].folded)
    BY <1>2 DEF Compiling
  <2>2. ASSUME NEW n \in Reached(modules[p]), n \in Deadly(modules[p].nodes, modules[p].folded)
        PROVE  FALSE
    <3>1. Settled(modules[p].nodes, modules[p].folded, n)
      BY <2>1 DEF Optimal
    <3> QED BY <2>2, <3>1 DEF Settled, Harmless, Deadly
  <2> QED BY <2>1, <2>2 DEF Optimal
<1> QED BY <1>1, <1>2 DEF DiesForACause, Cause

LEMMA CompilingKeepsValues == Compiling => OptimizedMeansTheSame
<1> SUFFICES ASSUME Compiling, phase = "done", NEW p \in DOMAIN modules, NEW n \in Reached(modules[p])
             PROVE  /\ Meaning(modules[p].nodes)[n].constant <=> modules[p].folded[n].kind \in NumberKinds
                    /\ Meaning(modules[p].nodes)[n].value # <<>> =>
                         /\ modules[p].folded[n].kind \in {"ExpressionNat", "ExpressionInt"}
                         /\ Signed(modules[p].folded[n].val) = Meaning(modules[p].nodes)[n].value[1]
  BY DEF OptimizedMeansTheSame
<1>1. Settled(modules[p].nodes, modules[p].folded, n)
  BY DEF Compiling, Optimal
<1> QED BY <1>1 DEF Settled

PipelineInv == Resolution /\ Parsing /\ Compiling

LEMMA InitPipelineInv == PipelineInit => PipelineInv
  BY InitResolution, InitParsing, InitCompiling DEF PipelineInv

LEMMA NextPipelineInv == PipelineInv /\ [PipelineNext]_pipelineVars => PipelineInv'
  BY NextResolution, NextParsing, NextCompiling DEF PipelineInv

(* The parser's tables, rows and tokens, its tree and the optimizer's work *)
(* are what their types say, whatever is parsed: every node has the        *)
(* children syntax_tree.h gives it, null only where one may be left out,   *)
(* also after folding.                                                     *)
THEOREM PipelineTypes == PipelineSpec => []PipelineTypeOK
<1>1. PipelineInv => PipelineTypeOK
  BY CompilingTypes DEF PipelineInv
<1> QED BY <1>1, InitPipelineInv, NextPipelineInv, PTL DEF PipelineSpec

(* The optimizer ends the process for a null child that is visited or for  *)
(* an operator without a value whose operands are number literals or were  *)
(* folded to some, in the module it is at, and for no other cause; and it  *)
(* gets through no module with one of these.                               *)
THEOREM OptimizerDiesForACause == PipelineSpec => []DiesForACause
<1>1. PipelineInv => DiesForACause
  BY CompilingDies DEF PipelineInv
<1> QED BY <1>1, InitPipelineInv, NextPipelineInv, PTL DEF PipelineSpec

(* Exactly the operators of number literals are folded, through any        *)
(* nesting, and to a literal of the value the machine computes wherever    *)
(* one is claimed: of sums, differences and products, and of quotients and *)
(* remainders of what is not negative, a quotient being one that a double  *)
(* holds.  This for every width of an integer and precision of a double.   *)
THEOREM FoldingKeepsValues == PipelineSpec => []OptimizedMeansTheSame
<1>1. PipelineInv => OptimizedMeansTheSame
  BY CompilingKeepsValues DEF PipelineInv
<1> QED BY <1>1, InitPipelineInv, NextPipelineInv, PTL DEF PipelineSpec

===============================================================================
