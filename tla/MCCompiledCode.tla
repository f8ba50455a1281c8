----------------------------- MODULE MCCompiledCode -----------------------------
(***************************************************************************)
(* CompiledCode for expressions of two levels of operators over literals,  *)
(* for statements around them, and for every width of a literal's id.      *)
(***************************************************************************)
EXTENDS CompiledCode

CONSTANTS Orderings   \* the comparisons in the trees

Leaf(kind, val) == Tree(kind, val, <<>>)
Bools == {Leaf("bool", BOOL_VAL(b)) : b \in BOOLEAN}
Ints == {Leaf("int", INT_VAL(n)) : n \in {0, 2}}
Undefined == Leaf("identifier", Nothing)

Unary(names, es) == {Tree(o, Nothing, <<e>>) : o \in names, e \in es}
Binary(names, es, fs) == {Tree(o, Nothing, <<e, f>>) : o \in names, e \in es, f \in fs}

Void == Leaf("void", VOID_VAL)
Atoms == Bools \cup Ints \cup {Void}
Conditions ==
  Atoms \cup Unary({"NOT", "NEG"}, Ints \cup {Void}) \cup Unary({"NOT"}, Bools)
        \cup Binary({"AND", "OR"}, Bools, Atoms) \cup Binary(Orderings, Ints, Ints)
Expressions ==
  Conditions \cup Binary({"AND", "OR"}, Conditions, Bools \cup Binary({"AND", "OR"}, Bools, Ints))
             \cup Unary({"NOT"}, Conditions)

Evaluated(e) == Tree("expression", Nothing, <<e>>)
Simple ==
  {Leaf("empty", Nothing)}
    \cup {Evaluated(e) : e \in Ints \cup {Undefined} \cup Binary({"OR"}, Bools, {Undefined, Leaf("int", INT_VAL(2))})}

Tests == Bools \cup Ints \cup Binary({"AND", "OR"}, Bools, Bools)
Ifs == {Tree("if", Nothing, <<e, s>>) : e \in Tests, s \in Simple}
         \cup {Tree("if", Nothing, <<e, s, t>>) : e \in Tests, s \in Simple, t \in Simple}
Whiles(tests) ==
  {Tree("while", Nothing, <<e, s>>) :
     e \in tests, s \in Simple \cup {Tree("if", Nothing, <<f, s>>) : f \in Bools, s \in Simple}}
Blocks == {Tree("block", Nothing, <<s, t>>) : s \in Simple, t \in Simple \cup Whiles(Bools)}

MCTrees == Expressions \cup Ifs \cup Whiles(Tests) \cup Blocks
MCLess == Binary(Orderings, Ints, Ints)
           \cup Binary({"AND"}, Binary(Orderings, Ints, Ints), Binary(Orderings, Ints, Ints))

(* 0 to 4 * (Byte - 1) entries of other code. *)
MCRodata == {[i \in 1 .. k * (Byte - 1) |-> INT_VAL(100 + i)] : k \in {0, 1, 2, 3}}
===============================================================================
