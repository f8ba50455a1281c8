----------------------------- MODULE MCBytecodeFile -----------------------------
(***************************************************************************)
(* BytecodeFile with bytes of three bits and numbers of one or two bytes:  *)
(* programs that hold every type of value, also next to the end of a       *)
(* section, reals that lose their last digit, and a real and an object     *)
(* that the file cannot hold.                                              *)
(***************************************************************************)
EXTENDS BytecodeFile

MCTag ==
  [T_VOID |-> 0, T_BOOL |-> 1, T_INT |-> 2, T_REAL |-> 3, T_CHAR |-> 4, T_STR |-> 5, T_OBJ |-> 6,
   O_STRING |-> 2, O_FUNCTION |-> 3]

Val(type, data) == [type |-> type, data |-> data]
Prog(bytes, rod, stb) == [bytes |-> bytes, rod |-> rod, stb |-> stb]

MCHeader == <<6, 1>>
MCFooter == <<6, 2>>

MCPrograms ==
  { Prog(<<>>, <<>>, <<>>),
    Prog(<<1, 7, 0>>, <<>>, <<<<1, 5>>, <<>>, <<7>>>>),
    Prog(<<2, 2>>, <<Val("T_INT", <<-3>>), Val("T_VOID", <<>>)>>, <<<<3>>>>),
    Prog(<<4>>, <<Val("T_STR", <<2, 6>>), Val("T_STR", <<>>), Val("T_BOOL", <<1>>)>>, <<>>),
    Prog(<<>>, <<Val("T_CHAR", <<20>>), Val("T_REAL", <<2 * 200 + 126>>)>>, <<<<2>>, <<2>>>>),
    Prog(<<5>>, <<Val("T_OBJ", <<3, 4, 0, 1>>), Val("T_OBJ", <<3>>)>>, <<<<1>>>>),
    Prog(<<6>>, <<Val("T_REAL", <<200 + 125>>), Val("T_REAL", <<-1>>)>>, <<>>),
    Prog(<<0>>, <<Val("T_REAL", <<-100>>)>>, <<<<1>>>>),
    Prog(<<0>>, <<Val("T_REAL", <<128>>), Val("T_OBJ", <<2>>)>>, <<>>) }
===============================================================================
