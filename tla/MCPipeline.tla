------------------------------ MODULE MCPipeline ------------------------------
(***************************************************************************)
(* Pipeline over packages of up to four sources that import each other, a  *)
(* missing one and themselves, and over single sources: every expression   *)
(* of three operands, every short row of tokens, and programs that use     *)
(* each production once, whole or with one token taken out or replaced.    *)
(***************************************************************************)
EXTENDS Pipeline

CONSTANT MaxUses   \* bound: imports of the main source; the others have one less

MCDigits == {"0", "1", "2", "3", "9", "99"}
MCNumber == [d \in MCDigits |-> CASE d = "0" -> 0 [] d = "1" -> 1 [] d = "2" -> 2
                                  [] d = "3" -> 3 [] d = "9" -> 9 [] d = "99" -> 99]
MCWords == keywords \cup {"main", "a", "b", "c", "e", "f", "i", "missing"}

-----------------------------------------------------------------------------
(* Texts, written as their tokens *)

UnitsOf(w) ==
  CASE w = "=>" -> <<"=", ">">>
    [] w = "<-" -> <<"<", "-">>
    [] w = "::" -> <<":", ":">>
    [] w = "==" -> <<"=", "=">>
    [] w = "**" -> <<"*", "*">>
    [] w = "//" -> <<"/", "/">>
    [] w = ".." -> <<".", ".">>
    [] w = "+=" -> <<"+", "=">>
    [] w = "#{" -> <<"#", "{">>
    [] w = "${" -> <<"$", "{">>
    [] w = "-2" -> <<"-", "2">>
    [] w = "1.5" -> <<"1", ".", "9">>
    [] w = "'a'" -> <<"'", "a", "'">>
    [] w = "\"c" -> <<"\"", "c">>
    [] OTHER -> <<w>>

Spaced(words) == FlattenSeq([i \in DOMAIN words |-> Append(UnitsOf(words[i]), " ")])
Unspaced(words) == FlattenSeq([i \in DOMAIN words |-> UnitsOf(words[i])])

(* Three operands, one of them with a prefix or in brackets, and a group.  *)
Infixes == {"=", "..", "or", "==", "<", "+", "*", "//", "**", "."}
Expressions ==
  LET ops == Infixes \X Infixes IN
    UNION {{<<"a", o[1], "b", o[2], "c", ";">>,
            <<"-", "a", o[1], "(", "b", o[2], "c", ")", ";">>,
            <<"(", "a", o[1], "b", ")", o[2], "f", "(", "c", ",", "1", ")", ";">>} : o \in ops}

(* Constants of three literals; three more whose quotient a double of two  *)
(* bits holds, or rounds.                                                  *)
Arithmetic == {"+", "-", "*", "//", "%", "**", "/"}
Constants ==
  UNION {{<<"const", "i", "=", l, o, m, p, "9", ";">>,
          <<"const", "i", "=", l, o, "(", m, p, "2", ")", ";">>} :
           <<l, o, m, p>> \in {"1", "-2"} \X Arithmetic \X {"0", "3"} \X Arithmetic}
    \cup {<<"const", "i", "=", "(", "3", "+", r, ")", "//", "1", ";">> : r \in {"1", "2", "3"}}

Odd == {";", "a", "1", "(", ")", "{", "}", "+", "-", ",", "return", "if", "else", "'a'"}
Rows == UNION {[1 .. n -> Odd] : n \in 1 .. 2} \cup [1 .. 3 -> Odd \ {"{", "}", "+", ",", "else", "1"}]

Programs ==
  { <<"main", ";", "pkg", "'a'", ";">>,
    <<"use", "'a'", "/", "a", ",", "b", ";">>,
    <<"fun", "f", "(", "a", "::", "i", ",", "b", ")", "::", "i", "=>", "a", "+", "b">>,
    <<"fun", "f", "{", "return", "a", ";", "return", ";", "}">>,
    <<"enum", "e", "{", "a", ";", "b", "}", "obj", "e", "::", "i", "{", "}">>,
    <<"dll", "'a'", "{", "fun", "f", "(", "a", ")", ";", "}", "macro", "e", "{", "}">>,
    <<"${", "a", ":", "b", ";", "_", ":", "c", ";", "_", ":", ";", "}">>,
    <<"let", "a", "::", "i", "=", "[", "1", ",", "b", ",", "]", ";", "const", "e", "=", "a", ";">>,
    <<"return", "[", "a", "]", "b", ";", "switch", "a", ";", "break", ";">>,
    <<"if", "(", "a", ")", "b", ";", "else", "{", "c", ";", "}", "a", ";">>,
    <<"if", "(", "a", ")", "if", "(", "b", ")", "c", ";", "else", "a", ";">>,
    <<"while", "(", "a", ")", "loop", "{", "continue", ";", "}">>,
    <<"for", "(", "let", "a", "=", "1", ";", "a", "<", "2", ";", "a", "+=", "1", ")", ";">>,
    <<"foreach", "(", "def", "a", "<-", "b", ")", "a", "(", ")", ";">>,
    <<"match", "(", "a", ")", "{", "}", "a", ".", "b", "(", "c", ",", "1", ")", ";">>,
    <<"a", "=", "#{", "1", ":", "2", ",", "b", ":", "c", "}", ";">>,
    <<"a", "=", "fun", "(", "b", ")", "{", "}", ";", "(", ")", ";">>,
    <<"not", "a", "and", "(", "b", ",", "true", ")", "|", "<", "1", ",", ">", ";">>,
    <<"a", "(", "void", ",", "pi", ",", "\"c", ",", "1.5", ")", "%", "return", ";">>,
    <<"a", "..", "99", ";", "[", "'a'", ",", "-2", "]", ";">>,
    <<"#", "a", "\n", "a", ";", "#", "b", "\n", "b", "#", "c", ";", "\n", ";">>,
    <<"1", "<", "2", ";">>,
    <<"(", "a", "+", "b", ",", ")", "*", "c", ";">> }

Without(words, i) == RemoveAt(words, i)
Damaged(words) ==
  {Without(words, i) : i \in DOMAIN words}
    \cup {[words EXCEPT ![i] = w] : i \in DOMAIN words, w \in {";", ")", "a"}}

Singles ==
  {Spaced(w) : w \in Programs \cup UNION {Damaged(w) : w \in Programs} \cup Rows
                       \cup Expressions \cup Constants}
    \cup {Unspaced(<<a, b, c>>) : a, b, c \in {"-", "=", ">", "/", "1", "."}}

-----------------------------------------------------------------------------
(* Packages *)

UseLine(name) == <<"use", " ", "'", name, "'", ";", "\n">>
Indented(name) == <<" ", "use", "'", name, "'", ";", "#", "a", "\n">>
Greedy == <<"use", "'", "a", "'", ";", "use", "'", "b", "'", ";", "\n">>
Imports(n) ==
  UNION {{FlattenSeq([i \in 1 .. k |-> UseLine(t[i])]) :
            t \in [1 .. k -> {"main", "a", "b", "missing"}]} : k \in 0 .. n}

MCDirs == <<"cwd", "include">>
MCExists == {<<"cwd", <<"main">>>>, <<"cwd", <<"a">>>>, <<"include", <<"a">>>>, <<"include", <<"b">>>>}
MCMain == <<"arg", <<"main">>>>

Sources(main, self, a, b) ==
  [p \in Source |-> CASE p = Main -> main
                      [] p = <<"cwd", <<"main">>>> -> self
                      [] p = <<"cwd", <<"a">>>> -> a
                      [] p = <<"include", <<"b">>>> -> b
                      [] OTHER -> UseLine("missing")]

Few == Imports(MaxUses - 1)
MCProjects ==
  {Sources(m, m, a, b) : m \in Imports(MaxUses), a, b \in Few}
    \cup {Sources(t, <<>>, UseLine("b"), Indented("a")) : t \in Singles \cup {Indented("b"), Greedy}}

MCPackages == {[p \in Source |-> import_regex(t[p])] : t \in MCProjects}
MCImport ==
  {<<"main">>, <<"a">>, <<"b">>, <<"missing">>, <<"a", "'", ";", "use", "'", "b">>}
===============================================================================
