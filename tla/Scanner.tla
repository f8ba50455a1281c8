-------------------------------- MODULE Scanner --------------------------------
(***************************************************************************)
(* The scanner (source/silk/language/scanner.cxx): which token scan()      *)
(* reads from a position of a text.  A text is a sequence of units: a      *)
(* symbol, a blank or a newline is a unit of its own, a run of digits is   *)
(* one unit and so is a run of letters and digits that begins with a       *)
(* letter; but the character behind a double quote is a unit of its own in *)
(* every text, and units of a run that follow each other are one run.  A   *)
(* keyword's kind is the word and a symbol's kind is its spelling (both in *)
(* include/silk/language/token.h); the others have the names of TokenKind. *)
(***************************************************************************)
EXTENDS Naturals, Sequences, FiniteSetsExt

CONSTANTS
  Digits,    \* the runs of digits in the texts
  Words      \* the other runs of letters and digits in them

keywords ==
  {"main", "pkg", "use", "fun", "enum", "obj", "priv", "dll", "macro", "let", "def", "const",
   "return", "switch", "break", "continue", "if", "else", "while", "loop", "for", "foreach",
   "match", "and", "or", "not", "true", "false", "void", "pi", "tau", "eul"}

Blank == {" ", "\n"}
Alnum == Digits \cup Words
EOF == "<eof>"
CharQuote == "\""

(* What peek() sees at i. *)
Unit(text, i) == IF i <= Len(text) THEN text[i] ELSE EOF

(* The end of the run of units of S that begins at i, if any does.         *)
RunEnd(text, i, S) == Min({j \in i .. Len(text) + 1 : Unit(text, j) \notin S})

(* The first position from i on that holds u, or the end of the text.      *)
Find(text, i, u) == Min({j \in i .. Len(text) + 1 : Unit(text, j) \in {u, EOF}})

(* A token, and the units [lo, hi) of the text it was read from; the       *)
(* stream stands at hi behind it.                                          *)
Token(kind, lo, hi) == [kind |-> kind, lo |-> lo, hi |-> hi]

-----------------------------------------------------------------------------
(* The symbols: what one character may begin, and what more characters     *)
(* make of it.  Each step of the nested switches looks one character       *)
(* ahead, so every prefix of a symbol is one, and finds none behind the    *)
(* end of the text.                                                        *)

Simple == {",", ";", "(", ")", "[", "]", "{", "}", "+", "-", "/", "*", "%", "=", "!", ">", "<",
           "&", "|", "~", "^", "?", "@", "_", ".", ":", "$"}

(* No character of a run is one of the others. *)
ASSUME ScannerAssumption ==
  /\ Digits \cap Words = {}
  /\ Alnum \cap (Simple \cup Blank \cup {CharQuote, "'", "#", EOF}) = {}

Compound ==
  {"++", "++=", "+=", "--", "--=", "-=", "->", "//", "//=", "/=", "**", "**=", "*=",
   "%%", "%%=", "%=", "==", "===", "=>", "!!", "!!=", "!=",
   ">>", ">>>", ">>>=", ">>=", ">=", "<<", "<<<", "<<<=", "<<=", "<=", "<-",
   "&&", "||", "~~", "^^", "??", "@@", "__", "..", "...", ".{", "::", ":{", "$$", "${"}

Spelling(text, i) ==
  LET two == text[i] \o Unit(text, i + 1)
      three == two \o Unit(text, i + 2)
      four == three \o Unit(text, i + 3)
  IN  <<text[i], two, three, four>>

scan_symbol(text, i) ==
  LET s == Spelling(text, i)
      n == Max({k \in 1 .. 4 : \A m \in 2 .. k : i + m <= Len(text) + 1 /\ s[m] \in Compound})
  IN  Token(s[n], i, i + n)

-----------------------------------------------------------------------------
(* A comment takes the newline with it. *)
scan_comment(text, i) ==
  LET nl == Find(text, i + 1, "\n") IN
    Token("COMMENT", i, IF nl <= Len(text) THEN nl + 1 ELSE nl)

(* The character behind the quote; there is no closing one.                *)
scan_char(text, i) ==
  Token("LITERAL_CHAR", i, IF i < Len(text) THEN i + 2 ELSE i + 1)

(* A string ends at the next quote or, without a report, with the text.    *)
scan_string(text, i) ==
  LET q == Find(text, i + 1, "'") IN
    Token("LITERAL_STRING", i, IF q <= Len(text) THEN q + 1 ELSE q)

(* A number with a dot is real whatever follows the dot; `-` is part of    *)
(* it if a digit follows, also behind an operand.                          *)
scan_number(text, i) ==
  LET whole == RunEnd(text, i + 1, Digits)
      dotted == text[i] # "." /\ Unit(text, whole) = "."
      kind == CASE dotted \/ text[i] = "." -> "LITERAL_REAL"
                [] text[i] = "-"           -> "LITERAL_INT"
                [] OTHER                   -> "LITERAL_NAT"
  IN  Token(kind, i, IF dotted THEN RunEnd(text, whole + 1, Digits) ELSE whole)

(* Whatever no other case takes begins an identifier. *)
scan_identifier(text, i) ==
  LET end == RunEnd(text, i + 1, Alnum) IN
    Token(IF end = i + 1 /\ text[i] \in keywords THEN text[i] ELSE "IDENTIFIER", i, end)

scan(text, from) ==
  LET i == RunEnd(text, from, Blank)
      c == Unit(text, i)
      digits == Unit(text, i + 1) \in Digits
  IN  CASE c = EOF -> Token("TOK_END", i, i)
        [] c = CharQuote -> scan_char(text, i)
        [] c = "'" -> scan_string(text, i)
        [] c = "#" /\ Unit(text, i + 1) = "{" -> Token("#{", i, i + 2)
        [] c = "#" /\ Unit(text, i + 1) # "{" -> scan_comment(text, i)
        [] c \in Digits \/ (c \in {"-", "."} /\ digits) -> scan_number(text, i)
        [] c \in Simple /\ ~(c \in {"-", "."} /\ digits) -> scan_symbol(text, i)
        [] OTHER -> scan_identifier(text, i)
===============================================================================
