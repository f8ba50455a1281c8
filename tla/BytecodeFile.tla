------------------------------ MODULE BytecodeFile ------------------------------
(***************************************************************************)
(* The bytecode file (source/moth/file.c): write_file lays a program out   *)
(* as bytes, read_file makes a program of whatever bytes it finds.  The    *)
(* writer may stop on its way, and one byte of a complete file may change  *)
(* (bound: one fault in a behaviour).  stdio gives the bytes to the disk   *)
(* in order, so a stopped writer leaves a prefix.  The machine is little   *)
(* endian, where SWAP_IF_BIG_ENDIAN does nothing; reals are computed       *)
(* exactly, that a double is rounded is left out.                          *)
(*                                                                         *)
(* A definition X_Y marked Faulty is X with a plausible bug; no            *)
(* specification uses it.  The runs' properties are tested against them.   *)
(***************************************************************************)
EXTENDS Integers, SequencesExt

CONSTANTS
  ByteBits,          \* 8
  Short, Word, Long, Wide,  \* the bytes of uint16_t, uint32_t, int64_t and wchar_t
  header, version, footer,
  Basis, Prime,      \* 2166136261 and 16777619, or what is left of them mod Modulus
  Scale,             \* 10E+10, the units in which a fraction is stored
  Fine,              \* how many steps of a real make one of these units
  Tag,               \* the numbers of ValueType and ObjType
  Programs           \* the programs that may be written

Base == 2 ^ ByteBits
Modulus == Base ^ Word
Byte == 0 .. Base - 1
ValueType == {"T_VOID", "T_BOOL", "T_INT", "T_REAL", "T_CHAR", "T_STR", "T_OBJ"}
O_FUNCTION == Tag["O_FUNCTION"]

(* The data of a value: nothing, a number, the characters of a string, or  *)
(* the type of an object and then the bytes of a function.  A real is its  *)
(* number of steps, of 1/(Scale * Fine).                                   *)
Value == [type : ValueType \cup {"T_?"}, data : Seq(Int)]
Program == [bytes : Seq(Byte), rod : Seq(Value), stb : Seq(Seq(Byte \ {0}))]

(* EOF is 0xFF for fgetc, and no type has that number. *)
ASSUME FileAssumption ==
  /\ {ByteBits, Short, Word, Long, Wide, Scale, Fine} \subseteq Nat \ {0}
  /\ header \in Seq(Byte) /\ footer \in Seq(Byte) /\ header # <<>> /\ footer # <<>>
  /\ version \in 0 .. Base ^ Short - 1
  /\ Prime % 2 = 1
  /\ \A t \in DOMAIN Tag : Tag[t] \in Byte \ {Base - 1}
  /\ \A t, u \in ValueType : Tag[t] = Tag[u] => t = u
  /\ \A p \in Programs :
       /\ p \in Program
       /\ {Len(p.bytes), Len(p.rod), Len(p.stb)} \subseteq 0 .. Modulus - 1

VARIABLES
  program,   \* what is written; never changes
  asks,      \* whether the reader passes an err; never changes
  out,       \* what the writer has written
  written,   \* how many of the values
  disk,      \* what the file holds, or NoFile
  whole,     \* whether all of it got there
  hurt,      \* the position of the byte that changed, or 0
  pc,        \* "head", "values", "tail", "closing", "open", "read", "done", "crashed"
  cur,       \* where the reader stands, and whether feof
  want,      \* the lengths it has read
  prog,      \* the program it has read so far
  err        \* *err, or "none"

writerVars == <<program, asks, out, written, disk, whole, hurt>>
readerVars == <<cur, want, prog, err>>
vars == <<writerVars, pc, readerVars>>

NoFile == <<Base>>

-----------------------------------------------------------------------------
(* Numbers, least byte first *)

Bytes(n, k) == [i \in 1 .. k |-> (n \div Base ^ (i - 1)) % Base]
Unsigned(s) == MapThenSumSet(LAMBDA i : s[i] * Base ^ (i - 1), DOMAIN s)
Signed(s) ==
  LET u == Unsigned(s) IN IF 2 * u >= Base ^ Len(s) THEN u - Base ^ Len(s) ELSE u

Bit(n, i) == (n \div 2 ^ i) % 2
Xor(m, n) == MapThenSumSet(LAMBDA i : IF Bit(m, i) = Bit(n, i) THEN 0 ELSE 2 ^ i,
                           0 .. ByteBits * Word - 1)
Fnv(x, n) == Xor((x * Prime) % Modulus, n)

(* A char is signed, a byte of the program is not. *)
Extended(c) == IF 2 * c >= Base THEN Modulus - Base + c ELSE c

hash(s) == FoldLeft(LAMBDA x, c : Fnv(x, Extended(c)), Basis % Modulus, s)

(* Faulty: the symbols do not count. *)
checksum_CodeOnly(p) == FoldLeft(Fnv, Basis % Modulus, p.bytes)

checksum(p) ==
  FoldLeft(LAMBDA x, s : Fnv(x, hash(s)), FoldLeft(Fnv, Basis % Modulus, p.bytes), p.stb)

-----------------------------------------------------------------------------
(* Writing *)

(* C's modf, and the conversion to uint32_t: it drops what is less than a  *)
(* unit, and of a number that does not fit it is undefined.                *)
Magnitude(u) == IF u < 0 THEN 0 - u ELSE u
Truncated(u, k) == LET q == Magnitude(u) \div k IN IF u < 0 THEN 0 - q ELSE q
Integral(u) == Truncated(u, Scale * Fine)
Fraction(u) == Truncated(u - Scale * Fine * Integral(u), Fine)
Converted(n) == IF n \in 0 .. Modulus - 1 THEN {n} ELSE 0 .. Modulus - 1

write_dbl(u) ==
  {Bytes(i, Word) \o Bytes(f, Word) : i \in Converted(Integral(u)), f \in Converted(Fraction(u))}

write_str(s) == Append(s, 0)

write_obj(data) ==
  IF data[1] = O_FUNCTION THEN <<data[1]>> \o Bytes(Len(data) - 1, Word) \o Tail(data)
                          ELSE <<data[1]>>

Contents(v) ==
  CASE v.type \in {"T_VOID", "T_BOOL"} -> {v.data}
    [] v.type = "T_INT"  -> {Bytes(v.data[1], Long)}
    [] v.type = "T_REAL" -> write_dbl(v.data[1])
    [] v.type = "T_CHAR" -> {Bytes(v.data[1], Wide)}
    [] v.type = "T_STR"  -> {write_str(v.data)}
    [] v.type = "T_OBJ"  -> {write_obj(v.data)}

write_head ==
  /\ pc = "head"
  /\ out' = header \o Bytes(version, Short)
              \o Bytes(Len(program.bytes), Word) \o Bytes(Len(program.rod), Word)
              \o Bytes(Len(program.stb), Word) \o program.bytes
  /\ pc' = "values"
  /\ UNCHANGED <<program, asks, written, disk, whole, hurt, readerVars>>

write_value ==
  /\ pc = "values" /\ written < Len(program.rod)
  /\ LET v == program.rod[written + 1] IN
       \E s \in Contents(v) : out' = out \o <<Tag[v.type]>> \o s
  /\ written' = written + 1
  /\ UNCHANGED <<program, asks, disk, whole, hurt, pc, readerVars>>

Symbols == FlattenSeq([i \in DOMAIN program.stb |-> write_str(program.stb[i])])

write_tail ==
  /\ pc = "values" /\ written = Len(program.rod)
  /\ out' = out \o Symbols \o Bytes(checksum(program), Word) \o footer
  /\ pc' = "closing"
  /\ UNCHANGED <<program, asks, written, disk, whole, hurt, readerVars>>

fclose ==
  /\ pc = "closing"
  /\ disk' = out /\ whole' = TRUE
  /\ pc' = "open"
  /\ UNCHANGED <<program, asks, out, written, hurt, readerVars>>

(* fopen fails: there is no file. *)
Unwritable ==
  /\ pc = "head" /\ pc' = "open"
  /\ UNCHANGED <<writerVars, readerVars>>

(* The writer's process ends before fclose. *)
Stop ==
  /\ pc \in {"head", "values", "closing"}
  /\ \E n \in 0 .. Len(out) :
       disk' = SubSeq(out, 1, n) /\ whole' = (pc = "closing" /\ n = Len(out))
  /\ pc' = "open"
  /\ UNCHANGED <<program, asks, out, written, hurt, readerVars>>

(* One byte of the file changes before it is read. *)
Damage ==
  /\ pc = "open" /\ whole /\ hurt = 0
  /\ \E i \in DOMAIN disk, b \in Byte :
       b # disk[i] /\ disk' = [disk EXCEPT ![i] = b] /\ hurt' = i
  /\ UNCHANGED <<program, asks, out, written, whole, pc, readerVars>>

-----------------------------------------------------------------------------
(* Reading *)

(* fread of n bytes, or fgetc for one: less than n bytes are none, and     *)
(* then feof holds.                                                        *)
Fread(c, n) ==
  IF c.at + n - 1 <= Len(disk)
  THEN [at |-> c.at + n, eof |-> c.eof, got |-> SubSeq(disk, c.at, c.at + n - 1)]
  ELSE [at |-> Len(disk) + 1, eof |-> TRUE, got |-> <<>>]

At(r) == [at |-> r.at, eof |-> r.eof]
U8(r) == IF r.got = <<>> THEN Base - 1 ELSE r.got[1]

(* NULL, and what a switch without a case leaves in fresh memory. *)
Undefined == <<-1>>

Read(c, data) == [at |-> c.at, eof |-> c.eof, data |-> data, bad |-> FALSE]
Bad(c, data) == [Read(c, data) EXCEPT !.bad = TRUE]

(* Faulty: the byte that ends a string is left for what follows. *)
read_str_LeavesZero(c) ==
  LET zeros == {i \in c.at .. Len(disk) : disk[i] = 0} IN
    IF zeros = {} THEN Read([at |-> Len(disk) + 1, eof |-> TRUE], Undefined)
    ELSE Read([c EXCEPT !.at = Min(zeros)], SubSeq(disk, c.at, Min(zeros) - 1))

read_str(c) ==
  LET zeros == {i \in c.at .. Len(disk) : disk[i] = 0} IN
    IF zeros = {} THEN Read([at |-> Len(disk) + 1, eof |-> TRUE], Undefined)
    ELSE Read([c EXCEPT !.at = Min(zeros) + 1], SubSeq(disk, c.at, Min(zeros) - 1))

read_dbl(c) ==
  LET i == Fread(c, Word)
      f == Fread(At(i), Word)
  IN  Read(At(f), <<(Unsigned(i.got) * Scale + Unsigned(f.got)) * Fine>>)

read_function(c) ==
  LET len == Fread(c, Word)
      body == Fread(At(len), Unsigned(len.got))
  IN  CASE c.eof -> Bad(c, Undefined)
        [] ~c.eof /\ Len(body.got) = Unsigned(len.got) -> Read(At(body), <<O_FUNCTION>> \o body.got)
        [] OTHER -> Bad(At(body), Undefined)

read_obj(c) ==
  LET type == Fread(c, 1) IN
    IF U8(type) = O_FUNCTION THEN read_function(At(type)) ELSE Read(At(type), Undefined)

read_bool(c) ==
  LET b == Fread(c, 1) IN Read(At(b), <<IF U8(b) = 0 THEN 0 ELSE 1>>)

TypeOf(b) == CHOOSE t \in ValueType \cup {"T_?"} :
  IF \E u \in ValueType : Tag[u] = b THEN t # "T_?" /\ Tag[t] = b ELSE t = "T_?"

(* Behind the type the file has not ended: EOF is no type. *)
read_contents(type, c) ==
  CASE type = "T_VOID" -> Read(c, <<>>)
    [] type = "T_BOOL" -> read_bool(c)
    [] type = "T_INT"  -> LET n == Fread(c, Long) IN Read(At(n), <<Signed(n.got)>>)
    [] type = "T_REAL" -> read_dbl(c)
    [] type = "T_CHAR" -> LET n == Fread(c, Wide) IN Read(At(n), <<Signed(n.got)>>)
    [] type = "T_STR"  -> read_str(c)
    [] type = "T_OBJ"  -> read_obj(c)
    [] type = "T_?"    -> Read(c, Undefined)

MALFORMED == err' = IF asks THEN "malformed" ELSE err
Refuse == MALFORMED /\ pc' = "done" /\ UNCHANGED <<writerVars, cur, want, prog>>
Crash == pc' = "crashed" /\ UNCHANGED <<writerVars, readerVars>>

read_file_NotFound ==
  /\ pc = "open" /\ disk = NoFile
  /\ err' = IF asks THEN "not found" ELSE err
  /\ pc' = "done"
  /\ UNCHANGED <<writerVars, cur, want, prog>>

(* The header and the version; a version that is cut off reads as 0, and   *)
(* so do the lengths.                                                      *)
Head1 == Fread([at |-> 1, eof |-> FALSE], Len(header))
Version == Fread(At(Head1), Short)
Known == Head1.got = header /\ Unsigned(Version.got) = version

read_header ==
  /\ pc = "open" /\ disk # NoFile /\ Known
  /\ LET ins == Fread(At(Version), Word)
         rod == Fread(At(ins), Word)
         sym == Fread(At(rod), Word)
     IN  /\ cur' = At(sym)
         /\ want' = [ins |-> Unsigned(ins.got), rod |-> Unsigned(rod.got), sym |-> Unsigned(sym.got)]
  /\ pc' = "read"
  /\ UNCHANGED <<writerVars, prog, err>>

read_header_Unknown == pc = "open" /\ disk # NoFile /\ ~Known /\ Refuse

ReadsCode == pc = "read" /\ Len(prog.bytes) < want.ins
ReadsValue == pc = "read" /\ Len(prog.bytes) = want.ins /\ Len(prog.rod) < want.rod
ReadsSymbol ==
  /\ pc = "read" /\ Len(prog.bytes) = want.ins /\ Len(prog.rod) = want.rod
  /\ Len(prog.stb) < want.sym
ReadsTail ==
  /\ pc = "read" /\ Len(prog.bytes) = want.ins /\ Len(prog.rod) = want.rod
  /\ Len(prog.stb) = want.sym

MALFORMED_EOF == (ReadsCode \/ ReadsValue \/ ReadsSymbol) /\ cur.eof /\ Refuse

read_byte ==
  /\ ReadsCode /\ ~cur.eof
  /\ LET b == Fread(cur, 1) IN
       cur' = At(b) /\ prog' = [prog EXCEPT !.bytes = Append(@, U8(b))]
  /\ UNCHANGED <<writerVars, pc, want, err>>

(* Behind read_value err itself is read, also if there is none. *)
read_value ==
  /\ ReadsValue /\ ~cur.eof
  /\ LET b == Fread(cur, 1)
         type == TypeOf(U8(b))
         v == read_contents(type, At(b))
     IN  /\ cur' = At(v)
         /\ prog' = [prog EXCEPT !.rod = Append(@, [type |-> type, data |-> v.data])]
         /\ IF asks /\ v.bad THEN MALFORMED ELSE UNCHANGED err
         /\ pc' = CASE ~asks -> "crashed" [] asks /\ v.bad -> "done" [] OTHER -> pc
  /\ UNCHANGED <<writerVars, want>>

read_symbol ==
  /\ ReadsSymbol /\ ~cur.eof
  /\ LET s == read_str(cur) IN
       /\ s.data # Undefined
       /\ cur' = At(s) /\ prog' = [prog EXCEPT !.stb = Append(@, s.data)]
  /\ UNCHANGED <<writerVars, pc, want, err>>

(* hash(NULL) *)
read_symbol_Null ==
  /\ ReadsSymbol /\ ~cur.eof /\ read_str(cur).data = Undefined
  /\ Crash

(* A wrong checksum does not keep the footer from being read. *)
read_tail ==
  /\ ReadsTail
  /\ LET sum == Fread(cur, Word)
         end == Fread(At(sum), Len(footer))
     IN  /\ IF Unsigned(sum.got) # checksum(prog) \/ end.got # footer THEN MALFORMED ELSE UNCHANGED err
         /\ cur' = At(end)
  /\ pc' = "done"
  /\ UNCHANGED <<writerVars, want, prog>>

-----------------------------------------------------------------------------
Init ==
  /\ program \in Programs /\ asks \in BOOLEAN
  /\ out = <<>> /\ written = 0 /\ disk = NoFile /\ whole = FALSE /\ hurt = 0
  /\ pc = "head"
  /\ cur = [at |-> 1, eof |-> FALSE]
  /\ want = [ins |-> 0, rod |-> 0, sym |-> 0]
  /\ prog = [bytes |-> <<>>, rod |-> <<>>, stb |-> <<>>]
  /\ err = "none"

Next ==
  \/ write_head \/ write_value \/ write_tail \/ fclose \/ Unwritable \/ Stop
  \/ Damage
  \/ read_file_NotFound \/ read_header \/ read_header_Unknown
  \/ MALFORMED_EOF \/ read_byte \/ read_value \/ read_symbol \/ read_symbol_Null \/ read_tail

Spec == Init /\ [][Next]_vars

-----------------------------------------------------------------------------
(* Properties *)

Accepted == pc = "done" /\ asks /\ err = "none"

(* Reals whose parts fit in 32 bits, and of objects only functions, get    *)
(* into the file.                                                          *)
Storable(v) ==
  /\ v.type = "T_REAL" => {Integral(v.data[1]), Fraction(v.data[1])} \subseteq 0 .. Modulus - 1
  /\ v.type = "T_OBJ" => v.data[1] = O_FUNCTION

(* v was written and w is read: a real has lost what is less than 1/Scale, *)
(* and nothing if it is a whole number of these.                           *)
Survives(v, w) ==
  IF v.type # "T_REAL" THEN w = v
  ELSE /\ w.type = "T_REAL" /\ Len(w.data) = 1
       /\ Magnitude(v.data[1] - w.data[1]) < Fine
       /\ v.data[1] % Fine = 0 => w = v

(* A file that was written to its end is read back as the program it was   *)
(* written from, whatever its values and wherever one of them ends, but    *)
(* for the last digits of a real; a caller without an err gets as far if   *)
(* there are no values.                                                    *)
ReadsWhatWasWritten ==
  LET same == /\ prog.bytes = program.bytes /\ prog.stb = program.stb
              /\ Len(prog.rod) = Len(program.rod)
              /\ \A i \in DOMAIN prog.rod :
                   Storable(program.rod[i]) => Survives(program.rod[i], prog.rod[i])
  IN  whole /\ hurt = 0 =>
        /\ pc = "done" => err = "none" /\ same
        /\ pc = "crashed" => ~asks /\ program.rod # <<>>

(* The bytes whose change nothing detects: the lengths, the values, and a  *)
(* character that becomes the end of a symbol or an end that becomes one.  *)
Ins == Len(header) + Short + 3 * Word
Sum == Len(out) - Len(footer) - Word
Unprotected(i) ==
  \/ i \in Ins - 3 * Word + 1 .. Ins
  \/ i \in Ins + Len(program.bytes) + 1 .. Sum - Len(Symbols)
  \/ i \in Sum - Len(Symbols) + 1 .. Sum /\ 0 \in {out[i], disk[i]}

(* No file that is cut short is taken for a program, wherever the writer   *)
(* stopped, and none in which one byte of the instructions, of a symbol,   *)
(* of the checksum, the header or the footer changed.                      *)
NothingHalfReadRuns ==
  Accepted => whole /\ (hurt # 0 => Unprotected(hurt))
===============================================================================
