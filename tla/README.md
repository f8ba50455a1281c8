# A TLA+ development of Silk and its virtual machine

Silk is a small scripting language: a C++ front end (`source/silk`) scans,
parses, optimises and compiles packages, and a virtual machine in C
(`source/moth`, "moth") runs the bytecode.  This directory holds a TLA+ model
of the parts whose correctness depends on sequences of operations, the TLC
configurations that check it on small instances, and machine-checked proofs of
the invariants for instances of any size.

The code base is young: it has no tests, and its own readme says that nothing
works yet.  The modules therefore describe what the code does, not what it was
meant to do; where a comment of the code says otherwise, a run shows the
disagreement (see *Findings*).

## 1. Inventory of the system

| part | state it keeps | operations | interacts with |
|---|---|---|---|
| stack (`moth/stack.c`) | `varr`, `vtop`, `farr`, `ftop` | push, pop, top, get, set, invoke, return, reset | called by every instruction of `vm.c`; root set of the collector |
| interpreter (`moth/vm.c`) | `prg`, `ip`, `st` | one instruction per opcode, `vm_run`, `free_vm` | stack, environment, collector, objects |
| collector (`moth/garbage.c`) | registry `objs`, `len`, `cap`; a `reachable` flag per object | `gc_register`, `gc_collect`, `free_gc` | called from inside instructions that allocate |
| objects (`moth/object.c`, `value.c`) | strings, arrays, vectors, dictionaries, functions, closures, heapvals | constructors, dictionary hash table, equality, hashing | operands of instructions |
| environment (`moth/env.c`) | open-addressing table `ptr`, `cap`, `len` | set, set existing, get, delete | DEF, ASN and SYM instructions |
| memory (`moth/mem.c`) | arena of 2048 bytes, `top` | `memory` (allocate, grow), `release` | everything above |
| programs (`program.c`, `rodata.c`, `symtable.c`) | growable arrays of bytes, values and symbols | write, free | filled by the compiler or by `file.c`, read by the VM |
| bytecode files (`file.c`), disassembler (`disas.c`) | the position in a file, the lengths it announced | write, read; print | programs, the disk |
| FFI (`ffi.c`), standard library (`stdsilk`) | handles of shared libraries | open, look up | no opcode reaches them |
| scanner, parser (`language`, `pipeline/parser.cxx`) | token cursor, one token of look-ahead, error list | precedence climbing, recovery up to the next semicolon | tokens in, syntax tree out |
| import resolution (`context_builder.cxx`, `package.cxx`) | sources loaded, a stream for each | resolve a path, load, recurse | file system, parser |
| optimiser (`optimizer.cxx`), type checker | the tree | constant folding in place; the type checker's visitors are empty and it passes its input on | tree in, tree out |
| compiler (`targets/moth/compiler.cxx`) | scopes, stack variables, symbol numbers, a program under construction | emit, patch jumps, open and close scopes | writes programs |
| pipeline (`stage.h`, `main.cxx`) | errors of each stage | run the stages in order | all stages |
| REPL, debugger, command line, JSON output, wasm and js targets | little or none | I/O, stubs | |

There are no threads.  What is hard here is *reentrancy* (an instruction
allocates, the allocation collects, the collection looks at a stack from which
the operands are already gone), *in-place compaction* of a table that is being
walked, *unbounded probe loops*, *overlapping activations* on one array, limits
nobody checks, files that end anywhere, error recovery in the middle of a
construct, and undefined evaluation order.  `PROJECT.json` lists these
hazards one by one with their line and the property that covers them.

What makes each part correct:

* stack: activations never overlap, a call passes exactly its arguments, a
  return restores the caller; every index stays in its array;
* collector: it frees everything the program cannot use and nothing it can,
  each object once, and gives control back;
* environment and dictionaries: they behave like maps, whatever collides, and
  calls return;
* memory: blocks do not overlap, growth keeps contents;
* files: what was written is read back, anything else is refused;
* compiler: jumps land on instructions, the stack depth at a code position does
  not depend on the path, scopes free what they declared;
* import resolution: every imported package is loaded once and the resolution
  ends, and it loads what the parser will take for an import;
* scanner and parser: the tree is the one the precedences give, and text that is
  not in the tree was reported;
* optimiser: folding does not change what a program computes;
* pipeline: it ends, whatever the stages report.

## 2. Modules

### Stack and calls: `CallStack`, `MothStack`, `MothStack_proof`

`CallStack` is the promise: a sequence of activations, each with its return
offset and its own sequence of values; an instruction sees the newest one only.
`MothStack` is `stack.c` under the instructions of `vm.c`: two fixed arrays and
two tops, base pointers as indices, stale values above `vtop`.

| code | model |
|---|---|
| `stk->varr`, `vtop`, `farr`, `ftop` | `varr`, `vtop`, `farr`, `ftop` (pointers are indices) |
| `vm->ip`, `vm->st` | `ip` (offset), `st` (all errors are `"ERROR"`) |
| `stk_invoke`, `stk_get`, `stk_set`, `init_stk` | operators of the same names; push and pop are `PopPush(n, vs)` |
| `call_`, `frame_`, `return_` | `CAL`, `FRM`, `RET` |
| UOP, BOP, `indexasn_` | `Operator(arity, result)` with the error path that sets `st` and continues |
| `vector_`, `closeover_` on a wrong value | the error alternative of `POP` |
| FIN, DBG, an undefined global | `FIN`, `DBG`, `Undefined`: `vm_run` returns |
| the host calling `vm_run` again, or `reset_stk` | `vm_run`, `reset_stk` |

The bytecode is arbitrary: any instruction may come next.  What `vm.c` takes
for granted of it (operands within the activation, room in both arrays) are the
guards `Operands`, `Room` and `FrameRoom`; a compiler has to establish them.
Operands have any of the widths of the opcodes (VAL to VAL4, SYM, DEF and ASN
likewise: `AnyWidth`); the size of a FRM to FRM4 at an offset is `FrmSize`.
`frame_` passes `vm->ip` and `ARG1`, which advances `vm->ip`, in one argument
list; C leaves the order open.  The constant `ArgRead` chooses; the run uses
what gcc on x86-64 does (arguments from right to left, `"after"`), under which
the refinement holds.

The mapping from `MothStack` to `CallStack` cuts `varr` at the base pointers.

### Collector and objects: `Garbage`, `MothVM`, `MothVM_proof`

`Garbage` has the registry, the flags and the loop of `gc_collect`, one step per
iteration because the loop rewrites the array it walks; `MothVM` adds the
instructions that make, link, read and drop objects, the globals (as the map
that `Environment` implements) and the program's own view of what is in use.

| code | model |
|---|---|
| values from `varr` to `vtop` | `stack` |
| memory of objects | `heap` (address to type and held values, or `Free`) |
| `obj->reachable` | membership in `reachable` |
| `gc->objs`, `len`, `cap` | `objs`, `Len(objs)`, `cap` |
| inside `gc_register` / `gc_collect` | `pc` in mark, sweep, append; `pending` is the object being registered |
| `mark_object` | `Children` and `Marked`; no step of its own, because nothing happens between its calls. On a cycle it never returns: `MarkFails` |
| numbers, rodata strings and functions | `Scalar` (the collector neither frees nor follows them) |
| slots `array_` leaves unwritten | `Scalar` or `Junk` (fresh zero pages look like no object, recycled memory is arbitrary) |
| the entries of a dictionary | their values; keys that are objects are left out: `mark_object` would mark keys and values alike, and reaches neither while `len` stays 0 |

`premature` is a history variable: it becomes true when a collection frees an
object the program can still get at.  What happens after that is undefined in
C, so the program stops there in the model.  In the code, objects up to 32
bytes live in the arena of `mem.c` whose release does nothing, so that a
premature free does harm to larger objects only; the model treats all alike.

### Globals: `SymbolMap`, `Environment`, `Environment_proof`

`SymbolMap` is a partial map.  `Environment` is `env.c` with one bucket probed
per step: the loops `env_empty_bucket` and `env_find_bucket` are the actions
`Probe` (go on) and `SetFound`, `NotFound`, `SetExistingFound`, `GetFound`,
`DeleteFound` (what the caller does with the bucket).  `doomed` is the set of
symbols that the host deletes: the VM itself never calls `env_delete`, so the
refinement is claimed for hosts with nothing doomed, and `OthersUntouched` and
`CallsReturn` for all.  The load factor is 0.95
and the capacity 4, and `len == cap * 0.95` never holds again: the table stays
at four buckets.  The refinement mapping computes what `env_get` would return.
A fifth definition probes for ever (`Probe` keeps going round): the map is
never wrong, it is just that the call does not return.

### Memory: `Memory`, `Memory_proof`

`mem.c` under its clients: the growable arrays of a program (`write` is
`write_byte`, `rodata_write` and `symtable_write`; `init` is `init_program` and
the loop of `read_file`) and blocks of fixed size (objects, strings).  A block
is an offset and a size in the arena, or is malloc's.  `vals` is what the memory
of an array holds, `written` what the program put there.  A block that reaches
behind the arena is undefined behaviour, so the clients stop there (`Overrun`).

The copy in `memory` is modelled by its outcome (`Forgets`): `realloc` and the
copy within the arena keep the contents, the branch that leaves the arena drops
them.  So bytecode of more than 32 bytes, written byte by byte, loses its first
32: `KeepsContents` says exactly which contents survive.

### Dictionaries: `ValueMap`, `Dictionary`, `Dictionary_proof`

`ValueMap` is a map in which a missing key has the value void.  A step of the
dictionary that ends a call has to be the step of the map that the call asks for
(`Asked`): a get or a delete answers with the value last stored under its key, an
insertion stores its value there; a call with the key void may answer anything and
touches no key.  `Dictionary` is
the hash table of `object.c`, again one bucket probed per step; `obj_dct_get`,
`obj_dct_insert` and `obj_dct_delete` share the loop (`Probe`) and differ in
what they do with the bucket where it ends (`GetEnds`, `InsertEnds`,
`DeleteEnds`).  `obj_dct_merge` grows the table in one step (the inserts of a
rehash cannot fail or be seen from outside) and then inserts the other table's
entries by the ordinary loop.

A deleted bucket has the key void, and a lookup of void matches it.  Storing void
under void therefore makes such a bucket *empty* and cuts the probe chains that
pass it: the history variable `spoiled` records that, and the refinement is
claimed up to there.  Nothing counts entries, so only a merge ever grows a
table; a key that does not fit is probed for ever.

### Import resolution: `ContextBuilder`, `Pipeline_proof`

`context_builder.cxx`: the recursion of `resolve_imports` as a stack `calls` of
frames, one match of `import_regex` per step.  A source is a directory and the
text behind `use`; the regex is represented by the list of its matches,
`uses[p]`, which any value of the constant `Packages` may give.  `Pipeline`
computes the list from the text.

| code | model |
|---|---|
| a call of `resolve_imports`, and the match its `for_each` is at | a frame `[file, next]` of `calls` |
| the map of sources | `imports` (its keys) |
| the position of each stream | `at[p]`, start or end; a stream read from its end yields no match |
| `resolve_path` | the first directory that holds the file; none: `Unresolved` reports |
| `contains` | `AlreadyResolved` |
| insert, then the recursive call | `Recurse` |
| `seekg(0)` at the end | `Return` |
| `execute`, up to the first match of its call of `resolve_imports` | `execute` |

Sources are told apart by path.  The main source is not in the map under its own
path, so a package that imports its main source by name loads it a second time,
as an ordinary source; the closure property counts it so.

### Front end: `Scanner`, `SyntaxTree`, `Parser`, `Optimizer`, `Pipeline`, `Pipeline_proof`, `Tree_proof`, `Precedence_proof`

`Pipeline` composes the stages of `main()` over all sources of a package, but for
the last one, `JsonSerializer`, which only formats the optimised tree: it
extends `ContextBuilder` (whose texts it supplies), `Parser` and `Optimizer`
(whose input and output it hands over).  Each stage ends before the next begins
and nothing stops the pipeline on a report.

`Scanner` is a pure function, `scan(text, from)`: the token at a position and
the position behind it.  A text is a sequence of units (symbols character by
character, whole runs of digits and of letters), because no decision of the
scanner looks into a run.  The one place where the code takes a single character
of a run is behind a double quote: in a text that character is a unit of its own,
and units of a run that follow each other are read as one run.  The nested switches over symbols are one set,
`Compound`: the symbols of more than one character that some path of the
switches spells, each of which the scanner reads one character at a time.

`Parser` is a machine with a stack.

| code | model |
|---|---|
| a parse function | a row: the sequence of the items its body does in order |
| a call under way | a frame: the items left, the nodes it has so far, the operator it keeps, its first token |
| `_tokens`, with one token of look-ahead | `tokens`, all tokens read |
| `must_consume`, `must_match`, `consume` in a condition | items `must`, `oneof`, `opt`; `until` and `while` for loops |
| `precendece` and its loop | items `precedence` and `infix` |
| `rules[...]` with a null member pointer | `PrefixToken`, `InfixToken`; `precendece_NullPrefix` crashes |
| `throw report(...)` | `Throw`: the stack is gone, `mode` is `"skip"` |
| an exception of `std::stoull` and the like | `ConvertLiteral`: the same without a report |
| the loop in the catch block of `parse` | `Recover`, one token per step |
| `make_node` | a record appended to `nodes`; children are positions, `Null` is 0 |

`SyntaxTree` says what children each kind of node has and which may be null.
`Optimizer` has the recursion of `handle_node` as the list `work` (children
first, then what the handler does itself) over `heap`, the nodes of one module,
which it folds in place.  Integers have `Width` bits and wrap; a signed and an
unsigned operand are both unsigned, as in C++.  `std::floor` and `std::pow` work on
doubles: an integer on its way through one is rounded to an integer of
`Precision` significant bits (`Doubles`, `Rounded`: nearest, ties to even), and
a double that does not fit the integer it becomes is any value (`Integer`).

| code | model |
|---|---|
| `handle_node` | `handle_node`, on a null child `handle_node_Null` (the process dies) |
| `make_const_bin_expr` | `Fold`; the throw in a noexcept function and a division trap are `Fold_Fatal` |
| the test of a constant's value | `CheckConstant` |
| the `operator>>` of stages, the loops of each `execute` | `StartParsing`, `ParseNext`, `StartOptimizing`, `OptimizeNext`, `Finish` |
| the order of an unordered map | any `p` of `left` |
| `import_regex` | `MatchesAt`, `FirstMatch`: greedy, up to the last quote of the line |

The meaning that folding is compared with, `Meaning`, is taken from the
instructions of `vm.c` (`VMArithmetic`) and defined on trees without reference to
the optimiser: whether a node is made of number literals only, and the integer the
machine computes for it, where one is claimed.

### Bytecode files: `BytecodeFile`

`file.c`: `write_file` to the disk and `read_file` from it.

| code | model |
|---|---|
| what `fputc`, `fwrite` gave to stdio | `out`; on the disk at `fclose` |
| the file, or none | `disk` |
| the position of the `FILE` and its end-of-file flag | `cur.at`, `cur.eof`; set by a short read only, as in C |
| the lengths read from the head | `want` |
| the program read so far | `prog` |
| `err`, which callers may leave out | `asks`, `err` |
| `MALFORMED`, `MALFORMED_EOF` | actions of these names; a program that was begun stays behind |
| `hash(NULL)`, `*err` with `err == NULL` | `read_symbol_Null`, the last disjunct of `read_value`: `"crashed"` |

The faults: the writer stops anywhere (`Stop`: a prefix of what it wrote is on
the disk), or one byte of a complete file changes (`Damage`).  The checksum is
the code's (FNV over instructions and hashes of symbols), with constants reduced
modulo the word, so what it detects is computed and not assumed.  A real is a
whole number of steps of `1/(Scale * Fine)`, the file keeps whole numbers of
`1/Scale` (1E-11 in the code), and `write_dbl` drops the rest, as the conversion to
`uint32_t` does.  Sums and quotients of reals are exact in the model; those of
doubles add at most half a unit in the last place, and nothing where the real
is a whole number of `1/Scale`.  The machine is little endian, so that
`SWAP_IF_BIG_ENDIAN` does nothing (on another one it would shift 16 and 32 bit
values as if they had 64).  No caller of
`read_file` or `write_file` is in the repository; both kinds of callers are
modelled.

### Code generation: `Codegen`, `CompiledCode`

`Codegen` is `compiler.cxx` as functions: `handle(t, s)` is the compiler `s`
after the handler of `t` ran, with the bytes it emitted.  The helpers have the
source's names.  Its operators are recursive over trees, so nothing is proved
about it.  `CompiledCode` executes the bytes as `vm_run` does, one instruction
per step, and reads them as `disassemble` does.

| code | model |
|---|---|
| `_program.bytes` | `code`, a sequence of numbers; opcodes start at 1000 so that an operand is never taken for one |
| `_program.rod`, the maps from literals to ids | `rod`, `ids` |
| `_main_locals.depth` | `depth` |
| an exception thrown by `report` | `thrown`: from then on nothing is emitted, but scopes are closed |
| `vm->ip`, the value stack, `vm->st` | `ip`, `stack`, `st` |
| `read_address` and the printers of `disas.c` | `OperandBytes`, `Listing` |

What a tree means is stated without jumps: `Truth` for expressions, and
`Leaves` for the number of values left on the stack.  `Leaves` describes the
code, not an intention: AND and OR leave their left operand below the result,
so a statement that evaluates one and pops once leaves a value behind.

The handlers are modelled although `Compiler::execute` does not call them yet
(its body is commented out); they are the only account of how bytecode for the VM
is meant to be made.  `JUMP(TRUTHY() * ARG2)` adds to `vm->ip` a value whose
evaluation advances `vm->ip`; the model has the operand read first, as gcc
compiles it.  Memory is taken to work: see `Memory` for what growing a program
past 32 bytes does.  Left out: a natural literal (its handler emits nothing), reals,
characters and strings (they go through the same code as integers), arithmetic,
variables (the source's handlers are unfinished and throw), calls, returns, indexing,
and array and dictionary literals, whose handlers emit VM_ARR and VM_DCT without the
size byte that the VM reads behind them (`compiler.cxx:668` and 681, `vm.c:582`).

## 3. Runs

| run | instance | checks |
|---|---|---|
| `stack` | 2 values (one a function), 3 value slots, 3 frames, offsets 0..4, argc equal to the offset, FRM2 at 0 and FRM elsewhere | `TypeOK`, `FrameNesting`, `CallerUntouched`, `ImplementsCallStack`; no deadlock |
| `gc` | 3 addresses (symmetric), registry of 1 growing to 4, 3 values on the stack, arrays of 1 | `RegistryExact`, `MarksMatchReachability`, `FreesOnlyUnmarked`, `CollectsAllUnmarked` |
| `gc_globals` | 2 addresses, one global | `VMTypeOK`, `StackSafe`, `CollectionEnds` |
| `gc_unused` | as `gc_globals` | `FreesOnlyUnused`, violated (finding) |
| `env` | 5 symbols, hashes 7, 7, 7, 4, 2 in 4 buckets, 2 values; a host that deletes nothing and hosts that delete some, `len` up to 5 | `EnvTypeOK`, `ImplementsSymbolMap`, `OthersUntouched`, `CallsReturn`; no deadlock |
| `memory` | bytes and 2-byte values, one object, arena of 12, small up to 4, steps of 2, 9 elements | `MemTypeOK`, `BlocksDisjoint`, `KeepsContents` |
| `memory_full` | as `memory` | `StaysInArena`, violated (finding) |
| `dictionary` | 3 keys, hashes 7, 7, 3, and void; 2 values; merges of 1 and 2 entries, 4 buckets growing to 8 | `DictTypeOK`, `ImplementsValueMap`, `CallsReturn` |
| `pipeline` | packages: 4 files in 2 directories, one hidden, one name missing, up to 2 imports each; single sources: 22 programs with every production, each whole, with one token left out or replaced; rows of up to 3 odd tokens; expressions of 3 operands and 2 of 10 infix operators; constants of 3 literals; unspaced symbols; integers of 4 bits, doubles of 2 significant bits | `ContextTypeOK`, `ImportsAreTheClosure`, `StreamsMatchCalls`, `ReportsEveryMiss`, `PipelineTypeOK`, `TreeFitsTheTokens`, `NothingLostSilently`, `ImportsAgree`, `DiesForACause`, `OptimizedMeansTheSame`, `PipelineEnds` |
| `bytecode` | bytes of 3 bits, words of 2 bytes, 2 steps of a real to a unit of the file, 8 programs with every type of value, one fault: the writer stopped at any byte, or any byte changed to any other | `ReadsWhatWasWritten`, `NothingHalfReadRuns` |
| `codegen` | bytes of 8 values; expressions of two levels of operators, if, while, block over them; 0 to 21 constants before the code's own | `CodeTypeOK`, `OnInstruction`, `DoesWhatTheTreeSays`, `ConstantsAreShared`, `ScopesAreClosed`, `ListingIsInStep` |
| `codegen_less` | as `codegen`, comparisons by `<` | `LessIsLess`, violated (finding) |

*Why these bounds are enough.*  Two nested calls with zero, one or two arguments
fill both stack arrays, so every guard is met with equality.  A registry of one
is full at the second registration, so collections start from inside
registrations with a garbage, a live and a half-made object; with three
addresses the sweep meets garbage first, in the middle and last, and moves an
entry it has not looked at.  Three symbols with the same hash at the last bucket
force wrap-around, the fourth and fifth compete for the rest, and the fifth
finds the table full.  In `Dictionary` the three keys share a home at the end of
a table of four and two homes in a table of eight, so a merge moves some of them
and not others, and every chain can have a deletion in its middle.  In `Memory`
the small arrays cross the threshold after one growth, the arena can be filled
exactly (then malloc takes over) or overrun.  Three sources with two imports
each make every shape of cycle, self-import and diamond, with a miss before or
behind an import that recurses.  Three operands and two operators are what it
takes to tell left from right association and every pair of precedences, and a
prefix or brackets can stand in each place; a program with one token missing or
wrong throws from every call depth that its production has, and what follows the
error is parsed by the recovered parser.  With 4 bits the literals 0, 1, 3, 9
and -2 wrap, underflow and meet the smallest integer, and 99 is one that
`std::stoull` refuses.  With 2 significant bits a double
holds 4 and 6 and neither 5 nor 9, and the constants have quotients of all four.  In `bytecode` a stopped writer covers every length of
every file, so a cut inside each field of each type.  With bytes of 8 values the limits of the operand
widths are 7, 14 and 21: the constants of a tree fall on both sides of each, so
jumps skip instructions of all four widths, and a jump distance has two digits.
`VALUES` bounds only loops that never end and leave a value each time round.

`gc` and the runs beside it do not check deadlock: the VM really ends there
(crashed in `mark_object`, freed, or stopped after a premature free).  Nor do
`memory` and `memory_full` (the clients stop at an overrun) and `dictionary` (no
call is made once `spoiled`), nor the two runs of compiled code (they end
behind the last byte), `pipeline` (it ends after the last stage, or with the
process) and `bytecode` (one file is written and read once).

*Fairness.*  `WF(Collect)`: the collector is straight-line C code inside one
instruction; once it has started nothing else runs.  `WF(Advance)` in
`Environment` and `Dictionary` and `WF(PipelineNext)` in `Pipeline` for the same
reason: a probe loop and a compiler without threads are sequential code.  The program
itself gets no fairness: nothing obliges it to take a step.

*Violated on purpose.*  The definitions marked `Faulty` in the modules are
plausible bugs of the definition beside them (a dropped reset, a count off by
one, a probe that does not wrap).  No specification uses them; each property of
the passing runs is violated when one of them takes the place of its original
(`PROJECT.json`, "mutants").

## 4. Proofs

| theorem | says | of |
|---|---|---|
| `MothStack_proof!TypeCorrect` | no index leaves its array | `TypeOK` |
| `MothStack_proof!ActivationsNest` | the activations tile the value array | `FrameNesting` |
| `MothStack_proof!CallersAreUntouched` | an instruction does not touch its callers | `CallerUntouched` |
| `MothStack_proof!StackRefinesActivations` | every activation has values of its own (for `ArgRead = {"after"}`) | `ImplementsCallStack` |
| `MothVM_proof!VMTypeCorrect` | types | `VMTypeOK` |
| `MothVM_proof!RegistryIsExact` | every object is registered once, also during a sweep | `RegistryExact` |
| `MothVM_proof!MarksAreExact` | the flags ahead of the sweep are the reachable objects | `MarksMatchReachability` |
| `MothVM_proof!StackIsSafe` | no dangling pointer before a premature free | `StackSafe` |
| `MothVM_proof!SweepSparesTheMarked` | the sweep frees no marked object | `FreesOnlyUnmarked` |
| `MothVM_proof!SweepCollectsTheRest` | a finished sweep leaves no garbage | `CollectsAllUnmarked` |
| `Environment_proof!EnvironmentTypeCorrect` | no probe leaves the table | `EnvTypeOK` |
| `Environment_proof!OthersAreUntouched` | a call changes the value of its own symbol only | `OthersUntouched` |
| `Environment_proof!EnvironmentRefinesMap` | the globals of a host that deletes nothing are a map | `ImplementsSymbolMap` |
| `Memory_proof!MemoryTypeCorrect` | lengths, capacities and blocks agree | `MemTypeOK` |
| `Memory_proof!BlocksAreDisjoint` | no two blocks share a byte | `BlocksDisjoint` |
| `Memory_proof!ContentsAreKept` | what an array loses, and nothing else | `KeepsContents` |
| `Pipeline_proof!ContextTypeCorrect` | only regular files of the search path are opened | `ContextTypeOK` |
| `Pipeline_proof!StreamsAreRewound` | a stream stands at its end only while its source is being resolved | `StreamsMatchCalls` |
| `Pipeline_proof!LoadsTheClosure` | what is loaded is the least set closed under importing | `ImportsAreTheClosure` |
| `Pipeline_proof!MissesAreReported` | an import that names nothing is reported once for each time it is read | `ReportsEveryMiss` |
| `Dictionary_proof!DictionaryTypeCorrect` | neither a probe nor a rehash leaves the table | `DictTypeOK` |
| `Dictionary_proof!DictionaryRefinesMap` | a dictionary is a map and its calls answer as the map does, until void is stored under void | `ImplementsValueMap` |
| `Pipeline_proof!PipelineResolvesImports` | the four of `ContextBuilder`, in the pipeline | `ContextTypeOK`, `StreamsMatchCalls`, `ImportsAreTheClosure`, `ReportsEveryMiss` |
| `Pipeline_proof!NothingIsLost` | no text drops out of the tree without a report or a literal out of range | `NothingLostSilently` |
| `Pipeline_proof!ReadersAgree` | an import that the parser reads alone on its line was found by the regex, and is in the package or was reported | `ImportsAgree` |
| `Tree_proof!PipelineTypes` | every node, parsed or folded, has the children of its kind | `PipelineTypeOK` |
| `Tree_proof!OptimizerDiesForACause` | the optimizer dies at a null child it visits or at an operator of number literals that has no value, in the module it is at, and gets through no module with one of these | `DiesForACause` |
| `Tree_proof!FoldingKeepsValues` | exactly the operators of number literals are folded, to what the machine computes wherever that is claimed | `OptimizedMeansTheSame` |
| `Precedence_proof!TreeFits` | the tree has the precedences of `parser.h`, and children lie within their parent's tokens, in order | `TreeFitsTheTokens` |

They hold for every value of the constants that satisfies the assumptions named
in the modules: positive capacities, `Hash` a function to naturals, the special
values distinct from objects; of the units of a text, that no digits or letters
are taken for a symbol, a blank or a quote (`ScannerAssumption`); of the
packages, that texts are sequences of units and that what the regex finds in
them are the imports that can be asked for (`PipelineAssumption`); of the
integers, that the number of values is even (`ModulusAssumption`: `2^Width` with
a positive `Width` is, but the provers do not look into an exponent, so the fact is
named and TLC evaluates it).

*MothStack.*  `TypeOK /\ FrameNesting` is inductive.  An action needs the second
part for `vtop - argc` and `Frame.bp` to be in the array after a return; the
action property follows from it because an instruction writes at `Frame.bp` or
above only.  For the refinement, the activations that the base pointers cut out
of `varr` are a sequence of the promised length (the bases ascend), and each
instruction changes the cut of the newest one, adds one or removes one as
`CallStack` does.  A call moves the end of the caller's cut to where the callee's
begins, which is why values pass from one to the other without being copied.

*MothVM.*  `RegistryExact` and `MarksMatchReachability` are not inductive: that
the sweep's remaining flags are right depends on the graph not changing under
it, that is on every freed object being one no marked object points to.  The
invariant `IInv` of the proof adds: the pending object is allocated and not in
the registry (`PendingOK`); while marking, nothing was freed prematurely; the
state is sound (what stack, globals and the pending object reach is allocated)
unless something was freed prematurely, a sweep is under way, or the VM is
freed; and during a sweep the reached objects lie in the registry, the entries
before `idx` are all reached, and what is reached is not about to be freed
(`SweepInv`).  The graph facts (a closure is closed, monotone, and unchanged by
removing what it does not hold) are lemmas about `Closure`.

*Environment.*  The type invariant needs `cap = 0 => len = 0`: only then does
the modulo of a lookup have a divisor.  What a lookup *finds* needs more
(`TableInv`): no bucket between a symbol's home and its entry is empty
(`EntriesReached`), the buckets a call has probed so far would not have stopped
it (`ProbedInOrder`), and the table is always the one of four buckets.  With
these a call, wherever it ends, changes the value of its own symbol only, with
deletions too.  The map needs that no symbol has two entries
(`EntriesDistinct`), which holds if nothing is ever deleted and not otherwise: a
definition takes the first deleted bucket though its symbol may lie behind it.

*Dictionary.*  Here deletion keeps the probe chains whole, so one invariant does
for all calls: the entry of a key is the first bucket on the key's way that stops
a search (`EntriesReached`), the buckets probed so far held other keys
(`ProbedInOrder`), and a merge makes no call but inserts.  The rehash is a
recursive function over the old buckets; the proof shows that it exists (by the
least bucket at which it would not), and that each of its steps keeps what is
found under every key (`Holds`).  That it finds a place for each entry is a
count: the used buckets of the new table are fewer than its buckets.

*Memory.*  The invariant adds `BlocksOK`: a block of the arena is small, not
empty and ends before `top`; a block of malloc is large, or was allocated when
the arena was exactly full.  The latter is what makes `KeepsContents` inductive:
an array never returns from malloc to the arena once it is large.

*ContextBuilder.*  The closure is a fact about the end of the resolution and needs one
about its middle: the source of every call is loaded (`CallsOfLoaded`), and every
import of a loaded source is loaded or still ahead in a call of that source
(`NoneMissed`).  That nothing else is loaded (`NoneTooMany`) needs no graph
theory: every closed set contains each source as it is added.  The reports are
counted: for each import name there are as many reports as matches that the
calls have passed (`PassedAreReported`); at the end no match is still to come.

*Pipeline.*  The steps of the other stages leave resolution as it is, so its four
invariants carry over (`Resolution`).  `NothingLostSilently` is about every text
and every production, and about error recovery from any depth of calls.  Its
invariant `ParserInv` says:

* the tokens read lie in the text in order, with only blanks and comments between
  them (`TokensInText`; that the scanner skips nothing else is proved of `scan`
  and of the loop over comments);
* the gaps between the declarations of the tree are closed (`GapsClosed`): empty,
  or ending with a semicolon and holding a report or a literal without a value;
* the gap behind the last declaration is empty, being skipped, or closed, as the
  parser is between declarations, recovering, or inside one (`Between`,
  `Skipping`, `Declaring`);
* the outermost call is at the rest of the row that the first token of the
  declaration chose, and that row ends by making a node which begins at that
  token (`OnItsRow`, `HasItsNode`), so a declaration that is parsed spans the
  tokens read for it, whatever the calls inside it do;
* a report points at the token before the next one.  It would miss the
  declaration if thrown before the declaration's first token is consumed;
  therefore, until then, the innermost call is at an item that consumes
  that token or fails behind it (`Fresh`).

What an item puts in its place is again made of items of the rows (the rows are
closed under it: `ClosedUnderRows`), so the steps of calls are treated once for
each kind of item and not once for each production.

*Imports.*  `ImportsAgree` is about two readers that share nothing but the text, so
the proof leads from a node of the tree back to the text and on through the regex.

* From the node to its tokens: every `ModuleImport` begins with `use` and a string
  that is not empty (`ImportsNamed`).  The production that a declaration's first
  token chose either is that of an import, whose three items are followed one by
  one (`OnImport`), or ends in a node of another kind, and no step that works on a
  row changes how it ends (`EndsOther`, `Kept`).
* From the tokens to the text: a `use` and a string are spelt there as they were
  scanned, behind comments too (`TokensSpelt`).
* From the text to the regex: where a `use` stands alone on its line, `MatchesAt`
  holds at the start of that line, what it finds is what stands between the quotes
  (`PlainUseMatches`), and `import_regex`, a recursive function over the positions
  of the text, finds every match (`RegexFinds`).
* From the regex to the package: only loaded sources are parsed, and what their
  texts import was loaded, as their imports are closed, or was reported, as every
  miss is counted (`ImportsFound`, `ImportIsSettled`).

*Trees.*  What a production makes of its children is read off its row.  The
*stage* of a frame says how many children it has and which may be null; each item
of a row leads from one stage to another (`Leads`), a loop back to the stage it
began with, and `make_node` may stand only where the stage is the one its kind
takes (`Takes`).  The rows are walked once, as data; the steps of the parser are
then treated once for each kind of item, as above.  So every node is made with the
children `WellFormed` asks for, and the types follow (`Parsing`).  For the spans
each frame also keeps its children between its first token and the token the
parser is at, in order, and the children of a frame end where the first token
of the frame above begins.

*Precedences.*  `PrecedenceRespected` speaks of nodes only, but why it holds is in
the frames: an operand is as strong as the call of `precendece` that reads it asks
for, because that call takes no weaker operator.  `PrecedenceInv` adds to it what
every frame waits for and what the innermost one acts on, given the one below
(`LinkWaits`, `LinkActs`).  The loop of a call for the precedence `p` has one node,
the `Result`: it binds at `p`, begins where the call began and ends where the parser is,
and whatever infix operator comes next may take it (`Result`, `Placed`).  A frame that
an infix operator began has a left operand that binds as that operator asks
(`LeftOf`); it asks for one level more on the right, and when its right operand
has come no operator of that level follows (`Stops`).  Brackets are the hard part: `Grouped`
looks at the tokens around a node, and the one behind it is read later.  So a
tuple is followed through its row (`TupleActs`): with one element it knows that the element
begins behind the bracket and ends where the parser is, then that a comma or the
bracket follows, and at its end that the element is in brackets (`InGroup`), which later
tokens do not change (`InGroupStays`).  Only then the tuple gives way to its element.
`Operations` are the kinds the property is about; every other node is an atom, and its
row may ask for operands of any strength (`AtomRow`, `RowHere`).

*Optimizer.*  The invariant (`Compiling`) relates three things: the tree as
parsed, the heap that is folded in place, and the list `work` of what is still to be
done.  `Remaining` says that a node of the heap is as parsed or a literal it
folds to (`Shaped`), that every task is about a node in `Reached` (`Due`), that what is
ahead of a fold or a check lies below it (`Downward`), that an operation's operands
come before it (`OperandsFirst`), and that every node in `Reached` lies below one
still to visit, is settled, or has its fold ahead (`Covered`).  From it follows that
no node is folded before its operands, and that a death has a cause (`Cause`): a null
child ahead in `work` is a null child of a node in `Reached`, and an operator that
kills the process has number literals, or what these were folded to, for operands
(`Deadly`).  A node is `Settled` if the heap holds a number literal for it exactly when
it is made of number literals only, of the value that is claimed for the machine; and an operator
of literals is settled only if its operands are ones that may be folded
(`Harmless`).  When nothing is left to do, all of `Reached` is settled (`Optimal`), so
nothing deadly was passed by and nothing else was folded.  Here the
literals of C++ are naturals below the modulus or signed integers, and the machine's
are signed: the operators are compared by congruence modulo `Modulus`, and division
and remainder, which congruences do not respect, only where both operands are the
same in both readings, which is where `VMArithmetic` claims a value; of a quotient it
claims one only if a double holds it, and then rounding leaves it alone (`RoundedFacts`).  `Meaning` and
`Reached` are recursive functions; that they are defined on all nodes is proved by
the least node where they would not be, since the library's induction theorems are
out of reach.

*Only model-checked*, and why:

* `ReadsWhatWasWritten` and `NothingHalfReadRuns` rest on numbers of several bytes
  (exponents) and on a checksum (a fold), which the arithmetic of the provers
  does not cover;
* everything about compiled code: the compiler is a recursion over trees,
  and modules with `RECURSIVE` operators cannot be proved about;
* the violated properties, of course; and liveness (`CollectionEnds`,
  `CallsReturn`, `PipelineEnds`), which is out of the prover's reach.

## 5. Findings

* `gc_unused` (code bug): `promote_`, `add_` and `merge_` pop their operands and
  register the new object afterwards.  If the registry is full the registration
  collects, and frees an operand that the new object holds.  `garbage.c:85`
  promises to free unreachable objects only.  Globals and the entries of
  dictionaries are not marked either, with the same effect.
* `memory_full` (code and comment disagree): `mem.c:22` says that malloc is used
  if the stack is full; the test at line 24 is `top == bottom`, which an
  allocation that steps over `bottom` never meets again.
* `codegen_less` (code and comment disagree): `opcode.h:94` calls VM_LT "less
  than"; `vm.c:607` runs `greater_eq_` for it, and `less_` for VM_GTE.

Without a sentence of the repository to quote, and therefore stated as what
holds instead: an array that leaves the arena loses what it held
(`KeepsContents`), a table of globals or a dictionary with no room left probes
for ever (`CallsReturn`), storing void under void cuts probe chains (`spoiled`),
AND and OR leave their left operand on the stack (`Leaves`).  In the front end
and the bytecode file:

* the optimiser follows null children, so an `if` without `else`, `return;` and a
  circuit without default end the process; so do a comparison, `and` or `or` of
  two number literals (a throw in a `noexcept` function) and an integer division
  by a literal zero (`DiesForACause`);
* `/` of two integer literals folds to an integer; `1 - 2` folds to the natural
  2^64 - 1, which are the bits of the VM's -1 (`OptimizedMeansTheSame` leaves `/`
  out and claims the differences);
* `//` of two integer literals is folded through a double (`optimizer.h:44`) and
  computed exactly by the VM (`vm.c:212`): `9007199254740993 // 1` folds to a number
  that is one less.  `VMArithmetic` claims the quotients that a double holds;
* `1..2` scans as two reals and `a-1` as a name and a negative literal;
* a comment that begins a text is taken for a statement: a report, and the text
  up to the next semicolon is lost; `+x` is always an error: the
  function behind the prefix `+` accepts `not` and `-` only;
* an infix operator where an operand should be calls a null member pointer
  (`precendece_NullPrefix`);
* the vector literal needs a comma behind its last element, because `>` is read as a
  comparison otherwise; `return [1];` is an error, because the brackets are a
  continuation; a second default of a circuit replaces the first;
* a literal out of range loses its declaration without a report
  (`NothingLostSilently` says exactly that);
* two `use` on one line are one match for the regex and two imports for the
  parser (`PlainUse` excludes them);
* the file keeps reals only if they are not negative and both parts fit in 32
  bits, which a fraction over 0.043 does not, and of objects only functions
  (`Storable`).  Of those it keeps, it drops what is below 1E-11 (`file.c:253`): 2.01
  is read back as 2.00999999999 and a number below that unit as 0; reals that are whole
  numbers of the unit come back unchanged (`Survives`).  The checksum does not cover the lengths and the values
  (`Unprotected`); a file cut inside a symbol, and a caller without an `err`
  whose file has a value, crash the reader.

## 6. Not modelled

* The FFI and the standard library's I/O: no opcode reaches them.
* The JSON deserializer, the wasm and js targets and the debugger: empty or
  stubs.  The JSON serializer, the printing functions, the command line:
  formatting.  The REPL: terminal I/O (it reads lines until its brackets
  balance, and so for ever when the input ends inside one).
* Numeric results of the arithmetic operators of the VM but those that
  `OptimizedMeansTheSame` and `DoesWhatTheTreeSays` compare with.
* In the front end: names, types and locations beyond the token; the values of
  reals; which double `std::pow` finds for a power that no double holds (any).
* In the bytecode file: the rounding of doubles, and machines that are not little
  endian.
* In the bytecode file: the memory a damaged length asks for, and the `FILE` that
  early returns leave open.
* What the plan below still has.

## 7. Plan

1. `MothStack` over `CallStack` - done, safety and refinement proved.
2. `Garbage`, `MothVM` - done, safety proved.
3. `Environment` over `SymbolMap` - done, safety and refinement proved.
4. `Memory` (arena, growth, programs' arrays), `Dictionary` over `ValueMap` -
   done, safety and refinement proved.
5. `ContextBuilder` - done, proved; composed with the other stages.
6. `Codegen`, `CompiledCode` with the disassembler's operand lengths - done for
   control flow, literals and operators; functions, calls and the guards
   `Operands` of `MothStack` are left.
7. `BytecodeFile`: write, then read back, with short and altered files - done.
8. `Scanner`, `Parser`, `Optimizer`, `Pipeline` - done; resolution,
   `NothingLostSilently`, the types, `TreeFitsTheTokens` and both properties of
   the optimizer and `ImportsAgree` proved.
9. A proof that is left: of `BytecodeFile`, that what stops before the last byte is
   never run.
