------------------------------- MODULE CallStack -------------------------------
(***************************************************************************)
(* What the stack of the moth VM promises to the bytecode that runs on it: *)
(* a pile of activations.  Each activation owns its values and remembers   *)
(* where its caller resumes; an instruction sees the values of the newest  *)
(* activation only; a call moves the arguments, and nothing else, from the *)
(* caller to a new activation; a return drops the activation and hands one *)
(* value back.  There are no addresses, base pointers or arrays here:      *)
(* MothStack, translated from stack.c and vm.c, implements this module.    *)
(***************************************************************************)
EXTENDS Naturals, Sequences

CONSTANTS
  Value,      \* what a slot of the value stack holds
  Function,   \* the values the VM can call
  Entry,      \* Entry[f] is the code offset of the body of f
  Argc,       \* Argc[i] is how many arguments a call at offset i passes
  FrmSize,    \* FrmSize[i] is the size of a call without a callee at offset i
  MaxCode     \* code offsets are 0 .. MaxCode

VARIABLES
  frames,     \* the activations, oldest first
  ip,         \* offset of the next instruction
  st,         \* "OK" or the last error (vm->st)
  running     \* between vm_run and its return

vars == <<frames, ip, st, running>>

Depth == Len(frames)
Newest == frames[Depth]
Older == SubSeq(frames, 1, Depth - 1)

(* The activation a once it owns the values vs. *)
Owning(a, vs) == [ra |-> a.ra, vals |-> vs]

(* The newest activation owns vs from now on. *)
NewestOwns(vs) == frames' = Append(Older, Owning(Newest, vs))

(* The first n and the last n elements of s. *)
First(s, n) == SubSeq(s, 1, n)
LastOf(s, n) == SubSeq(s, Len(s) - n + 1, Len(s))

Init ==
  /\ frames = << [ra |-> 0, vals |-> <<>>] >>
  /\ ip = 0
  /\ st = "OK"
  /\ running = FALSE

(* The host starts a program; whatever an earlier run left stays. *)
Run == ~running /\ running' = TRUE /\ ip' = 0 /\ st' = "OK" /\ UNCHANGED frames

(* The program reaches its end, a breakpoint or an undefined global. *)
Stop == running /\ running' = FALSE /\ ip' \in 0 .. MaxCode
        /\ st' \in {st, "BRKPNT", "ERROR"} /\ UNCHANGED frames

(* An instruction that consumes n values of the newest activation and      *)
(* leaves the sequence vs in their place.                                  *)
Replace(n, vs) ==
  /\ running
  /\ n <= Len(Newest.vals)
  /\ NewestOwns(First(Newest.vals, Len(Newest.vals) - n) \o vs)
  /\ ip' \in 0 .. MaxCode
  /\ UNCHANGED running

(* An instruction that overwrites the i-th value with the newest one.      *)
Assign(i) ==
  /\ running
  /\ i \in 1 .. Len(Newest.vals)
  /\ NewestOwns([Newest.vals EXCEPT ![i] = Newest.vals[Len(Newest.vals)]])
  /\ ip' \in 0 .. MaxCode
  /\ UNCHANGED <<st, running>>

(* The newest activation gives its last argc values, below the callees     *)
(* popped ones, to a new activation that starts at entry.  The caller      *)
(* resumes size bytes after the start of this instruction.                 *)
Invoke(callees, argc, entry, size) ==
  LET vals == Newest.vals
      left == First(vals, Len(vals) - callees)
  IN  /\ running
      /\ callees + argc <= Len(vals)
      /\ frames' = Older \o << Owning(Newest, First(left, Len(left) - argc)),
                             [ra |-> ip + size, vals |-> LastOf(left, argc)] >>
      /\ ip' = entry
      /\ UNCHANGED <<st, running>>

(* The newest activation hands its last value to its caller and is gone.   *)
Return ==
  /\ running
  /\ Depth > 1
  /\ Newest.vals # <<>>
  /\ LET caller == frames[Depth - 1]
         result == Newest.vals[Len(Newest.vals)]
     IN  frames' = Append(First(frames, Depth - 2),
                          Owning(caller, Append(caller.vals, result)))
  /\ ip' = Newest.ra
  /\ UNCHANGED <<st, running>>

(* The host empties the stack. *)
Reset == frames' = << [ra |-> 0, vals |-> <<>>] >> /\ UNCHANGED <<ip, st, running>>

Next ==
  \/ Run
  \/ Stop
  \/ Reset
  \/ Replace(0, <<>>) /\ UNCHANGED st
  \/ \E v \in Value : Replace(0, <<v>>) /\ UNCHANGED st
  \/ Replace(1, <<>>) /\ st' \in {st, "ERROR"}
  \/ \E i \in 1 .. Len(Newest.vals) : Assign(i)
  \/ \E n \in 1 .. 3, v \in Value : Replace(n, <<v>>) /\ st' \in {st, "ERROR"}
  \/ \E f \in Function :
       /\ Newest.vals # <<>> /\ Newest.vals[Len(Newest.vals)] = f
       /\ Invoke(1, Argc[ip], Entry[f], 2)
  \/ \E entry \in 0 .. MaxCode : Invoke(0, Argc[ip], entry, FrmSize[ip])
  \/ Return

Spec == Init /\ [][Next]_vars
===============================================================================
