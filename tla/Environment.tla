------------------------------ MODULE Environment ------------------------------
(***************************************************************************)
(* The global environment of the moth VM (source/moth/env.c): a hash table *)
(* with linear probing.  A call probes one bucket per step, because the    *)
(* probe loops have no bound of their own and need not end.  A slot whose  *)
(* key.str is NULL is empty if its key.hash is 0 and was deleted if it is  *)
(* 1.                                                                      *)
(*                                                                         *)
(* A definition X_Y marked Faulty is X with a plausible bug; no            *)
(* specification uses it.  The runs' properties are tested against them.   *)
(***************************************************************************)
EXTENDS Naturals

CONSTANTS
  Symbol, Value,
  Hash,         \* Hash[s] is key.hash of the symbol s
  None,         \* NULL: no symbol, no entry
  Hosts,        \* the sets of symbols that hosts call env_delete for (the VM does not)
  MaxLen        \* bound: no env_set once len is MaxLen (deletions let it grow)

ASSUME EnvironmentAssumption ==
  /\ Hash \in [Symbol -> Nat]
  /\ None \notin Symbol \cup Value
  /\ Hosts \subseteq SUBSET Symbol
  /\ MaxLen \in Nat

VARIABLES
  cap, len, ptr,   \* the Environment; ptr[i] is the i-th Entry
  call,            \* the call that is probing, or None
  bucket,          \* where it probes
  ret,             \* what the last call returned: a value, or None
  doomed           \* the symbols that this host deletes; never changes

vars == <<cap, len, ptr, call, bucket, ret, doomed>>
table == <<cap, len, ptr>>

Slot == [str : Symbol \cup {None}, hash : {0, 1}, value : Value \cup {None}]
Call == [f : {"env_set", "env_set_existing", "env_get", "env_delete"},
         key : Symbol, value : Value \cup {None}]
Empty == [str |-> None, hash |-> 0, value |-> None]
Entry(s, v) == [str |-> s, hash |-> 1, value |-> v]
IsEmpty(e) == e.str = None /\ e.hash = 0

(* The type invariant. *)
EnvTypeOK ==
  /\ cap \in Nat /\ len \in Nat
  /\ ptr \in [0 .. cap - 1 -> Slot]
  /\ call \in Call \cup {None}
  /\ call # None => bucket \in 0 .. cap - 1
  /\ ret \in Value \cup {None}
  /\ doomed \in Hosts

-----------------------------------------------------------------------------
GROW_CAP(n) == IF n < 4 THEN 4 ELSE 2 * n
AtLoad == 100 * len = 95 * cap            \* env->len == env->cap * MOTHVM_ENV_LOAD

(* env_resize.  From capacity 0 it only allocates; from any other one      *)
(* memory() has given the old entries back before they are read.           *)
env_resize ==
  /\ cap' = GROW_CAP(cap)
  /\ ptr' \in IF cap = 0 THEN {[i \in 0 .. cap' - 1 |-> Empty]}
                         ELSE [0 .. cap' - 1 -> Slot]

(* The head of env_set. *)
env_set(s, v) ==
  /\ call = None
  /\ len < MaxLen
  /\ IF AtLoad THEN env_resize ELSE UNCHANGED <<cap, ptr>>
  /\ call' = [f |-> "env_set", key |-> s, value |-> v]
  /\ bucket' = Hash[s] % cap'
  /\ UNCHANGED <<len, ret>>

(* The head of the three that look an entry up.                            *)
Lookup(f, s, v) ==
  /\ call = None
  /\ IF len = 0
     THEN ret' = None /\ UNCHANGED <<call, bucket>>
     ELSE /\ call' = [f |-> f, key |-> s, value |-> v]
          /\ bucket' = Hash[s] % cap
          /\ UNCHANGED ret
  /\ UNCHANGED table

env_set_existing(s, v) == Lookup("env_set_existing", s, v)
env_get(s) == Lookup("env_get", s, None)
env_delete(s) == s \in doomed /\ Lookup("env_delete", s, None)

-----------------------------------------------------------------------------
(* The loops of env_empty_bucket and env_find_bucket. *)

Probed == ptr[bucket]
Setting == call # None /\ call.f = "env_set"
Finding == call # None /\ call.f # "env_set"

(* Faulty: the first free bucket is taken even if the symbol has another;  *)
(* the probe runs past the end of the table, or stays there.               *)
StopsAtEmpty_AnyKey == Probed.str = None
NextBucket_PastEnd == bucket' = bucket + 1
NextBucket_Stays == bucket' = IF bucket + 1 = cap THEN bucket ELSE bucket + 1

StopsAtEmpty == Probed.str \in {None, call.key}
StopsAtFind == Probed.str = call.key \/ IsEmpty(Probed)

(* bucket++, and from the end back to env->ptr. *)
NextBucket == bucket' = IF bucket + 1 = cap THEN 0 ELSE bucket + 1

Probe ==
  /\ (Setting /\ ~StopsAtEmpty) \/ (Finding /\ ~StopsAtFind)
  /\ NextBucket
  /\ UNCHANGED <<table, call, ret>>

-----------------------------------------------------------------------------
(* What the calls do with the bucket they found. *)

Returns(v) == ret' = v /\ call' = None /\ UNCHANGED bucket

SetFound ==
  /\ Setting /\ StopsAtEmpty
  /\ ptr' = [ptr EXCEPT ![bucket] = Entry(call.key, call.value)]
  /\ len' = IF Probed.str = None THEN len + 1 ELSE len
  /\ Returns(call.value)
  /\ UNCHANGED cap

NotFound ==
  /\ Finding /\ StopsAtFind /\ Probed.str # call.key
  /\ Returns(None)
  /\ UNCHANGED table

SetExistingFound ==
  /\ Finding /\ call.f = "env_set_existing" /\ Probed.str = call.key
  /\ ptr' = [ptr EXCEPT ![bucket].value = call.value]
  /\ Returns(call.value)
  /\ UNCHANGED <<cap, len>>

GetFound ==
  /\ Finding /\ call.f = "env_get" /\ Probed.str = call.key
  /\ Returns(Probed.value)
  /\ UNCHANGED table

(* Faulty: the entry becomes empty instead of deleted. *)
DeleteFound_Empties ==
  /\ Finding /\ call.f = "env_delete" /\ Probed.str = call.key
  /\ ptr' = [ptr EXCEPT ![bucket] = Empty]
  /\ Returns(None)
  /\ UNCHANGED <<cap, len>>

(* env_delete leaves the value where it is, and len too. *)
DeleteFound ==
  /\ Finding /\ call.f = "env_delete" /\ Probed.str = call.key
  /\ ptr' = [ptr EXCEPT ![bucket] = [str |-> None, hash |-> 1, value |-> Probed.value]]
  /\ Returns(None)
  /\ UNCHANGED <<cap, len>>

Advance ==
  \/ Probe
  \/ SetFound
  \/ NotFound
  \/ SetExistingFound
  \/ GetFound
  \/ DeleteFound

-----------------------------------------------------------------------------
Init ==
  /\ cap = 0 /\ len = 0
  /\ ptr = [i \in 0 .. cap - 1 |-> Empty]
  /\ call = None
  /\ bucket = 0
  /\ ret = None
  /\ doomed \in Hosts

Next ==
  /\ \/ \E s \in Symbol, v \in Value : env_set(s, v)
     \/ \E s \in Symbol, v \in Value : env_set_existing(s, v)
     \/ \E s \in Symbol : env_get(s)
     \/ \E s \in Symbol : env_delete(s)
     \/ Advance
  /\ UNCHANGED doomed

Spec == Init /\ [][Next]_vars /\ WF_vars(Advance /\ UNCHANGED doomed)

-----------------------------------------------------------------------------
(* Properties *)

(* The bucket where the d-th probe for s looks. *)
At(s, d) == (Hash[s] + d) % cap

(* s has an entry d probes from its home and no earlier probe stops.       *)
FoundAt(s, d) ==
  /\ ptr[At(s, d)].str = s
  /\ \A e \in 0 .. d - 1 : ~IsEmpty(ptr[At(s, e)]) /\ ptr[At(s, e)].str # s

(* What env_get(s) would return. *)
Bound(s) ==
  IF \E d \in 0 .. cap - 1 : FoundAt(s, d)
  THEN ptr[At(s, CHOOSE d \in 0 .. cap - 1 : FoundAt(s, d))].value
  ELSE None

(* As long as the host deletes nothing the table is a map: a definition is *)
(* found by every later load, at whatever bucket collisions left it; an    *)
(* assignment changes that entry and none if there is none.                *)
Promise == INSTANCE SymbolMap WITH
             map <- [s \in Symbol |-> IF doomed = {} THEN Bound(s) ELSE None],
             ret <- IF doomed = {} THEN ret ELSE None
ImplementsSymbolMap == Promise!Spec

(* Deletions included, a call on one symbol changes no other one's value:  *)
(* a deleted entry does not cut the probes that pass over it, and reusing  *)
(* it hides nothing.                                                       *)
OthersUntouched ==
  [][\A s \in Symbol : Bound(s)' # Bound(s) => call # None /\ call.key = s]_vars

(* A call returns if some bucket can stop its loop.                        *)
CanStop ==
  \E i \in 0 .. cap - 1 :
    IF Setting THEN ptr[i].str \in {None, call.key}
               ELSE ptr[i].str = call.key \/ IsEmpty(ptr[i])
CallsReturn == (call # None /\ CanStop) ~> call = None
===============================================================================
