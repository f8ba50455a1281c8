------------------------------- MODULE Dictionary -------------------------------
(***************************************************************************)
(* The dictionaries of the moth VM (source/moth/object.c): a hash table    *)
(* with linear probing whose key void marks buckets without an entry.  A   *)
(* call probes one bucket per step, because the loops have no bound.       *)
(*                                                                         *)
(* Keys that equal_values does not tell apart are one key here.  That      *)
(* supposes that they hash alike, which is so for all but strings, arrays  *)
(* and heapvals on the heap: hash_value takes the address of those.        *)
(*                                                                         *)
(* A definition X_Y marked Faulty is X with a plausible bug; no            *)
(* specification uses it.  The runs' properties are tested against them.   *)
(***************************************************************************)
EXTENDS Naturals, Sequences

CONSTANTS
  Key,          \* the keys other than void
  Value, Void,  \* what an entry holds
  Tombstone,    \* INT_VAL(DICTIONARY_TOMBSTONE_VALUE), a value like any other
  Hash,         \* Hash[k] is hash_value(k); that of void is 0
  None,         \* no call
  With,         \* the entries of the dictionaries that are merged into this one
  MaxCap        \* bound: no merge from this capacity on

ASSUME DictionaryAssumption ==
  /\ Void \in Value /\ Tombstone \in Value \ {Void}
  /\ Void \notin Key
  /\ Hash \in [Key \cup {Void} -> Nat] /\ Hash[Void] = 0
  /\ With \subseteq Seq(Key \X Value)
  /\ MaxCap \in Nat

VARIABLES
  cap, entries,  \* the ObjectDictionary; its len stays 0
  call, bucket,  \* the call that is probing, or None, and where it probes; else 0
  ret,           \* what the last get or delete returned
  merging,       \* the entries obj_dct_merge has still to insert
  spoiled        \* history: storing void under void has emptied a bucket

vars == <<cap, entries, call, bucket, ret, merging, spoiled>>
table == <<cap, entries>>

Entry == [key : Key \cup {Void}, value : Value]
Empty == [key |-> Void, value |-> Void]
Tomb == [key |-> Void, value |-> Tombstone]
Call == [f : {"insert", "get", "delete"}, key : Key \cup {Void}, value : Value]

(* The type invariant; every capacity is one GROW_CAP makes.               *)
DictTypeOK ==
  /\ cap \in Nat /\ cap >= 4
  /\ entries \in [0 .. cap - 1 -> Entry]
  /\ call \in Call \cup {None}
  /\ call # None => bucket \in 0 .. cap - 1
  /\ ret \in Value
  /\ merging \in Seq(Key \X Value)
  /\ spoiled \in BOOLEAN

-----------------------------------------------------------------------------
GROW_CAP(n) == IF n < 4 THEN 4 ELSE 2 * n

(* Nothing increments len; the load test of obj_dct_insert only ever sees  *)
(* 0 + 1 > cap * 0.65.                                                     *)
Length == 0
OverLoad(n) == 100 * (Length + 1) > 65 * n

Home(k, n) == Hash[k] % n

(* The bucket where the loop of obj_dct_insert ends in a table that has    *)
(* room, d buckets from the key's home.                                    *)
Stops(t, k, i) == t[i] = Empty \/ t[i].key = k
Place(t, n, k) ==
  LET d == CHOOSE d \in 0 .. n - 1 :
             /\ Stops(t, k, (Hash[k] + d) % n)
             /\ \A e \in 0 .. d - 1 : ~Stops(t, k, (Hash[k] + e) % n)
  IN  (Hash[k] + d) % n

(* obj_dct_resize: the occupied buckets are inserted one after the other   *)
(* in a fresh table.                                                       *)
obj_dct_resize(n) ==
  LET rehash[i \in 0 .. cap] ==
        IF i = 0 THEN [b \in 0 .. n - 1 |-> Empty]
        ELSE IF entries[i - 1].key = Void THEN rehash[i - 1]
        ELSE [rehash[i - 1] EXCEPT
               ![Place(rehash[i - 1], n, entries[i - 1].key)] = entries[i - 1]]
  IN  cap' = n /\ entries' = rehash[cap]

-----------------------------------------------------------------------------
(* The heads of the calls. *)

Starts(f, k, v) ==
  /\ call' = [f |-> f, key |-> k, value |-> v]
  /\ bucket' = Home(k, cap')
  /\ UNCHANGED <<ret, spoiled>>

Idle == call = None /\ merging = <<>> /\ ~spoiled

InsertStarts(k, v) ==
  /\ IF OverLoad(cap) THEN obj_dct_resize(GROW_CAP(Length + 1)) ELSE UNCHANGED table
  /\ Starts("insert", k, v)

obj_dct_insert(k, v) == Idle /\ InsertStarts(k, v) /\ UNCHANGED merging
obj_dct_get(k) == Idle /\ UNCHANGED <<table, merging>> /\ Starts("get", k, Void)
obj_dct_delete(k) == Idle /\ UNCHANGED <<table, merging>> /\ Starts("delete", k, Void)

(* obj_dct_merge: grow, then insert the other one's entries.               *)
obj_dct_merge(with) ==
  /\ Idle /\ cap < MaxCap
  /\ obj_dct_resize(GROW_CAP(cap + Length))
  /\ merging' = with
  /\ UNCHANGED <<call, bucket, ret, spoiled>>

MergeInserts ==
  /\ call = None /\ merging # <<>>
  /\ InsertStarts(Head(merging)[1], Head(merging)[2])
  /\ merging' = Tail(merging)

-----------------------------------------------------------------------------
(* The loops, and what the calls do with the bucket they end at.           *)

Probed == entries[bucket]

(* Faulty: a bucket without an entry ends the search; the next bucket is   *)
(* not taken from the start of the table.                                  *)
Found_AtTomb == Probed.key \in {Void, call.key}
NextBucket_Stays == bucket' = IF bucket + 1 = cap THEN bucket ELSE bucket + 1
NextBucket_PastEnd == bucket' = bucket + 1

Found == Stops(entries, call.key, bucket)
NextBucket == bucket' = IF bucket + 1 = cap THEN 0 ELSE bucket + 1

Probe ==
  /\ call # None /\ ~Found
  /\ NextBucket
  /\ UNCHANGED <<table, call, ret, merging, spoiled>>

Ends ==
  /\ call # None /\ Found
  /\ call' = None /\ bucket' = 0
  /\ UNCHANGED <<cap, merging>>

InsertEnds ==
  /\ Ends /\ call.f = "insert"
  /\ entries' = [entries EXCEPT ![bucket] = [key |-> call.key, value |-> call.value]]
  /\ spoiled' = (entries'[bucket] = Empty /\ Probed # Empty)
  /\ UNCHANGED ret

GetEnds ==
  /\ Ends /\ call.f = "get"
  /\ ret' = Probed.value
  /\ UNCHANGED <<entries, spoiled>>

DeleteEnds ==
  /\ Ends /\ call.f = "delete"
  /\ ret' = Probed.value
  /\ entries' = IF Probed = Empty THEN entries ELSE [entries EXCEPT ![bucket] = Tomb]
  /\ UNCHANGED spoiled

Advance == Probe \/ InsertEnds \/ GetEnds \/ DeleteEnds \/ MergeInserts

-----------------------------------------------------------------------------
(* obj_dct_with_cap, as VM_DCT calls it for a small literal. *)
Init ==
  /\ cap = GROW_CAP(0)
  /\ entries = [i \in 0 .. cap - 1 |-> Empty]
  /\ call = None /\ bucket = 0
  /\ ret = Void
  /\ merging = <<>>
  /\ spoiled = FALSE

Next ==
  \/ \E k \in Key \cup {Void}, v \in Value : obj_dct_insert(k, v)
  \/ \E k \in Key \cup {Void} : obj_dct_get(k)
  \/ \E k \in Key \cup {Void} : obj_dct_delete(k)
  \/ \E with \in With : obj_dct_merge(with)
  \/ Advance

Spec == Init /\ [][Next]_vars /\ WF_vars(Advance)

-----------------------------------------------------------------------------
(* Properties *)

(* What obj_dct_get(k) would return: the value of the first bucket on the  *)
(* way from k's home that ends the search, or void if none does.           *)
Bound(k) ==
  IF \E i \in 0 .. cap - 1 : Stops(entries, k, i)
  THEN entries[Place(entries, cap, k)].value
  ELSE Void

Promise == INSTANCE ValueMap WITH map <- [k \in Key |-> Bound(k)]

(* What the call that ends in this step asks of the map: its own operation *)
(* on its own key, with the answer the map has for that key.               *)
Asked ==
  IF call.key = Void THEN Promise!WithVoid
  ELSE \/ call.f = "insert" /\ Promise!Set(call.key, call.value)
       \/ call.f = "get" /\ Promise!Get(call.key)
       \/ call.f = "delete" /\ Promise!Delete(call.key)

(* The dictionary is a map: deletions leave a bucket that probes pass,     *)
(* growing for a merge finds every entry a new bucket, merging ends with   *)
(* the other dictionary's values, and a get or a delete answers with the   *)
(* value last stored under its key.  It ceases to be one when void is      *)
(* stored under void, which empties a bucket that other keys' probes pass. *)
ImplementsValueMap ==
  /\ Promise!Init
  /\ [][spoiled' \/ /\ [Promise!Next]_(Promise!vars)
                    /\ (call # None /\ call' = None) => Asked]_vars

(* A call returns if some bucket can end its loop; in a full table a new   *)
(* key has none.                                                           *)
CallsReturn ==
  (call # None /\ \E i \in 0 .. cap - 1 : Stops(entries, call.key, i)) ~> call = None
===============================================================================
