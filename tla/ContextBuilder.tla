----------------------------- MODULE ContextBuilder -----------------------------
(***************************************************************************)
(* How the front end finds the sources of a package                        *)
(* (source/silk/pipeline/context_builder.cxx): the imports of each source  *)
(* are resolved depth first, one match of import_regex per step.  A call   *)
(* of resolve_imports is a frame of `calls`; the recursion is what other   *)
(* sources' matches may come between.                                      *)
(*                                                                         *)
(* A definition X_Y marked Faulty is X with a plausible bug; no            *)
(* specification uses it.  The runs' properties are tested against them.   *)
(***************************************************************************)
EXTENDS Naturals, Sequences, FiniteSets

CONSTANTS
  Main,     \* the source named on the command line
  Import,   \* the strings that follow `use`
  Dirs,     \* current_path() and then the include paths
  Exists,   \* the paths <<directory, import>> of regular files
  Packages  \* what the texts of the sources may be

ASSUME ContextAssumption ==
  /\ Dirs \in Seq(STRING)
  /\ Exists \subseteq {Dirs[d] : d \in DOMAIN Dirs} \X Import
  /\ Main \notin Exists
  /\ Packages \subseteq [Exists \cup {Main} -> Seq(Import)]

Source == Exists \cup {Main}

VARIABLES
  uses,     \* uses[p]: what import_regex matches in the text of p; never changes
  calls,    \* the calls of resolve_imports under way, innermost last
  imports,  \* the keys of the map of sources
  at,       \* at[p]: where the stream of p stands
  errors    \* what was reported

vars == <<uses, calls, imports, at, errors>>

Call == [file : Source, next : Nat \ {0}]

(* The type invariant. *)
ContextTypeOK ==
  /\ uses \in [Source -> Seq(Import)]
  /\ calls \in Seq(Call)
  /\ imports \subseteq Exists
  /\ at \in [Source -> {"start", "end"}]
  /\ errors \in Seq(Import)

-----------------------------------------------------------------------------
Holding(i) == {d \in DOMAIN Dirs : <<Dirs[d], i>> \in Exists}

Resolves(i) == Holding(i) # {}

(* The current directory first, then the include paths in order.           *)
resolve_path(i) ==
  <<Dirs[CHOOSE d \in Holding(i) : \A e \in Holding(i) : d <= e], i>>

(* The call that runs, and the match it is at; reading the stream of a     *)
(* source from its end gives no text, and so no match.                     *)
Innermost == calls[Len(calls)]
Text(p) == IF at[p] = "start" THEN uses[p] ELSE <<>>
Matching == calls # <<>> /\ Innermost.next <= Len(uses[Innermost.file])
Match == uses[Innermost.file][Innermost.next]

(* The lambda returns and for_each goes on to the next match. *)
Advanced == [calls EXCEPT ![Len(calls)].next = @ + 1]

Entered(p) == [file |-> p, next |-> 1 + Len(uses[p]) - Len(Text(p))]

-----------------------------------------------------------------------------
Known(i) == resolve_path(i) \in imports

(* Faulty: an import that cannot be resolved ends the call. *)
Unresolved_GivesUp ==
  /\ Matching /\ ~Resolves(Match)
  /\ errors' = Append(errors, Match)
  /\ calls' = [calls EXCEPT ![Len(calls)].next = Len(uses[Innermost.file]) + 1]
  /\ UNCHANGED <<uses, imports, at>>

Unresolved ==
  /\ Matching /\ ~Resolves(Match)
  /\ errors' = Append(errors, Match)
  /\ calls' = Advanced
  /\ UNCHANGED <<uses, imports, at>>

(* Faulty: the loop continues without going on to the next match. *)
AlreadyResolved_Continues ==
  /\ Matching /\ Resolves(Match) /\ Known(Match)
  /\ UNCHANGED vars

AlreadyResolved ==
  /\ Matching /\ Resolves(Match) /\ Known(Match)
  /\ calls' = Advanced
  /\ UNCHANGED <<uses, imports, at, errors>>

(* Faulty: the map is keyed by what follows `use`. *)
Recurse_ByName ==
  /\ Matching /\ Resolves(Match) /\ ~Known(Match)
  /\ LET p == resolve_path(Match) IN
       /\ imports' = imports \cup {Match}
       /\ calls' = Append(Advanced, Entered(p))
       /\ at' = [at EXCEPT ![p] = "end"]
  /\ UNCHANGED <<uses, errors>>

(* The new source is in the map before its own imports are resolved. *)
Recurse ==
  /\ Matching /\ Resolves(Match) /\ ~Known(Match)
  /\ LET p == resolve_path(Match) IN
       /\ imports' = imports \cup {p}
       /\ calls' = Append(Advanced, Entered(p))
       /\ at' = [at EXCEPT ![p] = "end"]
  /\ UNCHANGED <<uses, errors>>

(* Faulty: the stream stays where the text was read to. *)
Return_NoSeek ==
  /\ calls # <<>> /\ ~Matching
  /\ calls' = SubSeq(calls, 1, Len(calls) - 1)
  /\ UNCHANGED <<uses, imports, at, errors>>

Return ==
  /\ calls # <<>> /\ ~Matching
  /\ at' = [at EXCEPT ![Innermost.file] = "start"]
  /\ calls' = SubSeq(calls, 1, Len(calls) - 1)
  /\ UNCHANGED <<uses, imports, errors>>

-----------------------------------------------------------------------------
execute ==
  /\ calls = <<[file |-> Main, next |-> 1]>>
  /\ imports = {}
  /\ at = [p \in Source |-> IF p = Main THEN "end" ELSE "start"]
  /\ errors = <<>>

Init == uses \in Packages /\ execute

Next == Unresolved \/ AlreadyResolved \/ Recurse \/ Return

Spec == Init /\ [][Next]_vars /\ WF_vars(Next)

-----------------------------------------------------------------------------
(* Properties *)

Loaded == imports \cup {Main}
Imported(p) == {resolve_path(i) : i \in {j \in Import : Resolves(j) /\ \E k \in DOMAIN uses[p] : uses[p][k] = j}}
Closed(S) == Imported(Main) \subseteq S /\ \A p \in S : Imported(p) \subseteq S

(* The package gets what its sources import, directly or not, through      *)
(* cycles and diamonds, and nothing else: the least set closed under       *)
(* importing.                                                              *)
ImportsAreTheClosure ==
  /\ calls = <<>> => Closed(imports)
  /\ \A S \in SUBSET Exists : Closed(S) => imports \subseteq S

(* The streams handed to the parser all stand at the start of their text:  *)
(* only those of the calls under way do not, and no source is in two       *)
(* calls at once, however its importers reach it.                          *)
StreamsMatchCalls ==
  /\ \A p \in Source : at[p] = "end" <=> \E n \in DOMAIN calls : calls[n].file = p
  /\ \A m, n \in DOMAIN calls : m # n => calls[m].file # calls[n].file

(* Every `use` of a loaded source that no directory holds is reported      *)
(* once, and nothing else is.                                              *)
ReportsEveryMiss ==
  calls = <<>> =>
    \A i \in Import :
      Cardinality({n \in DOMAIN errors : errors[n] = i}) =
        IF Resolves(i) THEN 0
        ELSE Cardinality(UNION {{<<p, k>> : k \in {k \in DOMAIN uses[p] : uses[p][k] = i}} :
                                  p \in Loaded})
===============================================================================
