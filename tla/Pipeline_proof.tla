----------------------------- MODULE Pipeline_proof -----------------------------
(***************************************************************************)
(* Proofs about ContextBuilder, for any directories, any files in them and *)
(* any texts; and about Pipeline, for any package: that its imports are    *)
(* resolved in the same way, that nothing of a text is lost on its way     *)
(* into the tree without a report, whatever the parser meets, and that the *)
(* parser and the regular expression agree on what is imported.            *)
(***************************************************************************)
EXTENDS Pipeline, TLAPS, WellFoundedInduction, FiniteSetTheorems

-----------------------------------------------------------------------------
(* The search of resolve_path.                                             *)

LEMMA LeastOfNaturals ==
  ASSUME NEW T \in SUBSET Nat, T # {}
  PROVE  \E x \in T : \A y \in T : x <= y
<1> DEFINE R == {ss \in Nat \X Nat : ss[1] < ss[2]}
<1>1. IsWellFoundedOn(R, Nat)
  BY NatLessThanWellFounded DEF OpToRel
<1>2. PICK x \in T : \A y \in T : ~ (<<y, x>> \in R)
  <2> HIDE DEF R
  <2> QED BY <1>1, WFMin
<1>3. \A y \in T : ~ (y < x)
  BY <1>2
<1> QED BY <1>3

LEMMA ResolvesToFile ==
  ASSUME NEW i \in Import, Resolves(i)
  PROVE  resolve_path(i) \in Exists
<1>1. Holding(i) \in SUBSET Nat /\ Holding(i) # {}
  BY ContextAssumption DEF Holding, Resolves
<1>2. \E d \in Holding(i) : \A e \in Holding(i) : d <= e
  BY <1>1, LeastOfNaturals
<1> DEFINE d == CHOOSE d \in Holding(i) : \A e \in Holding(i) : d <= e
<1>3. d \in Holding(i)
  BY <1>2
<1> QED BY <1>3 DEF Holding, resolve_path

-----------------------------------------------------------------------------
(* The invariant.  A call under way belongs to a loaded source; a call of  *)
(* an unloaded one starts at its first match, which needs the stream to be *)
(* where it was opened (StreamsMatchCalls).  An import of a loaded source  *)
(* is loaded, or its call has still to come to it.                         *)

CallsOfLoaded == \A n \in DOMAIN calls : calls[n].file \in Loaded

ToCome(p, k) == \E n \in DOMAIN calls : calls[n].file = p /\ calls[n].next <= k

NoneMissed ==
  \A p \in Loaded : \A k \in DOMAIN uses[p] :
    Resolves(uses[p][k]) => resolve_path(uses[p][k]) \in imports \/ ToCome(p, k)

NoneTooMany == \A S \in SUBSET Exists : Closed(S) => imports \subseteq S

IInv ==
  /\ ContextTypeOK /\ StreamsMatchCalls
  /\ CallsOfLoaded /\ NoneMissed /\ NoneTooMany

-----------------------------------------------------------------------------
(* The beginning, whatever the sources import. *)
Begun == uses \in [Source -> Seq(Import)] /\ execute

LEMMA InitBegun == Init => Begun
  BY ContextAssumption DEF Init, Begun, Source

LEMMA BegunIInv == Begun => IInv
<1> SUFFICES ASSUME Begun PROVE IInv
  OBVIOUS
<1>1. uses \in [Source -> Seq(Import)] /\ Main \in Source
  BY DEF Begun, Source
<1>2. ContextTypeOK
  BY <1>1 DEF Begun, execute, ContextTypeOK, Call
<1>3. DOMAIN calls = {1} /\ calls[1].file = Main /\ calls[1].next = 1
  BY DEF Begun, execute
<1>4. StreamsMatchCalls /\ CallsOfLoaded
  BY <1>3 DEF Begun, execute, StreamsMatchCalls, CallsOfLoaded, Loaded
<1>5. NoneMissed
  <2> SUFFICES ASSUME NEW p \in Loaded, NEW k \in DOMAIN uses[p] PROVE ToCome(p, k)
    BY DEF NoneMissed
  <2>1. p = Main /\ k \in Nat /\ 1 <= k
    BY <1>1 DEF Begun, execute, Loaded
  <2> QED BY <1>3, <2>1 DEF ToCome
<1> QED BY <1>2, <1>3, <1>4, <1>5 DEF IInv, NoneTooMany, Begun, execute

(* The innermost call, when there is one. *)
LEMMA InnermostFacts ==
  ASSUME ContextTypeOK, calls # <<>>
  PROVE  /\ Len(calls) \in DOMAIN calls /\ Len(calls) \in Nat /\ 0 < Len(calls)
         /\ DOMAIN calls = 1 .. Len(calls)
         /\ Innermost \in Call /\ uses[Innermost.file] \in Seq(Import)
         /\ Matching => /\ Innermost.next \in DOMAIN uses[Innermost.file]
                        /\ Match \in Import
<1>1. Len(calls) \in DOMAIN calls /\ Len(calls) \in Nat /\ 0 < Len(calls) /\ DOMAIN calls = 1 .. Len(calls)
  BY DEF ContextTypeOK
<1>2. Innermost \in Call /\ uses[Innermost.file] \in Seq(Import)
  <2>1. Innermost \in Call
    BY <1>1 DEF Innermost, ContextTypeOK
  <2>2. Innermost.file \in Source
    BY <2>1 DEF Call
  <2> QED BY <2>1, <2>2 DEF ContextTypeOK
<1>3. Matching => Innermost.next \in DOMAIN uses[Innermost.file] /\ Match \in Import
  BY <1>2 DEF Matching, Match, Call
<1> QED BY <1>1, <1>2, <1>3

(* Going on to the next match changes that counter and nothing else.       *)
LEMMA AdvancedFacts ==
  ASSUME ContextTypeOK, calls # <<>>
  PROVE  /\ Advanced \in Seq(Call) /\ DOMAIN Advanced = DOMAIN calls
         /\ Advanced[Len(calls)].next = Innermost.next + 1
         /\ \A n \in DOMAIN calls : /\ Advanced[n].file = calls[n].file
                                    /\ n # Len(calls) => Advanced[n] = calls[n]
<1> DEFINE l == Len(calls)
<1>1. l \in DOMAIN calls /\ calls[l] \in Call /\ calls \in Seq(Call)
  BY InnermostFacts DEF Innermost, ContextTypeOK
<1>2. Advanced = [calls EXCEPT ![l] = [calls[l] EXCEPT !.next = calls[l].next + 1]]
  BY <1>1 DEF Advanced
<1>3. [calls[l] EXCEPT !.next = calls[l].next + 1] \in Call
  BY <1>1 DEF Call
<1>4. Advanced \in Seq(Call) /\ DOMAIN Advanced = DOMAIN calls
  BY <1>1, <1>2, <1>3
<1>5. Advanced[l] = [calls[l] EXCEPT !.next = calls[l].next + 1]
  BY <1>1, <1>2
<1>6. Advanced[l].next = calls[l].next + 1 /\ Advanced[l].file = calls[l].file
  BY <1>1, <1>5 DEF Call
<1>7. \A n \in DOMAIN calls : n # l => Advanced[n] = calls[n]
  BY <1>1, <1>2
<1> QED BY <1>4, <1>6, <1>7 DEF Innermost

(* An import the calls still had to come to is, after the innermost one    *)
(* has gone on, the one it was at, or still to come.                       *)
LEMMA AdvancedToCome ==
  ASSUME ContextTypeOK, calls # <<>>, NEW p \in Source, NEW k \in DOMAIN uses[p],
         ToCome(p, k)
  PROVE  \/ Innermost.file = p /\ Innermost.next = k
         \/ \E n \in DOMAIN calls : Advanced[n].file = p /\ Advanced[n].next <= k
<1> DEFINE l == Len(calls)
<1>1. PICK n \in DOMAIN calls : calls[n].file = p /\ calls[n].next <= k
  BY DEF ToCome
<1>2. CASE n # l
  BY <1>1, <1>2, AdvancedFacts
<1>3. CASE n = l
  <2>1. k \in Nat /\ Innermost.next \in Nat
    BY InnermostFacts DEF ContextTypeOK, Call
  <2>2. Innermost.next <= k /\ Innermost.file = p
    BY <1>1, <1>3 DEF Innermost
  <2>3. CASE Innermost.next # k
    <3>1. Innermost.next + 1 <= k
      BY <2>1, <2>2, <2>3
    <3> QED BY <1>1, <1>3, <3>1, AdvancedFacts
  <2> QED BY <2>2, <2>3
<1> QED BY <1>2, <1>3

(* A call that has done with a match that needs nothing loaded.            *)
LEMMA AdvanceKeeps ==
  ASSUME IInv, Matching, calls' = Advanced,
         Resolves(Match) => resolve_path(Match) \in imports,
         UNCHANGED <<uses, imports, at>>, errors' \in Seq(Import)
  PROVE  IInv'
<1>1. ContextTypeOK /\ calls # <<>>
  BY DEF IInv, Matching
<1>2. ContextTypeOK'
  BY <1>1, AdvancedFacts DEF ContextTypeOK
<1>3. StreamsMatchCalls' /\ CallsOfLoaded'
  BY <1>1, AdvancedFacts DEF IInv, StreamsMatchCalls, CallsOfLoaded, Loaded
<1>4. NoneMissed'
  <2> SUFFICES ASSUME NEW p \in Loaded, NEW k \in DOMAIN uses[p],
                      Resolves(uses[p][k]), resolve_path(uses[p][k]) \notin imports
               PROVE  ToCome(p, k)'
    BY DEF NoneMissed, Loaded
  <2>1. ToCome(p, k) /\ p \in Source
    BY <1>1 DEF IInv, NoneMissed, ContextTypeOK, Loaded, Source
  <2>2. ~(Innermost.file = p /\ Innermost.next = k)
    BY DEF Match
  <2>3. \E n \in DOMAIN calls : Advanced[n].file = p /\ Advanced[n].next <= k
    BY <1>1, <2>1, <2>2, AdvancedToCome
  <2> QED BY <1>1, <2>3, AdvancedFacts DEF ToCome
<1>5. NoneTooMany'
  BY DEF IInv, NoneTooMany, Closed, Imported
<1> QED BY <1>2, <1>3, <1>4, <1>5 DEF IInv

LEMMA RecurseKeeps ==
  ASSUME IInv, Recurse
  PROVE  IInv'
<1> DEFINE p == resolve_path(Match)
           l == Len(calls)
<1>1. ContextTypeOK /\ calls # <<>> /\ Match \in Import /\ Resolves(Match)
  BY InnermostFacts DEF IInv, Recurse, Matching
<1>2. p \in Exists /\ p \notin imports /\ p # Main /\ p \in Source
  BY <1>1, ResolvesToFile, ContextAssumption DEF Recurse, Known, Source
<1>3. at[p] = "start" /\ \A n \in DOMAIN calls : calls[n].file # p
  BY <1>1, <1>2 DEF IInv, StreamsMatchCalls, CallsOfLoaded, Loaded, ContextTypeOK
<1>4. Entered(p) = [file |-> p, next |-> 1] /\ Entered(p) \in Call
  <2>1. Len(uses[p]) \in Nat
    BY <1>1, <1>2 DEF ContextTypeOK
  <2> QED BY <1>2, <1>3, <2>1 DEF Entered, Text, Call
<1>5. /\ imports' = imports \cup {p} /\ uses' = uses /\ errors' = errors
      /\ calls' = Append(Advanced, Entered(p)) /\ at' = [at EXCEPT ![p] = "end"]
  BY DEF Recurse
<1>6. /\ calls' \in Seq(Call) /\ DOMAIN calls' = DOMAIN calls \cup {l + 1}
      /\ l \in Nat /\ DOMAIN calls = 1 .. l /\ l \in DOMAIN calls
      /\ calls'[l + 1] = [file |-> p, next |-> 1]
      /\ \A n \in DOMAIN calls : /\ calls'[n] = Advanced[n]
                                 /\ calls'[n].file = calls[n].file
  <2>1. Advanced \in Seq(Call) /\ DOMAIN Advanced = 1 .. l /\ l \in Nat /\ DOMAIN calls = 1 .. l /\ l \in DOMAIN calls
    BY <1>1, AdvancedFacts, InnermostFacts
  <2>2. Len(Advanced) = l
    BY <2>1
  <2>3. /\ calls' \in Seq(Call) /\ DOMAIN calls' = 1 .. l + 1 /\ calls'[l + 1] = Entered(p)
        /\ \A n \in 1 .. l : calls'[n] = Advanced[n]
    BY <1>4, <1>5, <2>1, <2>2
  <2> QED BY <1>1, <1>4, <2>1, <2>3, AdvancedFacts
<1>7. ContextTypeOK'
  BY <1>1, <1>2, <1>5, <1>6 DEF ContextTypeOK
<1>8. StreamsMatchCalls'
  <2>1. \A q \in Source : at'[q] = "end" <=> \E n \in DOMAIN calls' : calls'[n].file = q
    <3> SUFFICES ASSUME NEW q \in Source
                 PROVE  at'[q] = "end" <=> \E n \in DOMAIN calls' : calls'[n].file = q
      OBVIOUS
    <3>1. CASE q = p
      <4>1. at'[p] = "end"
        BY <1>1, <1>2, <1>5 DEF ContextTypeOK
      <4>2. l + 1 \in DOMAIN calls' /\ calls'[l + 1].file = p
        BY <1>6
      <4> QED BY <3>1, <4>1, <4>2
    <3>2. CASE q # p
      <4>1. at'[q] = at[q]
        BY <1>1, <1>5, <3>2 DEF ContextTypeOK
      <4>2. (\E n \in DOMAIN calls' : calls'[n].file = q) <=> \E n \in DOMAIN calls : calls[n].file = q
        BY <1>6, <3>2
      <4> QED BY <4>1, <4>2 DEF IInv, StreamsMatchCalls
    <3> QED BY <3>1, <3>2
  <2>2. \A m, n \in DOMAIN calls' : m # n => calls'[m].file # calls'[n].file
    BY <1>3, <1>6 DEF IInv, StreamsMatchCalls
  <2> QED BY <2>1, <2>2 DEF StreamsMatchCalls
<1>9. CallsOfLoaded'
  <2>1. \A n \in DOMAIN calls : calls'[n].file \in Loaded'
    BY <1>5, <1>6 DEF IInv, CallsOfLoaded, Loaded
  <2>2. calls'[l + 1].file \in Loaded'
    BY <1>5, <1>6 DEF Loaded
  <2> QED BY <1>6, <2>1, <2>2 DEF CallsOfLoaded
<1>10. NoneMissed'
  <2> SUFFICES ASSUME NEW q \in Loaded', NEW k \in DOMAIN uses[q],
                      Resolves(uses[q][k]), resolve_path(uses[q][k]) \notin imports'
               PROVE  ToCome(q, k)'
    BY <1>5 DEF NoneMissed
  <2>1. CASE q = p
    <3>1. k \in Nat /\ 1 <= k
      BY <1>1, <1>2, <2>1 DEF ContextTypeOK
    <3> QED BY <1>6, <2>1, <3>1 DEF ToCome
  <2>2. CASE q # p
    <3>1. q \in Loaded /\ q \in Source
      BY <1>1, <1>5, <2>2 DEF Loaded, ContextTypeOK, Source
    <3>2. ToCome(q, k)
      BY <1>5, <3>1 DEF IInv, NoneMissed
    <3>3. ~(Innermost.file = q /\ Innermost.next = k)
      BY <1>5 DEF Match
    <3>4. \E n \in DOMAIN calls : Advanced[n].file = q /\ Advanced[n].next <= k
      BY <1>1, <3>1, <3>2, <3>3, AdvancedToCome
    <3> QED BY <1>6, <3>4 DEF ToCome
  <2> QED BY <2>1, <2>2
<1>11. NoneTooMany'
  <2> SUFFICES ASSUME NEW S \in SUBSET Exists, Closed(S) PROVE p \in S
    BY <1>5 DEF IInv, NoneTooMany, Closed, Imported
  <2>1. imports \subseteq S
    BY DEF IInv, NoneTooMany
  <2>2. Innermost.file \in Loaded
    BY <1>6 DEF IInv, CallsOfLoaded, Innermost
  <2>3. p \in Imported(Innermost.file)
    BY <1>1, InnermostFacts DEF Imported, Match, Recurse
  <2> QED BY <2>1, <2>2, <2>3 DEF Closed, Loaded
<1> QED BY <1>7, <1>8, <1>9, <1>10, <1>11 DEF IInv

LEMMA ReturnKeeps ==
  ASSUME IInv, Return
  PROVE  IInv'
<1> DEFINE l == Len(calls)
           f == Innermost.file
<1>1. ContextTypeOK /\ calls # <<>> /\ ~Matching
  BY DEF IInv, Return
<1>2. /\ uses' = uses /\ imports' = imports /\ errors' = errors
      /\ at' = [at EXCEPT ![f] = "start"] /\ calls' = SubSeq(calls, 1, l - 1)
  BY DEF Return
<1>3. l \in Nat /\ 0 < l /\ l \in DOMAIN calls /\ DOMAIN calls = 1 .. l /\ f \in Source
  BY <1>1, InnermostFacts DEF Call
<1>4. /\ calls' \in Seq(Call) /\ DOMAIN calls' = 1 .. l - 1
      /\ \A n \in 1 .. l - 1 : calls'[n] = calls[n]
  BY <1>1, <1>2, <1>3 DEF ContextTypeOK
<1>5. ContextTypeOK'
  BY <1>1, <1>2, <1>3, <1>4 DEF ContextTypeOK
<1>6. StreamsMatchCalls'
  <2>1. \A q \in Source : at'[q] = "end" <=> \E n \in DOMAIN calls' : calls'[n].file = q
    <3> SUFFICES ASSUME NEW q \in Source
                 PROVE  at'[q] = "end" <=> \E n \in DOMAIN calls' : calls'[n].file = q
      OBVIOUS
    <3>1. CASE q = f
      <4>1. at'[q] # "end"
        BY <1>1, <1>2, <1>3, <3>1 DEF ContextTypeOK
      <4>2. \A n \in 1 .. l - 1 : calls[n].file # f
        BY <1>3 DEF IInv, StreamsMatchCalls, Innermost
      <4> QED BY <1>4, <3>1, <4>1, <4>2
    <3>2. CASE q # f
      <4>1. at'[q] = at[q]
        BY <1>1, <1>2, <3>2 DEF ContextTypeOK
      <4>2. (\E n \in DOMAIN calls' : calls'[n].file = q) <=> \E n \in DOMAIN calls : calls[n].file = q
        BY <1>3, <1>4, <3>2 DEF Innermost
      <4> QED BY <4>1, <4>2 DEF IInv, StreamsMatchCalls
    <3> QED BY <3>1, <3>2
  <2>2. \A m, n \in DOMAIN calls' : m # n => calls'[m].file # calls'[n].file
    BY <1>3, <1>4 DEF IInv, StreamsMatchCalls
  <2> QED BY <2>1, <2>2 DEF StreamsMatchCalls
<1>7. CallsOfLoaded'
  BY <1>2, <1>3, <1>4 DEF IInv, CallsOfLoaded, Loaded
<1>8. NoneMissed'
  <2> SUFFICES ASSUME NEW q \in Loaded, NEW k \in DOMAIN uses[q],
                      Resolves(uses[q][k]), resolve_path(uses[q][k]) \notin imports
               PROVE  ToCome(q, k)'
    BY <1>2 DEF NoneMissed, Loaded
  <2>1. PICK n \in DOMAIN calls : calls[n].file = q /\ calls[n].next <= k
    BY DEF IInv, NoneMissed, ToCome
  <2>2. n # l
    <3>1. CASE n = l
      <4>1. k \in 1 .. Len(uses[f]) /\ Innermost.next <= k /\ Len(uses[f]) \in Nat
        BY <1>1, <1>3, <2>1, <3>1 DEF Innermost, ContextTypeOK
      <4>2. Innermost.next \in Nat
        BY <1>1, InnermostFacts DEF Call
      <4> QED BY <1>1, <4>1, <4>2 DEF Matching
    <3> QED BY <3>1
  <2>3. n \in 1 .. l - 1
    BY <1>3, <2>2
  <2> QED BY <1>4, <2>1, <2>3 DEF ToCome
<1>9. NoneTooMany'
  BY <1>2 DEF IInv, NoneTooMany, Closed, Imported
<1> QED BY <1>5, <1>6, <1>7, <1>8, <1>9 DEF IInv

-----------------------------------------------------------------------------
LEMMA NextIInv == IInv /\ [Next]_vars => IInv'
<1> SUFFICES ASSUME IInv, [Next]_vars PROVE IInv'
  OBVIOUS
<1>1. CASE Unresolved
  <2>1. Match \in Import /\ errors \in Seq(Import)
    BY <1>1, InnermostFacts DEF Unresolved, IInv, ContextTypeOK, Matching
  <2>2. errors' \in Seq(Import)
    BY <1>1, <2>1 DEF Unresolved
  <2> QED BY <1>1, <2>2, AdvanceKeeps DEF Unresolved
<1>2. CASE AlreadyResolved
  <2>1. errors' \in Seq(Import)
    BY <1>2 DEF AlreadyResolved, IInv, ContextTypeOK
  <2> QED BY <1>2, <2>1, AdvanceKeeps DEF AlreadyResolved, Known
<1>3. CASE Recurse
  BY <1>3, RecurseKeeps
<1>4. CASE Return
  BY <1>4, ReturnKeeps
<1>5. CASE UNCHANGED vars
  BY <1>5 DEF vars, IInv, ContextTypeOK, StreamsMatchCalls, CallsOfLoaded, Loaded,
              NoneMissed, ToCome, NoneTooMany, Closed, Imported
<1> QED BY <1>1, <1>2, <1>3, <1>4, <1>5 DEF Next

LEMMA AlwaysIInv == Spec => []IInv
  BY InitBegun, BegunIInv, NextIInv, PTL DEF Spec

(* The map of sources, the streams and the calls keep their types: in      *)
(* particular only regular files are ever opened.                          *)
THEOREM ContextTypeCorrect == Spec => []ContextTypeOK
<1>1. IInv => ContextTypeOK
  BY DEF IInv
<1> QED BY <1>1, AlwaysIInv, PTL

(* resolve_imports never reads a source that is being read, and leaves     *)
(* every stream where the parser expects it.                               *)
THEOREM StreamsAreRewound == Spec => []StreamsMatchCalls
<1>1. IInv => StreamsMatchCalls
  BY DEF IInv
<1> QED BY <1>1, AlwaysIInv, PTL

LEMMA AllLoaded == IInv => ImportsAreTheClosure
<1> SUFFICES ASSUME IInv PROVE ImportsAreTheClosure
  OBVIOUS
<1>1. ASSUME calls = <<>> PROVE Closed(imports)
  <2>1. \A q \in Loaded : \A k \in DOMAIN uses[q] :
           Resolves(uses[q][k]) => resolve_path(uses[q][k]) \in imports
    BY <1>1 DEF IInv, NoneMissed, ToCome
  <2> QED BY <2>1 DEF Closed, Imported, Loaded
<1> QED BY <1>1 DEF IInv, NoneTooMany, ImportsAreTheClosure

(* When the outermost resolve_imports returns, the map of sources is the   *)
(* least set closed under importing, for any import graph.                 *)
THEOREM LoadsTheClosure == Spec => []ImportsAreTheClosure
  BY AllLoaded, AlwaysIInv, PTL

-----------------------------------------------------------------------------
(* The reports.  While calls are under way the matches of the loaded       *)
(* sources are those the calls have passed and those still to come, and    *)
(* what is reported counts the passed ones.                                *)

Reported(i) == {n \in DOMAIN errors : errors[n] = i}

MatchesOf(i) == {m \in Loaded \X Nat : m[2] \in DOMAIN uses[m[1]] /\ uses[m[1]][m[2]] = i}

Passed(i) == {m \in MatchesOf(i) : ~ToCome(m[1], m[2])}

Counted(i) ==
  IF Resolves(i) THEN Reported(i) = {}
  ELSE /\ IsFiniteSet(Reported(i)) /\ IsFiniteSet(Passed(i))
       /\ Cardinality(Reported(i)) = Cardinality(Passed(i))

PassedAreReported == \A i \in Import : Counted(i)

LEMMA BegunPassedAreReported == Begun => PassedAreReported
<1> SUFFICES ASSUME Begun, NEW i \in Import PROVE Counted(i)
  BY DEF PassedAreReported
<1>1. Reported(i) = {}
  BY DEF Begun, execute, Reported
<1>2. Passed(i) = {}
  <2> SUFFICES ASSUME NEW m \in MatchesOf(i) PROVE ToCome(m[1], m[2])
    BY DEF Passed
  <2>1. m[1] = Main
    BY DEF MatchesOf, Loaded, Begun, execute
  <2>2. uses[Main] \in Seq(Import)
    BY DEF Begun, Source
  <2>3. m[2] \in Nat /\ 1 <= m[2]
    BY <2>1, <2>2 DEF MatchesOf
  <2>4. 1 \in DOMAIN calls /\ calls[1].file = Main /\ calls[1].next = 1
    BY DEF Begun, execute
  <2> QED BY <2>1, <2>3, <2>4 DEF ToCome
<1> QED BY <1>1, <1>2, FS_EmptySet DEF Counted

(* The innermost call goes on from its match: this one is passed, and      *)
(* nothing else.                                                           *)
LEMMA AdvancedPasses ==
  ASSUME IInv, Matching, NEW p \in Source, NEW k \in DOMAIN uses[p]
  PROVE  (\E n \in DOMAIN calls : Advanced[n].file = p /\ Advanced[n].next <= k)
           <=> ToCome(p, k) /\ ~(p = Innermost.file /\ k = Innermost.next)
<1> DEFINE l == Len(calls)
<1>1. ContextTypeOK /\ calls # <<>> /\ l \in DOMAIN calls
  BY InnermostFacts DEF IInv, Matching
<1>2. k \in Nat /\ Innermost.next \in Nat
  BY <1>1, InnermostFacts DEF ContextTypeOK, Call
<1>3. ASSUME NEW n \in DOMAIN calls, Advanced[n].file = p, Advanced[n].next <= k
      PROVE  ToCome(p, k) /\ ~(p = Innermost.file /\ k = Innermost.next)
  <2>1. CASE n = l
    <3>1. Innermost.file = p /\ Innermost.next + 1 <= k
      BY <1>1, <1>3, <2>1, AdvancedFacts DEF Innermost
    <3>2. Innermost.next <= k /\ k # Innermost.next
      BY <1>2, <3>1
    <3> QED BY <1>1, <3>1, <3>2 DEF ToCome, Innermost
  <2>2. CASE n # l
    <3>1. calls[n].file = p /\ calls[n].next <= k
      BY <1>1, <1>3, <2>2, AdvancedFacts
    <3>2. p # Innermost.file
      BY <1>1, <2>2, <3>1 DEF IInv, StreamsMatchCalls, Innermost
    <3> QED BY <3>1, <3>2 DEF ToCome
  <2> QED BY <2>1, <2>2
<1>4. ASSUME ToCome(p, k), ~(p = Innermost.file /\ k = Innermost.next)
      PROVE  \E n \in DOMAIN calls : Advanced[n].file = p /\ Advanced[n].next <= k
  BY <1>1, <1>4, AdvancedToCome
<1> QED BY <1>3, <1>4

(* A step that passes no match of i and reports no i.                      *)
LEMMA NothingCounted ==
  ASSUME NEW i \in Import, Counted(i), Reported(i)' = Reported(i),
         Resolves(i) \/ Passed(i)' = Passed(i)
  PROVE  Counted(i)'
<1>1. Resolves(i)' <=> Resolves(i)
  BY DEF Resolves, Holding
<1> QED BY <1>1 DEF Counted

LEMMA UnresolvedCounts ==
  ASSUME IInv, PassedAreReported, Unresolved
  PROVE  PassedAreReported'
<1> DEFINE f == Innermost.file
           k == Innermost.next
           e == Len(errors) + 1
<1>1. /\ ContextTypeOK /\ calls # <<>> /\ Matching /\ Match \in Import /\ ~Resolves(Match)
      /\ f \in Source /\ f \in Loaded /\ k \in DOMAIN uses[f] /\ k \in Nat /\ Match = uses[f][k]
  BY InnermostFacts DEF IInv, Unresolved, Matching, Match, Call, CallsOfLoaded, Innermost
<1>2. /\ uses' = uses /\ imports' = imports /\ calls' = Advanced
      /\ errors' = Append(errors, Match)
  BY DEF Unresolved
<1>3. DOMAIN errors' = DOMAIN errors \cup {e} /\ e \notin DOMAIN errors /\ errors'[e] = Match
      /\ \A n \in DOMAIN errors : errors'[n] = errors[n]
  BY <1>1, <1>2 DEF ContextTypeOK
<1>4. \A i \in Import : MatchesOf(i)' = MatchesOf(i)
  BY <1>2 DEF MatchesOf, Loaded
<1>5. \A i \in Import : \A m \in MatchesOf(i) :
        ToCome(m[1], m[2])' <=> ToCome(m[1], m[2]) /\ ~(m[1] = f /\ m[2] = k)
  <2> SUFFICES ASSUME NEW i \in Import, NEW m \in MatchesOf(i)
               PROVE  ToCome(m[1], m[2])' <=> ToCome(m[1], m[2]) /\ ~(m[1] = f /\ m[2] = k)
    OBVIOUS
  <2>1. m[1] \in Source /\ m[2] \in DOMAIN uses[m[1]]
    BY <1>1 DEF MatchesOf, Loaded, Source, ContextTypeOK
  <2>2. ToCome(m[1], m[2])' <=> \E n \in DOMAIN calls : Advanced[n].file = m[1] /\ Advanced[n].next <= m[2]
    BY <1>1, <1>2, AdvancedFacts DEF ToCome
  <2> QED BY <1>1, <2>1, <2>2, AdvancedPasses
<1> SUFFICES ASSUME NEW i \in Import PROVE Counted(i)'
  BY DEF PassedAreReported
<1>6. Counted(i)
  BY DEF PassedAreReported
<1>7. CASE i = Match
  <2>1. Reported(i)' = Reported(i) \cup {e} /\ e \notin Reported(i)
    BY <1>3, <1>7 DEF Reported
  <2>2. <<f, k>> \in MatchesOf(i)
    BY <1>1, <1>7 DEF MatchesOf
  <2>3. ToCome(f, k)
    <3>1. Len(calls) \in DOMAIN calls /\ calls[Len(calls)].file = f /\ calls[Len(calls)].next <= k
      BY <1>1, InnermostFacts DEF Innermost
    <3> QED BY <3>1 DEF ToCome
  <2>4. \A m \in MatchesOf(i) : m = <<f, k>> <=> m[1] = f /\ m[2] = k
    BY DEF MatchesOf
  <2>5. Passed(i)' = Passed(i) \cup {<<f, k>>} /\ <<f, k>> \notin Passed(i)
    BY <1>4, <1>5, <2>2, <2>3, <2>4 DEF Passed
  <2>6. IsFiniteSet(Reported(i)) /\ IsFiniteSet(Passed(i)) /\ Cardinality(Reported(i)) = Cardinality(Passed(i))
    BY <1>1, <1>6, <1>7 DEF Counted
  <2>7. /\ IsFiniteSet(Reported(i)') /\ IsFiniteSet(Passed(i)')
        /\ Cardinality(Reported(i)') = Cardinality(Reported(i)) + 1
        /\ Cardinality(Passed(i)') = Cardinality(Passed(i)) + 1
    <3>1. /\ IsFiniteSet(Reported(i) \cup {e})
          /\ Cardinality(Reported(i) \cup {e}) = Cardinality(Reported(i)) + 1
      <4> HIDE DEF e
      <4> QED BY <2>1, <2>6, FS_AddElement
    <3>2. /\ IsFiniteSet(Passed(i) \cup {<<f, k>>})
          /\ Cardinality(Passed(i) \cup {<<f, k>>}) = Cardinality(Passed(i)) + 1
      BY <2>5, <2>6, FS_AddElement
    <3> QED BY <2>1, <2>5, <3>1, <3>2
  <2>8. ~Resolves(i)'
    BY <1>1, <1>7 DEF Resolves, Holding
  <2> QED BY <2>6, <2>7, <2>8 DEF Counted
<1>8. CASE i # Match
  <2>1. Reported(i)' = Reported(i)
    BY <1>3, <1>8 DEF Reported
  <2>2. \A m \in MatchesOf(i) : ~(m[1] = f /\ m[2] = k)
    BY <1>1, <1>8 DEF MatchesOf
  <2>3. Passed(i)' = Passed(i)
    BY <1>4, <1>5, <2>2 DEF Passed
  <2> QED BY <1>6, <2>1, <2>3, NothingCounted
<1> QED BY <1>7, <1>8

LEMMA AlreadyResolvedCounts ==
  ASSUME IInv, PassedAreReported, AlreadyResolved
  PROVE  PassedAreReported'
<1> DEFINE f == Innermost.file
           k == Innermost.next
<1>1. ContextTypeOK /\ calls # <<>> /\ Matching /\ Resolves(Match)
  BY DEF IInv, AlreadyResolved, Matching
<1>2. uses' = uses /\ imports' = imports /\ errors' = errors /\ calls' = Advanced
  BY DEF AlreadyResolved
<1> SUFFICES ASSUME NEW i \in Import, ~Resolves(i) PROVE Passed(i)' = Passed(i)
  BY <1>2, NothingCounted DEF PassedAreReported, Reported
<1>3. ASSUME NEW m \in MatchesOf(i) PROVE ToCome(m[1], m[2])' <=> ToCome(m[1], m[2])
  <2>1. m[1] \in Source /\ m[2] \in DOMAIN uses[m[1]] /\ uses[m[1]][m[2]] = i
    BY <1>1 DEF MatchesOf, Loaded, Source, ContextTypeOK
  <2>2. ToCome(m[1], m[2])' <=> \E n \in DOMAIN calls : Advanced[n].file = m[1] /\ Advanced[n].next <= m[2]
    BY <1>1, <1>2, AdvancedFacts DEF ToCome
  <2>3. ~(m[1] = f /\ m[2] = k)
    BY <1>1, <2>1 DEF Match
  <2> QED BY <1>1, <2>1, <2>2, <2>3, AdvancedPasses
<1>4. MatchesOf(i)' = MatchesOf(i)
  BY <1>2 DEF MatchesOf, Loaded
<1> QED BY <1>3, <1>4 DEF Passed

LEMMA RecurseCounts ==
  ASSUME IInv, PassedAreReported, Recurse
  PROVE  PassedAreReported'
<1> DEFINE f == Innermost.file
           k == Innermost.next
           p == resolve_path(Match)
           l == Len(calls)
<1>1. ContextTypeOK /\ calls # <<>> /\ Matching /\ Match \in Import /\ Resolves(Match)
  BY InnermostFacts DEF IInv, Recurse, Matching
<1>2. p \in Exists /\ p \notin Loaded /\ p \in Source
  BY <1>1, ResolvesToFile, ContextAssumption DEF Recurse, Known, Source, Loaded
<1>3. at[p] = "start" /\ \A n \in DOMAIN calls : calls[n].file # p
  BY <1>1, <1>2 DEF IInv, StreamsMatchCalls, CallsOfLoaded, ContextTypeOK
<1>4. Entered(p) = [file |-> p, next |-> 1]
  <2>1. Len(uses[p]) \in Nat
    BY <1>1, <1>2 DEF ContextTypeOK
  <2> QED BY <1>3, <2>1 DEF Entered, Text
<1>5. /\ imports' = imports \cup {p} /\ uses' = uses /\ errors' = errors
      /\ calls' = Append(Advanced, Entered(p))
  BY DEF Recurse
<1>6. /\ DOMAIN calls' = DOMAIN calls \cup {l + 1} /\ calls'[l + 1] = [file |-> p, next |-> 1]
      /\ \A n \in DOMAIN calls : calls'[n] = Advanced[n]
  <2>1. Advanced \in Seq(Call) /\ DOMAIN Advanced = 1 .. l /\ l \in Nat /\ DOMAIN calls = 1 .. l
    BY <1>1, AdvancedFacts, InnermostFacts
  <2>2. Len(Advanced) = l
    BY <2>1
  <2> QED BY <1>4, <1>5, <2>1, <2>2
<1> SUFFICES ASSUME NEW i \in Import, ~Resolves(i) PROVE Passed(i)' = Passed(i)
  BY <1>5, NothingCounted DEF PassedAreReported, Reported
<1>7. ASSUME NEW m \in MatchesOf(i) PROVE ToCome(m[1], m[2])' <=> ToCome(m[1], m[2])
  <2>1. m[1] \in Source /\ m[2] \in DOMAIN uses[m[1]] /\ uses[m[1]][m[2]] = i /\ m[1] # p
    BY <1>1, <1>2 DEF MatchesOf, Loaded, Source, ContextTypeOK
  <2>2. ToCome(m[1], m[2])' <=> \E n \in DOMAIN calls : Advanced[n].file = m[1] /\ Advanced[n].next <= m[2]
    BY <1>6, <2>1 DEF ToCome
  <2>3. ~(m[1] = f /\ m[2] = k)
    BY <1>1, <2>1 DEF Match
  <2> QED BY <1>1, <2>1, <2>2, <2>3, AdvancedPasses
<1>8. ASSUME NEW m \in MatchesOf(i)' PROVE m \in MatchesOf(i) \/ ToCome(m[1], m[2])'
  <2>1. m[1] \in Loaded \/ m[1] = p
    BY <1>5 DEF MatchesOf, Loaded
  <2>2. CASE m[1] = p
    <3>1. m[2] \in Nat /\ 1 <= m[2]
      BY <1>1, <1>2, <1>5, <2>2 DEF MatchesOf, ContextTypeOK
    <3> QED BY <1>6, <2>2, <3>1 DEF ToCome
  <2>3. CASE m[1] \in Loaded
    BY <1>5, <2>3 DEF MatchesOf
  <2> QED BY <2>1, <2>2, <2>3
<1>9. MatchesOf(i) \subseteq MatchesOf(i)'
  BY <1>5 DEF MatchesOf, Loaded
<1> QED BY <1>7, <1>8, <1>9 DEF Passed

LEMMA ReturnCounts ==
  ASSUME IInv, PassedAreReported, Return
  PROVE  PassedAreReported'
<1> DEFINE l == Len(calls)
<1>1. ContextTypeOK /\ calls # <<>> /\ ~Matching
  BY DEF IInv, Return
<1>2. uses' = uses /\ imports' = imports /\ errors' = errors /\ calls' = SubSeq(calls, 1, l - 1)
  BY DEF Return
<1>3. /\ l \in Nat /\ 0 < l /\ DOMAIN calls = 1 .. l /\ DOMAIN calls' = 1 .. l - 1
      /\ \A n \in 1 .. l - 1 : calls'[n] = calls[n]
  BY <1>1, <1>2, InnermostFacts DEF ContextTypeOK
<1> SUFFICES ASSUME NEW i \in Import PROVE Passed(i)' = Passed(i)
  BY <1>2, NothingCounted DEF PassedAreReported, Reported
<1>4. ASSUME NEW m \in MatchesOf(i) PROVE ToCome(m[1], m[2])' <=> ToCome(m[1], m[2])
  <2>1. m[1] \in Source /\ m[2] \in DOMAIN uses[m[1]]
    BY <1>1 DEF MatchesOf, Loaded, Source, ContextTypeOK
  <2>2. ~(calls[l].file = m[1] /\ calls[l].next <= m[2])
    <3> SUFFICES ASSUME calls[l].file = m[1], calls[l].next <= m[2] PROVE FALSE
      OBVIOUS
    <3>1. m[2] <= Len(uses[Innermost.file]) /\ m[2] \in Nat /\ Len(uses[Innermost.file]) \in Nat
      BY <1>1, <2>1 DEF Innermost, ContextTypeOK
    <3>2. Innermost.next \in Nat /\ Innermost.next <= m[2]
      BY <1>1, InnermostFacts DEF Innermost, Call
    <3> QED BY <1>1, <3>1, <3>2 DEF Matching
  <2>3. ToCome(m[1], m[2])' <=> \E n \in 1 .. l - 1 : calls[n].file = m[1] /\ calls[n].next <= m[2]
    BY <1>3 DEF ToCome
  <2>4. DOMAIN calls = (1 .. l - 1) \cup {l}
    BY <1>3
  <2> QED BY <2>2, <2>3, <2>4 DEF ToCome
<1>5. MatchesOf(i)' = MatchesOf(i)
  BY <1>2 DEF MatchesOf, Loaded
<1> QED BY <1>4, <1>5 DEF Passed

LEMMA NextPassedAreReported ==
  ASSUME IInv, PassedAreReported, [Next]_vars
  PROVE  PassedAreReported'
<1>1. CASE UNCHANGED vars
  <2> SUFFICES ASSUME NEW i \in Import PROVE Counted(i)'
    BY DEF PassedAreReported
  <2>1. Reported(i)' = Reported(i) /\ MatchesOf(i)' = MatchesOf(i)
    BY <1>1 DEF vars, Reported, MatchesOf, Loaded
  <2>2. Passed(i)' = Passed(i)
    BY <1>1, <2>1 DEF vars, Passed, ToCome
  <2> QED BY <2>1, <2>2, NothingCounted DEF PassedAreReported
<1> QED BY <1>1, UnresolvedCounts, AlreadyResolvedCounts, RecurseCounts, ReturnCounts DEF Next

LEMMA AllPassed ==
  ASSUME ContextTypeOK, PassedAreReported
  PROVE  ReportsEveryMiss
<1> SUFFICES ASSUME calls = <<>>, NEW i \in Import
             PROVE  Cardinality({n \in DOMAIN errors : errors[n] = i}) =
                      IF Resolves(i) THEN 0
                      ELSE Cardinality(UNION {{<<p, k>> : k \in {k \in DOMAIN uses[p] : uses[p][k] = i}} :
                                                p \in Loaded})
  BY DEF ReportsEveryMiss
<1> DEFINE U == UNION {{<<p, k>> : k \in {k \in DOMAIN uses[p] : uses[p][k] = i}} : p \in Loaded}
<1>1. \A p \in Loaded : DOMAIN uses[p] \subseteq Nat
  BY DEF ContextTypeOK, Loaded, Source
<1>2. Passed(i) = MatchesOf(i)
  BY DEF Passed, ToCome
<1>3. MatchesOf(i) = U
  <2>1. ASSUME NEW m \in MatchesOf(i) PROVE m \in U
    <3>1. m = <<m[1], m[2]>> /\ m[1] \in Loaded /\ m[2] \in {k \in DOMAIN uses[m[1]] : uses[m[1]][k] = i}
      BY DEF MatchesOf
    <3> QED BY <3>1
  <2>2. ASSUME NEW m \in U PROVE m \in MatchesOf(i)
    <3>1. PICK p \in Loaded : m \in {<<p, k>> : k \in {k \in DOMAIN uses[p] : uses[p][k] = i}}
      OBVIOUS
    <3>2. PICK k \in DOMAIN uses[p] : uses[p][k] = i /\ m = <<p, k>>
      BY <3>1
    <3> QED BY <1>1, <3>1, <3>2 DEF MatchesOf
  <2> HIDE DEF U
  <2> QED BY <2>1, <2>2
<1> HIDE DEF U
<1> SUFFICES Cardinality(Reported(i)) = IF Resolves(i) THEN 0 ELSE Cardinality(U)
  BY DEF Reported, U
<1> QED BY <1>2, <1>3, FS_EmptySet DEF PassedAreReported, Counted

(* Every import of a loaded source that no directory holds is reported     *)
(* exactly once, however often and by whomever the source is imported, and *)
(* no import that a directory holds is ever reported.                      *)
THEOREM MissesAreReported == Spec => []ReportsEveryMiss
<1> DEFINE Both == IInv /\ PassedAreReported
<1>1. Init => Both
  BY InitBegun, BegunIInv, BegunPassedAreReported
<1>2. Both /\ [Next]_vars => Both'
  BY NextIInv, NextPassedAreReported
<1>3. Both => ReportsEveryMiss
  BY AllPassed DEF IInv
<1> HIDE DEF Both
<1> QED BY <1>1, <1>2, <1>3, PTL DEF Spec

-----------------------------------------------------------------------------
(* Resolution.  A package is resolved before anything is parsed, and then  *)
(* stays as it is.                                                         *)

Resolution == IInv /\ PassedAreReported

LEMMA InitResolution == PipelineInit => Resolution
<1> SUFFICES ASSUME PipelineInit PROVE Begun
  BY BegunIInv, BegunPassedAreReported DEF Resolution
<1> QED BY PipelineAssumption DEF PipelineInit, Begun

LEMMA PipelineSteps == [PipelineNext]_pipelineVars => [Next]_vars
  BY DEF PipelineNext, pipelineVars, ResolveImports, StartParsing, Parse, ParseNext,
         StartOptimizing, Optimize, OptimizeNext, Finish

LEMMA NextResolution == Resolution /\ [PipelineNext]_pipelineVars => Resolution'
  BY PipelineSteps, NextIInv, NextPassedAreReported DEF Resolution

(* In the pipeline the package is the least set of sources closed under    *)
(* importing, every import that no directory holds was reported once, and  *)
(* every stream is handed to the parser at its start.                      *)
THEOREM PipelineResolvesImports ==
  PipelineSpec => [](ContextTypeOK /\ StreamsMatchCalls /\ ImportsAreTheClosure /\ ReportsEveryMiss)
<1>1. Resolution => ContextTypeOK /\ StreamsMatchCalls /\ ImportsAreTheClosure /\ ReportsEveryMiss
  <2> SUFFICES ASSUME Resolution
               PROVE  ContextTypeOK /\ StreamsMatchCalls /\ ImportsAreTheClosure /\ ReportsEveryMiss
    OBVIOUS
  <2>1. ContextTypeOK /\ StreamsMatchCalls
    BY DEF Resolution, IInv
  <2> QED BY <2>1, AllLoaded, AllPassed DEF Resolution
<1> QED BY <1>1, InitResolution, NextResolution, PTL DEF PipelineSpec

-----------------------------------------------------------------------------
(* Sequences of no particular elements.                                    *)

IsSeq(s) == s \in Seq({s[i] : i \in DOMAIN s})

LEMMA SeqIsSeq == ASSUME NEW S, NEW s \in Seq(S) PROVE IsSeq(s)
<1>1. s \in [1 .. Len(s) -> {s[i] : i \in DOMAIN s}] /\ Len(s) \in Nat
  OBVIOUS
<1> QED BY <1>1 DEF IsSeq

LEMMA IsSeqFacts ==
  ASSUME NEW s, IsSeq(s)
  PROVE  Len(s) \in Nat /\ DOMAIN s = 1 .. Len(s) /\ (s = <<>> <=> Len(s) = 0)
<1>1. PICK S : s \in Seq(S)
  BY DEF IsSeq
<1> QED BY <1>1

LEMMA AppendFacts ==
  ASSUME NEW s, IsSeq(s), NEW e
  PROVE  /\ IsSeq(Append(s, e)) /\ Len(Append(s, e)) = Len(s) + 1
         /\ DOMAIN Append(s, e) = 1 .. Len(s) + 1
         /\ \A i \in DOMAIN s : Append(s, e)[i] = s[i]
         /\ Append(s, e)[Len(s) + 1] = e
<1> DEFINE S == {s[i] : i \in DOMAIN s} \cup {e}
<1>1. s \in Seq(S)
  <2>1. s \in [1 .. Len(s) -> S] /\ Len(s) \in Nat
    BY IsSeqFacts, s \in Seq({s[i] : i \in DOMAIN s}) DEF IsSeq
  <2> QED BY <2>1
<1>2. e \in S
  OBVIOUS
<1> HIDE DEF S
<1>3. Append(s, e) \in Seq(S) /\ Len(Append(s, e)) = Len(s) + 1 /\ Len(s) \in Nat
  BY <1>1, <1>2
<1>4. IsSeq(Append(s, e))
  BY <1>3, SeqIsSeq
<1>5. DOMAIN Append(s, e) = 1 .. Len(s) + 1
  BY <1>3
<1>6. /\ \A i \in DOMAIN s : Append(s, e)[i] = s[i]
      /\ Append(s, e)[Len(s) + 1] = e
  BY <1>1, <1>2, <1>3
<1> QED BY <1>3, <1>4, <1>5, <1>6

LEMMA ConcatFacts ==
  ASSUME NEW s, IsSeq(s), NEW t, IsSeq(t)
  PROVE  /\ IsSeq(s \o t) /\ Len(s \o t) = Len(s) + Len(t)
         /\ \A i \in 1 .. Len(s) : (s \o t)[i] = s[i]
         /\ \A i \in 1 .. Len(t) : (s \o t)[Len(s) + i] = t[i]
<1> DEFINE S == {s[i] : i \in DOMAIN s} \cup {t[i] : i \in DOMAIN t}
<1>1. s \in Seq(S) /\ t \in Seq(S)
  <2>1. s \in [1 .. Len(s) -> S] /\ Len(s) \in Nat
    BY IsSeqFacts, s \in Seq({s[i] : i \in DOMAIN s}) DEF IsSeq
  <2>2. t \in [1 .. Len(t) -> S] /\ Len(t) \in Nat
    BY IsSeqFacts, t \in Seq({t[i] : i \in DOMAIN t}) DEF IsSeq
  <2> QED BY <2>1, <2>2
<1> HIDE DEF S
<1>2. s \o t \in Seq(S) /\ Len(s) \in Nat /\ Len(t) \in Nat
  BY <1>1
<1>3. \A i \in 1 .. Len(s) : (s \o t)[i] = s[i]
  BY <1>1
<1>4. \A i \in 1 .. Len(t) : (s \o t)[Len(s) + i] = t[i]
  BY <1>1
<1>5. IsSeq(s \o t)
  BY <1>2, SeqIsSeq
<1> QED BY <1>1, <1>3, <1>4, <1>5

LEMMA TailFacts ==
  ASSUME NEW s, IsSeq(s), s # <<>>
  PROVE  /\ IsSeq(Tail(s)) /\ Len(Tail(s)) = Len(s) - 1
         /\ \A i \in 1 .. Len(s) - 1 : Tail(s)[i] = s[i + 1]
         /\ Head(s) = s[1] /\ Len(s) \in Nat \ {0}
<1> DEFINE S == {s[i] : i \in DOMAIN s}
<1>1. s \in Seq(S)
  BY DEF IsSeq
<1> HIDE DEF S
<1>2. Tail(s) \in Seq(S)
  BY <1>1
<1>3. IsSeq(Tail(s))
  BY <1>2, SeqIsSeq
<1> QED BY <1>1, <1>3

LEMMA ExceptFacts ==
  ASSUME NEW s, IsSeq(s), NEW k \in DOMAIN s, NEW e
  PROVE  /\ IsSeq([s EXCEPT ![k] = e]) /\ Len([s EXCEPT ![k] = e]) = Len(s)
         /\ DOMAIN [s EXCEPT ![k] = e] = DOMAIN s
         /\ [s EXCEPT ![k] = e][k] = e
         /\ \A i \in DOMAIN s : i # k => [s EXCEPT ![k] = e][i] = s[i]
<1> DEFINE S == {s[i] : i \in DOMAIN s} \cup {e}
           t == [s EXCEPT ![k] = e]
<1>1. Len(s) \in Nat /\ DOMAIN s = 1 .. Len(s)
  BY IsSeqFacts
<1>2. t \in [1 .. Len(s) -> S]
  BY <1>1
<1>3. t \in Seq(S) /\ Len(t) = Len(s)
  BY <1>1, <1>2
<1> HIDE DEF S
<1>4. IsSeq(t)
  BY <1>3, SeqIsSeq
<1> QED BY <1>1, <1>3, <1>4

LEMMA FrontFacts ==
  ASSUME NEW s, IsSeq(s), s # <<>>
  PROVE  LET t == SubSeq(s, 1, Len(s) - 1) IN
         /\ IsSeq(t) /\ Len(t) = Len(s) - 1
         /\ DOMAIN t = 1 .. Len(s) - 1
         /\ \A i \in 1 .. Len(s) - 1 : t[i] = s[i]
<1> DEFINE S == {s[i] : i \in DOMAIN s}
           t == SubSeq(s, 1, Len(s) - 1)
<1>1. s \in Seq(S) /\ Len(s) \in Nat /\ Len(s) # 0 /\ DOMAIN s = 1 .. Len(s)
  BY IsSeqFacts DEF IsSeq
<1> HIDE DEF S
<1>2. t \in Seq(S) /\ Len(t) = Len(s) - 1 /\ \A i \in 1 .. Len(s) - 1 : t[i] = s[i]
  BY <1>1
<1>3. IsSeq(t)
  BY <1>2, SeqIsSeq
<1> QED BY <1>1, <1>2, <1>3

-----------------------------------------------------------------------------
(* The scanner.  Whatever stands in a text t, a token begins behind blanks *)
(* only and ends within t.                                                 *)

LEMMA MinFacts ==
  ASSUME NEW T \in SUBSET Nat, T # {}
  PROVE  Min(T) \in T /\ \A y \in T : Min(T) <= y
  BY LeastOfNaturals DEF Min

LEMMA MaxFacts ==
  ASSUME NEW T \in SUBSET (1 .. 4), T # {}
  PROVE  Max(T) \in T
<1>1. \E x \in T : \A y \in T : x >= y
  <2>1. CASE 4 \in T
    BY <2>1
  <2>2. CASE 4 \notin T /\ 3 \in T
    BY <2>2
  <2>3. CASE 4 \notin T /\ 3 \notin T /\ 2 \in T
    BY <2>3
  <2>4. CASE 4 \notin T /\ 3 \notin T /\ 2 \notin T
    <3>1. \A y \in T : y \in {1, 2, 3, 4}
      OBVIOUS
    <3>2. 1 \in T /\ \A y \in T : y = 1
      BY <2>4, <3>1
    <3> QED BY <3>2
  <2> QED BY <2>1, <2>2, <2>3, <2>4
<1> QED BY <1>1 DEF Max

LEMMA RunEndFacts ==
  ASSUME NEW t, IsSeq(t), NEW i \in 1 .. Len(t) + 1, NEW S, EOF \notin S
  PROVE  LET e == RunEnd(t, i, S) IN
         /\ e \in i .. Len(t) + 1 /\ Unit(t, e) \notin S
         /\ \A j \in i .. e - 1 : j \in DOMAIN t /\ t[j] \in S
<1> DEFINE T == {j \in i .. Len(t) + 1 : Unit(t, j) \notin S}
           e == Min(T)
<1>1. Len(t) \in Nat /\ DOMAIN t = 1 .. Len(t)
  BY IsSeqFacts
<1>2. T \in SUBSET Nat
  BY <1>1
<1>3. Len(t) + 1 \in T
  BY <1>1 DEF Unit
<1>4. e \in T /\ \A y \in T : e <= y
  <2> HIDE DEF T
  <2> QED BY <1>2, <1>3, MinFacts
<1>5. e \in i .. Len(t) + 1 /\ Unit(t, e) \notin S
  BY <1>4
<1>6. ASSUME NEW j \in i .. e - 1 PROVE j \in DOMAIN t /\ t[j] \in S
  <2>1. j \in i .. Len(t) /\ ~(e <= j)
    BY <1>1, <1>5
  <2>2. j \notin T
    BY <1>4, <2>1
  <2> QED BY <1>1, <2>1, <2>2 DEF Unit
<1>7. RunEnd(t, i, S) = e
  BY DEF RunEnd
<1> HIDE DEF e
<1> QED BY <1>5, <1>6, <1>7

LEMMA FindFacts ==
  ASSUME NEW t, IsSeq(t), NEW i \in 1 .. Len(t) + 1, NEW u
  PROVE  LET e == Find(t, i, u) IN
         e \in i .. Len(t) + 1 /\ \A j \in i .. e - 1 : t[j] # u
<1> DEFINE T == {j \in i .. Len(t) + 1 : Unit(t, j) \in {u, EOF}}
           e == Min(T)
<1>1. Len(t) \in Nat
  BY IsSeqFacts
<1>2. T \in SUBSET Nat
  BY <1>1
<1>3. Len(t) + 1 \in T
  BY <1>1 DEF Unit
<1>4. e \in T /\ \A y \in T : e <= y
  <2> HIDE DEF T
  <2> QED BY <1>2, <1>3, MinFacts
<1>5. e \in i .. Len(t) + 1
  BY <1>4
<1>6. ASSUME NEW j \in i .. e - 1 PROVE t[j] # u
  <2>1. j \in i .. Len(t) /\ ~(e <= j)
    BY <1>1, <1>5
  <2>2. j \notin T
    BY <1>4, <2>1
  <2> QED BY <1>1, <2>1, <2>2 DEF Unit
<1>7. Find(t, i, u) = e
  BY DEF Find
<1> HIDE DEF e
<1> QED BY <1>5, <1>6, <1>7

(* The token k read from position `from` of t. *)
Reads(t, from, k) ==
  /\ k.lo \in from .. Len(t) + 1 /\ k.hi \in k.lo .. Len(t) + 1
  /\ \A j \in from .. k.lo - 1 : t[j] \in Blank
  /\ k.kind = "COMMENT" =>
       k.lo < k.hi /\ t[k.lo] = "#" /\ \A j \in k.lo .. k.hi - 2 : t[j] # "\n"

LEMMA SymbolFacts ==
  ASSUME NEW t, IsSeq(t), NEW i \in 1 .. Len(t), t[i] \in Simple
  PROVE  LET k == scan_symbol(t, i) IN
         k.lo = i /\ k.hi \in i + 1 .. Len(t) + 1 /\ k.kind # "COMMENT"
<1> DEFINE s == Spelling(t, i)
           T == {k \in 1 .. 4 : \A m \in 2 .. k : i + m <= Len(t) + 1 /\ s[m] \in Compound}
           n == Max(T)
<1>1. Len(t) \in Nat
  BY IsSeqFacts
<1>2. 1 \in T
  OBVIOUS
<1>3. n \in T
  <2>1. T \in SUBSET (1 .. 4) /\ T # {}
    BY <1>2
  <2> HIDE DEF T
  <2> QED BY <2>1, MaxFacts
<1>4. scan_symbol(t, i) = Token(s[n], i, i + n)
  BY DEF scan_symbol
<1>5. s[1] = t[i]
  BY DEF Spelling
<1> HIDE DEF n, s
<1>6. CASE n = 1
  <2>1. t[i] # "COMMENT"
    BY DEF Simple
  <2> QED BY <1>1, <1>4, <1>5, <1>6, <2>1 DEF Token
<1>7. CASE n # 1
  <2>1. n \in 2 .. 4 /\ i + n <= Len(t) + 1 /\ s[n] \in Compound
    BY <1>3, <1>7
  <2>2. s[n] # "COMMENT"
    BY <2>1 DEF Compound
  <2> QED BY <1>1, <1>4, <2>1, <2>2 DEF Token
<1> QED BY <1>6, <1>7

LEMMA CommentFacts ==
  ASSUME NEW t, IsSeq(t), NEW i \in 1 .. Len(t), t[i] = "#"
  PROVE  LET k == scan_comment(t, i) IN
         k.lo = i /\ k.hi \in i + 1 .. Len(t) + 1 /\ \A j \in i .. k.hi - 2 : t[j] # "\n"
<1> DEFINE nl == Find(t, i + 1, "\n")
<1>1. Len(t) \in Nat /\ i + 1 \in 1 .. Len(t) + 1
  BY IsSeqFacts
<1>2. nl \in i + 1 .. Len(t) + 1 /\ \A j \in i + 1 .. nl - 1 : t[j] # "\n"
  BY <1>1, FindFacts
<1>3. scan_comment(t, i) = Token("COMMENT", i, IF nl <= Len(t) THEN nl + 1 ELSE nl)
  BY DEF scan_comment
<1> HIDE DEF nl
<1>4. \A j \in i .. nl - 1 : t[j] # "\n"
  BY <1>1, <1>2
<1> QED BY <1>1, <1>2, <1>3, <1>4 DEF Token

LEMMA NumberFacts ==
  ASSUME NEW t, IsSeq(t), NEW i \in 1 .. Len(t)
  PROVE  LET k == scan_number(t, i) IN
         k.lo = i /\ k.hi \in i .. Len(t) + 1 /\ k.kind # "COMMENT"
<1> DEFINE whole == RunEnd(t, i + 1, Digits)
           dotted == t[i] # "." /\ Unit(t, whole) = "."
<1>1. Len(t) \in Nat /\ i + 1 \in 1 .. Len(t) + 1 /\ EOF \notin Digits
  BY IsSeqFacts, ScannerAssumption DEF Alnum
<1>2. whole \in i + 1 .. Len(t) + 1
  BY <1>1, RunEndFacts
<1>3. dotted => RunEnd(t, whole + 1, Digits) \in whole + 1 .. Len(t) + 1
  <2> HIDE DEF whole
  <2>1. dotted => whole + 1 \in 1 .. Len(t) + 1
    BY <1>1, <1>2 DEF Unit, EOF
  <2> QED BY <1>1, <2>1, RunEndFacts
<1>4. PICK kind : /\ kind # "COMMENT"
                  /\ scan_number(t, i) = Token(kind, i, IF dotted THEN RunEnd(t, whole + 1, Digits) ELSE whole)
  BY DEF scan_number
<1> HIDE DEF whole, dotted
<1> QED BY <1>1, <1>2, <1>3, <1>4 DEF Token

(* The case that scan() takes. *)
LEMMA ScanCases ==
  ASSUME NEW t, NEW from
  PROVE  LET i == RunEnd(t, from, Blank)
             c == Unit(t, i)
             k == scan(t, from)
         IN
         \/ c = EOF /\ k = Token("TOK_END", i, i)
         \/ c = CharQuote /\ k = scan_char(t, i)
         \/ c = "'" /\ k = scan_string(t, i)
         \/ c = "#" /\ Unit(t, i + 1) = "{" /\ k = Token("#{", i, i + 2)
         \/ c = "#" /\ k = scan_comment(t, i)
         \/ c # EOF /\ k = scan_number(t, i)
         \/ c \in Simple /\ k = scan_symbol(t, i)
         \/ c # EOF /\ k = scan_identifier(t, i)
<1> DEFINE i == RunEnd(t, from, Blank)
           c == Unit(t, i)
           digits == Unit(t, i + 1) \in Digits
           k == scan(t, from)
           symbol == c \in Simple /\ ~(c \in {"-", "."} /\ digits)
           number == c \in Digits \/ (c \in {"-", "."} /\ digits)
<1>1. /\ EOF \notin Simple /\ CharQuote # EOF /\ CharQuote \notin Simple \cup {"'", "#"}
      /\ c \in Digits => c \notin Simple \cup {CharQuote, "'", "#", EOF}
  <2>1. CharQuote # EOF /\ CharQuote \notin Simple \cup {"'", "#"}
    BY DEF EOF, CharQuote, Simple
  <2>2. EOF \notin Simple
    BY DEF EOF, Simple
  <2> QED BY <2>1, <2>2, ScannerAssumption DEF Alnum
<1>2. k = CASE c = EOF -> Token("TOK_END", i, i)
            [] c = CharQuote -> scan_char(t, i)
            [] c = "'" -> scan_string(t, i)
            [] c = "#" /\ Unit(t, i + 1) = "{" -> Token("#{", i, i + 2)
            [] c = "#" /\ Unit(t, i + 1) # "{" -> scan_comment(t, i)
            [] number -> scan_number(t, i)
            [] symbol -> scan_symbol(t, i)
            [] OTHER -> scan_identifier(t, i)
  BY DEF scan
<1> HIDE DEF i, c, k, number
<1>3. \/ c = EOF /\ k = Token("TOK_END", i, i)
      \/ c = CharQuote /\ k = scan_char(t, i)
      \/ c = "'" /\ k = scan_string(t, i)
      \/ c = "#" /\ Unit(t, i + 1) = "{" /\ k = Token("#{", i, i + 2)
      \/ c = "#" /\ k = scan_comment(t, i)
      \/ c # EOF /\ k = scan_number(t, i)
      \/ c \in Simple /\ k = scan_symbol(t, i)
      \/ c # EOF /\ k = scan_identifier(t, i)
  <2>1. "'" \notin Simple /\ "#" \notin Simple /\ "-" # "'" /\ "-" # "#" /\ "." # "'" /\ "." # "#"
    BY DEF Simple
  <2>2. EOF # "'" /\ EOF # "#"
    BY DEF EOF
  <2>3. number => c \notin {CharQuote, "'", "#", EOF} /\ ~symbol
    BY <1>1, <2>1 DEF number, Simple
  <2>4. symbol => c \notin {CharQuote, "'", "#", EOF} /\ c \in Simple
    BY <1>1, <2>1
  <2> HIDE DEF symbol
  <2>5. CASE c = EOF
    BY <1>1, <1>2, <2>2, <2>3, <2>4, <2>5
  <2>6. CASE c = CharQuote
    BY <1>1, <1>2, <2>2, <2>3, <2>4, <2>6
  <2>7. CASE c = "'"
    BY <1>1, <1>2, <2>2, <2>3, <2>4, <2>7
  <2>8. CASE c = "#"
    BY <1>1, <1>2, <2>2, <2>3, <2>4, <2>8
  <2>9. CASE number
    BY <1>1, <1>2, <2>2, <2>3, <2>4, <2>9
  <2>10. CASE symbol
    BY <1>1, <1>2, <2>2, <2>3, <2>4, <2>10
  <2>11. CASE ~number /\ ~symbol /\ c \notin {EOF, CharQuote, "'", "#"}
    BY <1>2, <2>11
  <2> QED BY <2>5, <2>6, <2>7, <2>8, <2>9, <2>10, <2>11
<1> QED BY <1>3 DEF i, c, k

LEMMA ScanFacts ==
  ASSUME NEW t, IsSeq(t), NEW from \in 1 .. Len(t) + 1
  PROVE  Reads(t, from, scan(t, from))
<1> DEFINE i == RunEnd(t, from, Blank)
           c == Unit(t, i)
           k == scan(t, from)
<1>1. Len(t) \in Nat
  BY IsSeqFacts
<1>2. i \in from .. Len(t) + 1 /\ \A j \in from .. i - 1 : t[j] \in Blank
  BY RunEndFacts DEF Blank, EOF
<1>3. c # EOF => i \in 1 .. Len(t) /\ c = t[i]
  BY <1>1, <1>2 DEF Unit
<1>4. SUFFICES k.lo = i /\ k.hi \in i .. Len(t) + 1
               /\ (k.kind = "COMMENT" => i < k.hi /\ t[i] = "#" /\ \A j \in i .. k.hi - 2 : t[j] # "\n")
  BY <1>2 DEF Reads
<1>5. EOF \notin Simple /\ CharQuote # EOF
  BY DEF EOF, Simple, CharQuote
<1>6. \/ c = EOF /\ k = Token("TOK_END", i, i)
      \/ c = CharQuote /\ k = scan_char(t, i)
      \/ c = "'" /\ k = scan_string(t, i)
      \/ c = "#" /\ Unit(t, i + 1) = "{" /\ k = Token("#{", i, i + 2)
      \/ c = "#" /\ k = scan_comment(t, i)
      \/ c # EOF /\ k = scan_number(t, i)
      \/ c \in Simple /\ k = scan_symbol(t, i)
      \/ c # EOF /\ k = scan_identifier(t, i)
  BY ScanCases
<1> HIDE DEF i, c, k
<1>7. CASE c = EOF /\ k = Token("TOK_END", i, i)
  BY <1>1, <1>2, <1>7 DEF Token
<1>8. CASE c = CharQuote /\ k = scan_char(t, i)
  <2>1. i \in 1 .. Len(t)
    BY <1>3, <1>5, <1>8
  <2> QED BY <1>1, <1>8, <2>1 DEF scan_char, Token
<1>9. CASE c = "'" /\ k = scan_string(t, i)
  <2>1. i \in 1 .. Len(t) /\ i + 1 \in 1 .. Len(t) + 1
    BY <1>1, <1>3, <1>9 DEF EOF
  <2>2. Find(t, i + 1, "'") \in i + 1 .. Len(t) + 1
    BY <2>1, FindFacts
  <2> QED BY <1>1, <1>9, <2>1, <2>2 DEF scan_string, Token
<1>10. CASE c = "#" /\ Unit(t, i + 1) = "{" /\ k = Token("#{", i, i + 2)
  <2>1. i \in 1 .. Len(t) /\ Unit(t, i + 1) # EOF
    BY <1>3, <1>10 DEF EOF
  <2>2. i + 1 <= Len(t)
    BY <1>1, <2>1 DEF Unit
  <2>3. PICK kind : kind # "COMMENT" /\ k = Token(kind, i, i + 2)
    BY <1>10
  <2> QED BY <1>1, <2>1, <2>2, <2>3 DEF Token
<1>11. CASE c = "#" /\ k = scan_comment(t, i)
  <2>1. i \in 1 .. Len(t) /\ t[i] = "#"
    BY <1>3, <1>11 DEF EOF
  <2>2. k.lo = i /\ k.hi \in i + 1 .. Len(t) + 1 /\ \A j \in i .. k.hi - 2 : t[j] # "\n"
    BY <1>11, <2>1, CommentFacts
  <2> QED BY <1>1, <2>1, <2>2
<1>12. CASE c # EOF /\ k = scan_number(t, i)
  BY <1>3, <1>12, NumberFacts
<1>13. CASE c \in Simple /\ k = scan_symbol(t, i)
  <2>1. i \in 1 .. Len(t) /\ t[i] \in Simple
    BY <1>3, <1>5, <1>13
  <2>2. k.lo = i /\ k.hi \in i + 1 .. Len(t) + 1 /\ k.kind # "COMMENT"
    BY <1>13, <2>1, SymbolFacts
  <2> QED BY <1>1, <2>1, <2>2
<1>14. CASE c # EOF /\ k = scan_identifier(t, i)
  <2> DEFINE end == RunEnd(t, i + 1, Alnum)
  <2>1. i \in 1 .. Len(t) /\ i + 1 \in 1 .. Len(t) + 1 /\ EOF \notin Alnum
    BY <1>1, <1>3, <1>14, ScannerAssumption DEF Alnum
  <2>2. end \in i + 1 .. Len(t) + 1
    BY <2>1, RunEndFacts
  <2>3. PICK kind : kind # "COMMENT" /\ k = Token(kind, i, end)
    BY <1>14 DEF scan_identifier, keywords
  <2> HIDE DEF end
  <2> QED BY <1>1, <2>1, <2>2, <2>3 DEF Token
<1> QED BY <1>6, <1>7, <1>8, <1>9, <1>10, <1>11, <1>12, <1>13, <1>14

-----------------------------------------------------------------------------
(* The loop that skips comments ends, and skips nothing else.              *)

(* What it reads from the positions of t from m on. *)
SkipsComments(t, next, m) ==
  next = [i \in m .. Len(t) + 1 |->
            LET k == scan(t, i) IN IF k.kind = "COMMENT" THEN next[k.hi] ELSE k]

LEMMA SkippingEnds ==
  ASSUME NEW t, IsSeq(t), NEW n \in Nat, n <= Len(t) + 1
  PROVE  \E next : SkipsComments(t, next, Len(t) + 2 - n)
<1> DEFINE T == {j \in 0 .. Len(t) + 1 : ~\E next : SkipsComments(t, next, Len(t) + 2 - j)}
<1>1. Len(t) \in Nat
  BY IsSeqFacts
<1> SUFFICES ASSUME T # {} PROVE FALSE
  BY <1>1
<1>2. PICK j \in T : \A i \in T : j <= i
  <2>1. T \in SUBSET Nat
    BY <1>1
  <2> HIDE DEF T
  <2> QED BY <2>1, LeastOfNaturals
<1>3. CASE j = 0
  <2> DEFINE f == [i \in Len(t) + 2 .. Len(t) + 1 |-> 0]
  <2>1. f = [i \in Len(t) + 2 .. Len(t) + 1 |->
               LET k == scan(t, i) IN IF k.kind = "COMMENT" THEN f[k.hi] ELSE k]
    BY <1>1
  <2> QED BY <1>1, <1>2, <1>3, <2>1 DEF SkipsComments
<1>4. CASE j # 0
  <2> DEFINE m == Len(t) + 2 - j
  <2>1. j - 1 \in 0 .. Len(t) + 1 /\ j - 1 \notin T /\ m \in 1 .. Len(t) + 1
        /\ Len(t) + 2 - (j - 1) = m + 1
    BY <1>1, <1>2, <1>4
  <2>2. PICK g : SkipsComments(t, g, m + 1)
    BY <2>1
  <2> HIDE DEF m
  <2> DEFINE Next1(g1, i) == LET k == scan(t, i) IN IF k.kind = "COMMENT" THEN g1[k.hi] ELSE k
             f == [i \in m .. Len(t) + 1 |-> IF i = m THEN Next1(g, m) ELSE g[i]]
  <2>3. ASSUME NEW i \in m .. Len(t) + 1 PROVE f[i] = Next1(f, i)
    <3>1. scan(t, i).kind = "COMMENT" => scan(t, i).hi \in i + 1 .. Len(t) + 1
      <4>1. i \in 1 .. Len(t) + 1
        BY <1>1, <2>1
      <4>2. Reads(t, i, scan(t, i))
        BY <4>1, ScanFacts
      <4> QED BY <1>1, <4>1, <4>2 DEF Reads
    <3>2. scan(t, i).kind = "COMMENT" => f[scan(t, i).hi] = g[scan(t, i).hi]
      BY <1>1, <2>1, <3>1
    <3>3. Next1(f, i) = Next1(g, i)
      <4> HIDE DEF f
      <4> QED BY <3>2
    <3>4. CASE i = m
      BY <3>3, <3>4
    <3>5. CASE i # m
      <4>1. i \in m + 1 .. Len(t) + 1
        BY <1>1, <2>1, <3>5
      <4>2. g[i] = Next1(g, i)
        BY <2>2, <4>1 DEF SkipsComments
      <4> HIDE DEF Next1
      <4> QED BY <3>3, <3>5, <4>2
    <3> QED BY <3>4, <3>5
  <2>4. f = [i \in m .. Len(t) + 1 |-> Next1(f, i)]
    <3>1. f = [i \in m .. Len(t) + 1 |-> f[i]]
      OBVIOUS
    <3> HIDE DEF f, Next1
    <3> QED BY <2>3, <3>1
  <2> HIDE DEF f
  <2>5. SkipsComments(t, f, m)
    BY <2>4 DEF SkipsComments
  <2> QED BY <1>2, <2>5 DEF m
<1> QED BY <1>3, <1>4

(* Comments end at their newline or with the text.                         *)
LEMMA CommentIsSkipped ==
  ASSUME IsSeq(text), NEW from \in 1 .. Len(text) + 1, NEW k, Reads(text, from, k)
  PROVE  /\ Skipped(from, k.lo)
         /\ k.kind = "COMMENT" => Skipped(from, k.hi)
<1>1. Len(text) \in Nat /\ k.lo \in Nat /\ k.hi \in Nat /\ from \in Nat
      /\ from <= k.lo /\ k.lo <= k.hi
  BY IsSeqFacts DEF Reads
<1>2. \A i \in from .. k.lo - 1 : text[i] \in Blank
  BY DEF Reads
<1>3. ASSUME k.kind = "COMMENT" PROVE Skipped(from, k.hi)
  <2> SUFFICES ASSUME NEW i \in from .. k.hi - 1, i \notin from .. k.lo - 1
               PROVE  \E c \in from .. i : text[c] = "#" /\ \A j \in c .. i - 1 : text[j] # "\n"
    BY <1>2 DEF Skipped
  <2>1. k.lo \in from .. i /\ \A j \in k.lo .. i - 1 : j \in k.lo .. k.hi - 2
    BY <1>1
  <2> QED BY <1>3, <2>1 DEF Reads
<1> QED BY <1>2, <1>3 DEF Skipped

LEMMA SkippedJoins ==
  ASSUME NEW a \in Nat, NEW b \in Nat, NEW c \in Nat, a <= b, Skipped(a, b), Skipped(b, c)
  PROVE  Skipped(a, c)
<1> SUFFICES ASSUME NEW i \in a .. c - 1
             PROVE  \/ text[i] \in Blank
                    \/ \E d \in a .. i : text[d] = "#" /\ \A j \in d .. i - 1 : text[j] # "\n"
  BY DEF Skipped
<1>1. CASE i < b
  <2>1. i \in a .. b - 1
    BY <1>1
  <2> QED BY <2>1 DEF Skipped
<1>2. CASE ~(i < b)
  <2>1. i \in b .. c - 1 /\ \A d \in b .. i : d \in a .. i
    BY <1>2
  <2> QED BY <2>1 DEF Skipped
<1> QED BY <1>1, <1>2

(* Whatever holds of what scan() reads holds of what is left of it.        *)
LEMMA UncommentedIsScanned ==
  ASSUME IsSeq(text), NEW from \in 1 .. Len(text) + 1
  PROVE  \E i \in from .. Len(text) + 1 : Uncommented(from) = scan(text, i)
<1> DEFINE l == Len(text)
           next == CHOOSE next : SkipsComments(text, next, 1)
           Good(i) == \E j \in i .. l + 1 : next[i] = scan(text, j)
<1>1. l \in Nat
  BY IsSeqFacts
<1>2. SkipsComments(text, next, 1)
  <2>1. \E f : SkipsComments(text, f, 1)
    <3>1. l + 1 \in Nat /\ l + 1 <= l + 1 /\ l + 2 - (l + 1) = 1
      BY <1>1
    <3>2. \E f : SkipsComments(text, f, l + 2 - (l + 1))
      BY <3>1, SkippingEnds
    <3> QED BY <3>1, <3>2
  <2> QED BY <2>1
<1>3. Uncommented(from) = next[from]
  BY DEF Uncommented, SkipsComments
<1> HIDE DEF next
<1>4. \A i \in 1 .. l + 1 :
        next[i] = IF scan(text, i).kind = "COMMENT" THEN next[scan(text, i).hi] ELSE scan(text, i)
  BY <1>2 DEF SkipsComments
<1> DEFINE T == {n \in 0 .. l : ~Good(l + 1 - n)}
<1>5. T = {}
  <2> SUFFICES ASSUME T # {} PROVE FALSE
    OBVIOUS
  <2>1. PICK n \in T : \A j \in T : n <= j
    <3>1. T \in SUBSET Nat
      BY <1>1
    <3> HIDE DEF T
    <3> QED BY <3>1, LeastOfNaturals
  <2> DEFINE i == l + 1 - n
             k == scan(text, i)
  <2>2. i \in 1 .. l + 1 /\ n \in Nat /\ i \in i .. l + 1
    BY <1>1, <2>1
  <2>3. ~Good(i)
    BY <2>1
  <2>4. ASSUME NEW h \in i + 1 .. l + 1 PROVE Good(h)
    <3>1. l + 1 - h \in 0 .. l /\ l + 1 - (l + 1 - h) = h /\ ~(n <= l + 1 - h)
      BY <1>1, <2>2
    <3>2. l + 1 - h \notin T
      BY <2>1, <3>1
    <3> HIDE DEF Good
    <3> QED BY <3>1, <3>2
  <2>5. Reads(text, i, k)
    BY <2>2, ScanFacts
  <2>6. next[i] = IF k.kind = "COMMENT" THEN next[k.hi] ELSE k
    BY <1>4, <2>2
  <2>7. CASE k.kind # "COMMENT"
    BY <2>2, <2>3, <2>6, <2>7
  <2>8. CASE k.kind = "COMMENT"
    <3> HIDE DEF i, k
    <3>1. k.hi \in i + 1 .. l + 1
      BY <1>1, <2>2, <2>5, <2>8 DEF Reads
    <3>2. PICK j \in k.hi .. l + 1 : next[k.hi] = scan(text, j)
      BY <2>4, <3>1
    <3>3. j \in i .. l + 1
      BY <1>1, <2>2, <3>1
    <3> QED BY <2>3, <2>6, <2>8, <3>2, <3>3
  <2> QED BY <2>7, <2>8
<1>6. l + 1 - from \in 0 .. l /\ l + 1 - (l + 1 - from) = from
  BY <1>1
<1>7. Good(from)
  <2> HIDE DEF Good
  <2> QED BY <1>5, <1>6
<1> QED BY <1>3, <1>7

LEMMA UncommentedFacts ==
  ASSUME IsSeq(text), NEW from \in 1 .. Len(text) + 1
  PROVE  LET k == Uncommented(from) IN
         k.lo \in from .. Len(text) + 1 /\ k.hi \in k.lo .. Len(text) + 1 /\ Skipped(from, k.lo)
<1> DEFINE l == Len(text)
           next == CHOOSE next : SkipsComments(text, next, 1)
           Good(i) == next[i].lo \in i .. l + 1 /\ next[i].hi \in next[i].lo .. l + 1
                      /\ Skipped(i, next[i].lo)
<1>1. l \in Nat
  BY IsSeqFacts
<1>2. SkipsComments(text, next, 1)
  <2>1. \E f : SkipsComments(text, f, 1)
    <3>1. l + 1 \in Nat /\ l + 1 <= l + 1 /\ l + 2 - (l + 1) = 1
      BY <1>1
    <3>2. \E f : SkipsComments(text, f, l + 2 - (l + 1))
      BY <3>1, SkippingEnds
    <3> QED BY <3>1, <3>2
  <2> QED BY <2>1
<1>3. Uncommented(from) = next[from]
  BY DEF Uncommented, SkipsComments
<1> HIDE DEF next
<1>4. \A i \in 1 .. l + 1 :
        next[i] = IF scan(text, i).kind = "COMMENT" THEN next[scan(text, i).hi] ELSE scan(text, i)
  BY <1>2 DEF SkipsComments
<1> DEFINE T == {n \in 0 .. l : ~Good(l + 1 - n)}
<1>5. T = {}
  <2> SUFFICES ASSUME T # {} PROVE FALSE
    OBVIOUS
  <2>1. PICK n \in T : \A j \in T : n <= j
    <3>1. T \in SUBSET Nat
      BY <1>1
    <3> HIDE DEF T
    <3> QED BY <3>1, LeastOfNaturals
  <2> DEFINE i == l + 1 - n
             k == scan(text, i)
  <2>2. i \in 1 .. l + 1 /\ n \in Nat /\ i \in Nat
    BY <1>1, <2>1
  <2>3. ~Good(i)
    BY <2>1
  <2>4. ASSUME NEW h \in i + 1 .. l + 1 PROVE Good(h)
    <3>1. l + 1 - h \in 0 .. l /\ l + 1 - (l + 1 - h) = h /\ ~(n <= l + 1 - h)
      BY <1>1, <2>2
    <3>2. l + 1 - h \notin T
      BY <2>1, <3>1
    <3> HIDE DEF Good
    <3> QED BY <3>1, <3>2
  <2>5. Reads(text, i, k)
    BY <2>2, ScanFacts
  <2>6. Skipped(i, k.lo) /\ (k.kind = "COMMENT" => Skipped(i, k.hi))
    BY <2>2, <2>5, CommentIsSkipped
  <2>7. next[i] = IF k.kind = "COMMENT" THEN next[k.hi] ELSE k
    BY <1>4, <2>2
  <2> HIDE DEF i, k
  <2>8. CASE k.kind # "COMMENT"
    BY <2>3, <2>5, <2>6, <2>7, <2>8 DEF Reads
  <2>9. CASE k.kind = "COMMENT"
    <3>1. k.hi \in i + 1 .. l + 1
      BY <1>1, <2>2, <2>5, <2>9 DEF Reads
    <3>2. Good(k.hi) /\ next[i] = next[k.hi]
      BY <2>4, <2>7, <2>9, <3>1
    <3>3. next[i].lo \in i .. l + 1 /\ next[i].hi \in next[i].lo .. l + 1
      BY <1>1, <2>2, <3>1, <3>2
    <3>4. Skipped(i, next[i].lo)
      <4>1. Skipped(k.hi, next[i].lo) /\ k.hi \in Nat /\ next[i].lo \in Nat /\ i <= k.hi
        BY <1>1, <2>2, <3>1, <3>2
      <4> QED BY <2>2, <2>6, <2>9, <4>1, SkippedJoins
    <3> QED BY <2>3, <3>3, <3>4
  <2> QED BY <2>8, <2>9
<1>6. l + 1 - from \in 0 .. l /\ l + 1 - (l + 1 - from) = from
  BY <1>1
<1>7. Good(from)
  <2> HIDE DEF Good
  <2> QED BY <1>5, <1>6
<1> QED BY <1>3, <1>7

-----------------------------------------------------------------------------
(* Rows.  What an item puts in its place is made of items again, all of    *)
(* them in a set that has, with an item, the items of its rows.  None of   *)
(* them is for an operand or makes an operation: those are in rows of      *)
(* their own, which begin with expressions.                                *)

Operations ==
  {"ExpressionBinaryOp", "ExpressionUnaryOp", "ExpressionRange", "ExpressionAssignment",
   "ExpressionCall"}

Plain(x) ==
  /\ x.do \notin {"above", "infix", "single"}
  /\ x.do = "node" => x.kind \notin Operations
  /\ x.do = "precedence" => x.prec = ASSIGNMENT

ClosedUnderRows(S) ==
  \A x \in S : /\ Plain(x)
               /\ x.do = "opt" => x.yes \in Seq(S) /\ x.no \in Seq(S)
               /\ x.do \in {"until", "while"} => x.body \in Seq(S)

IsItem(x) == \E S : ClosedUnderRows(S) /\ x \in S
IsRow(r) == IsSeq(r) /\ \A i \in DOMAIN r : IsItem(r[i])

LEMMA SeqOverLarger ==
  ASSUME NEW S, NEW T, NEW r \in Seq(S), S \subseteq T
  PROVE  r \in Seq(T)
<1>1. r \in [1 .. Len(r) -> T] /\ Len(r) \in Nat
  OBVIOUS
<1> QED BY <1>1

LEMMA FlatIsItem ==
  ASSUME NEW x, x.do \notin {"opt", "until", "while"}, Plain(x)
  PROVE  IsItem(x)
<1>1. ClosedUnderRows({x})
  BY DEF ClosedUnderRows
<1> QED BY <1>1 DEF IsItem

LEMMA ItemHasRows ==
  ASSUME NEW x, IsItem(x)
  PROVE  /\ Plain(x)
         /\ x.do = "opt" => IsRow(x.yes) /\ IsRow(x.no)
         /\ x.do \in {"until", "while"} => IsRow(x.body)
<1>1. PICK S : ClosedUnderRows(S) /\ x \in S
  BY DEF IsItem
<1>2. ASSUME NEW r \in Seq(S) PROVE IsRow(r)
  <2>1. \A i \in DOMAIN r : r[i] \in S
    OBVIOUS
  <2> QED BY <1>1, <2>1, SeqIsSeq DEF IsRow, IsItem
<1> QED BY <1>1, <1>2 DEF ClosedUnderRows

(* The items of a row have a closed set in common. *)
LEMMA RowInClosed ==
  ASSUME NEW r, IsRow(r)
  PROVE  \E S : ClosedUnderRows(S) /\ r \in Seq(S)
<1> DEFINE C(i) == CHOOSE S : ClosedUnderRows(S) /\ r[i] \in S
           U == UNION {C(i) : i \in DOMAIN r}
<1>1. \A i \in DOMAIN r : ClosedUnderRows(C(i)) /\ r[i] \in C(i)
  BY DEF IsRow, IsItem
<1>2. r \in Seq({r[i] : i \in DOMAIN r})
  BY DEF IsRow, IsSeq
<1> HIDE DEF C
<1>3. {r[i] : i \in DOMAIN r} \subseteq U
  BY <1>1
<1>4. r \in Seq(U)
  <2> HIDE DEF U
  <2> QED BY <1>2, <1>3, SeqOverLarger
<1>5. ASSUME NEW x \in U
      PROVE  /\ Plain(x)
             /\ x.do = "opt" => x.yes \in Seq(U) /\ x.no \in Seq(U)
             /\ x.do \in {"until", "while"} => x.body \in Seq(U)
  <2>1. PICK i \in DOMAIN r : x \in C(i)
    OBVIOUS
  <2>2. C(i) \subseteq U
    OBVIOUS
  <2>3. \A s \in Seq(C(i)) : s \in Seq(U)
    <3> HIDE DEF U
    <3> QED BY <2>2, SeqOverLarger
  <2> HIDE DEF U
  <2> QED BY <1>1, <2>1, <2>3 DEF ClosedUnderRows
<1> QED BY <1>4, <1>5 DEF ClosedUnderRows

LEMMA OptIsItem ==
  ASSUME NEW k, NEW yes, IsRow(yes), NEW no, IsRow(no)
  PROVE  IsItem(Opt(k, yes, no))
<1>1. PICK S : ClosedUnderRows(S) /\ yes \in Seq(S)
  BY RowInClosed
<1>2. PICK T : ClosedUnderRows(T) /\ no \in Seq(T)
  BY RowInClosed
<1> DEFINE x == Opt(k, yes, no)
           U == (S \cup T) \cup {x}
<1>3. x.do = "opt" /\ x.yes = yes /\ x.no = no /\ Plain(x)
  BY DEF Opt, Plain
<1>4. S \subseteq U /\ T \subseteq U /\ x \in U /\ \A y \in U : y = x \/ y \in S \/ y \in T
  OBVIOUS
<1> HIDE DEF U, x
<1>5. \A r : r \in Seq(S) \/ r \in Seq(T) => r \in Seq(U)
  BY <1>4, SeqOverLarger
<1>6. ASSUME NEW y \in U
      PROVE  /\ Plain(y)
             /\ y.do = "opt" => y.yes \in Seq(U) /\ y.no \in Seq(U)
             /\ y.do \in {"until", "while"} => y.body \in Seq(U)
  <2>1. CASE y = x
    BY <1>1, <1>2, <1>3, <1>5, <2>1
  <2>2. CASE y \in S
    BY <1>1, <1>5, <2>2 DEF ClosedUnderRows
  <2>3. CASE y \in T
    BY <1>2, <1>5, <2>3 DEF ClosedUnderRows
  <2> QED BY <1>4, <2>1, <2>2, <2>3
<1>7. ClosedUnderRows(U)
  BY <1>6 DEF ClosedUnderRows
<1> QED BY <1>4, <1>7 DEF IsItem, x

LEMMA UntilIsItem ==
  ASSUME NEW x, x.do \in {"until", "while"}, IsRow(x.body)
  PROVE  IsItem(x)
<1>1. PICK S : ClosedUnderRows(S) /\ x.body \in Seq(S)
  BY RowInClosed
<1> DEFINE U == S \cup {x}
<1>2. S \subseteq U /\ x \in U /\ (\A y \in U : y = x \/ y \in S) /\ Plain(x)
  BY DEF Plain
<1> HIDE DEF U
<1>3. \A r : r \in Seq(S) => r \in Seq(U)
  BY <1>2, SeqOverLarger
<1>4. ASSUME NEW y \in U
      PROVE  /\ Plain(y)
             /\ y.do = "opt" => y.yes \in Seq(U) /\ y.no \in Seq(U)
             /\ y.do \in {"until", "while"} => y.body \in Seq(U)
  <2>1. CASE y = x
    BY <1>1, <1>2, <1>3, <2>1
  <2>2. CASE y \in S
    BY <1>1, <1>3, <2>2 DEF ClosedUnderRows
  <2> QED BY <1>2, <2>1, <2>2
<1>5. ClosedUnderRows(U)
  BY <1>4 DEF ClosedUnderRows
<1> QED BY <1>2, <1>5 DEF IsItem

LEMMA NoItems == IsRow(<<>>)
<1>1. <<>> \in Seq({})
  OBVIOUS
<1>2. IsSeq(<<>>)
  BY <1>1, SeqIsSeq
<1> QED BY <1>2 DEF IsRow

LEMMA OneItem ==
  ASSUME NEW x, IsItem(x)
  PROVE  IsRow(<<x>>) /\ <<x>> # <<>> /\ Head(<<x>>) = x
<1>1. <<x>> \in Seq({x}) /\ DOMAIN <<x>> = {1}
  OBVIOUS
<1>2. IsSeq(<<x>>)
  BY <1>1, SeqIsSeq
<1> QED BY <1>1, <1>2 DEF IsRow

LEMMA JoinedRows ==
  ASSUME NEW r, IsRow(r), NEW s, IsRow(s)
  PROVE  IsRow(r \o s)
<1>1. IsSeq(r \o s) /\ Len(r \o s) = Len(r) + Len(s) /\ Len(r) \in Nat /\ Len(s) \in Nat
  BY IsSeqFacts, ConcatFacts DEF IsRow
<1>2. ASSUME NEW i \in DOMAIN (r \o s) PROVE IsItem((r \o s)[i])
  <2>1. i \in 1 .. Len(r) + Len(s)
    BY <1>1, IsSeqFacts
  <2>2. CASE i <= Len(r)
    <3>1. i \in 1 .. Len(r) /\ i \in DOMAIN r
      BY <1>1, <2>1, <2>2, IsSeqFacts DEF IsRow
    <3> QED BY <3>1, ConcatFacts DEF IsRow
  <2>3. CASE ~(i <= Len(r))
    <3>1. i - Len(r) \in 1 .. Len(s) /\ i - Len(r) \in DOMAIN s /\ Len(r) + (i - Len(r)) = i
      BY <1>1, <2>1, <2>3, IsSeqFacts DEF IsRow
    <3>2. (r \o s)[i] = s[i - Len(r)]
      BY <3>1, ConcatFacts DEF IsRow
    <3> QED BY <3>1, <3>2 DEF IsRow
  <2> QED BY <1>1, <2>2, <2>3
<1> QED BY <1>1, <1>2 DEF IsRow

LEMMA RestOfRow ==
  ASSUME NEW r, IsRow(r), r # <<>>
  PROVE  IsRow(Tail(r)) /\ IsItem(Head(r))
<1>1. IsSeq(Tail(r)) /\ Len(Tail(r)) = Len(r) - 1 /\ Len(r) \in Nat \ {0} /\ Head(r) = r[1]
  BY TailFacts DEF IsRow
<1>2. DOMAIN r = 1 .. Len(r) /\ DOMAIN Tail(r) = 1 .. Len(r) - 1
  BY <1>1, IsSeqFacts DEF IsRow
<1>3. \A i \in DOMAIN Tail(r) : Tail(r)[i] = r[i + 1] /\ i + 1 \in DOMAIN r
  BY <1>1, <1>2, TailFacts DEF IsRow
<1> QED BY <1>1, <1>2, <1>3 DEF IsRow

-----------------------------------------------------------------------------
(* The rows of declarations end with making a node, and begin with an item *)
(* for the token that chose them.                                          *)

Finishes(x) ==
  \/ x.do = "node"
  \/ /\ x.do = "opt" /\ x.yes # <<>> /\ x.no # <<>>
     /\ x.yes[Len(x.yes)].do = "node" /\ x.no[Len(x.no)].do = "node"

Opens(x, k) ==
  \/ x.do \in {"oneof", "expression"}
  \/ x.do = "must" /\ k \in x.kinds

DeclarationRow(r, k) ==
  IsRow(r) /\ r # <<>> /\ Opens(Head(r), k) /\ Finishes(r[Len(r)])

LEMMA RowOf2 ==
  ASSUME NEW x1, NEW x2,
         IsItem(x1), IsItem(x2)
  PROVE  LET r == <<x1, x2>> IN IsRow(r) /\ r # <<>> /\ Head(r) = x1 /\ r[Len(r)] = x2
<1> DEFINE r == <<x1, x2>>
<1>1. r \in Seq({x1, x2}) /\ Len(r) = 2 /\ DOMAIN r = 1 .. 2
  OBVIOUS
<1>2. IsSeq(r)
  <2> HIDE DEF r
  <2> QED BY <1>1, SeqIsSeq
<1>3. \A i \in 1 .. 2 : IsItem(r[i])
  OBVIOUS
<1> QED BY <1>1, <1>2, <1>3 DEF IsRow

LEMMA DeclarationOf2 ==
  ASSUME NEW k, NEW x1, NEW x2,
         IsItem(x1), IsItem(x2),
         Opens(x1, k), Finishes(x2)
  PROVE  DeclarationRow(<<x1, x2>>, k)
  BY RowOf2 DEF DeclarationRow

LEMMA RowOf3 ==
  ASSUME NEW x1, NEW x2, NEW x3,
         IsItem(x1), IsItem(x2), IsItem(x3)
  PROVE  LET r == <<x1, x2, x3>> IN IsRow(r) /\ r # <<>> /\ Head(r) = x1 /\ r[Len(r)] = x3
<1> DEFINE r == <<x1, x2, x3>>
<1>1. r \in Seq({x1, x2, x3}) /\ Len(r) = 3 /\ DOMAIN r = 1 .. 3
  OBVIOUS
<1>2. IsSeq(r)
  <2> HIDE DEF r
  <2> QED BY <1>1, SeqIsSeq
<1>3. \A i \in 1 .. 3 : IsItem(r[i])
  OBVIOUS
<1> QED BY <1>1, <1>2, <1>3 DEF IsRow

LEMMA DeclarationOf3 ==
  ASSUME NEW k, NEW x1, NEW x2, NEW x3,
         IsItem(x1), IsItem(x2), IsItem(x3),
         Opens(x1, k), Finishes(x3)
  PROVE  DeclarationRow(<<x1, x2, x3>>, k)
  BY RowOf3 DEF DeclarationRow

LEMMA RowOf4 ==
  ASSUME NEW x1, NEW x2, NEW x3, NEW x4,
         IsItem(x1), IsItem(x2), IsItem(x3), IsItem(x4)
  PROVE  LET r == <<x1, x2, x3, x4>> IN IsRow(r) /\ r # <<>> /\ Head(r) = x1 /\ r[Len(r)] = x4
<1> DEFINE r == <<x1, x2, x3, x4>>
<1>1. r \in Seq({x1, x2, x3, x4}) /\ Len(r) = 4 /\ DOMAIN r = 1 .. 4
  OBVIOUS
<1>2. IsSeq(r)
  <2> HIDE DEF r
  <2> QED BY <1>1, SeqIsSeq
<1>3. \A i \in 1 .. 4 : IsItem(r[i])
  OBVIOUS
<1> QED BY <1>1, <1>2, <1>3 DEF IsRow

LEMMA DeclarationOf4 ==
  ASSUME NEW k, NEW x1, NEW x2, NEW x3, NEW x4,
         IsItem(x1), IsItem(x2), IsItem(x3), IsItem(x4),
         Opens(x1, k), Finishes(x4)
  PROVE  DeclarationRow(<<x1, x2, x3, x4>>, k)
  BY RowOf4 DEF DeclarationRow

LEMMA RowOf5 ==
  ASSUME NEW x1, NEW x2, NEW x3, NEW x4, NEW x5,
         IsItem(x1), IsItem(x2), IsItem(x3), IsItem(x4), IsItem(x5)
  PROVE  LET r == <<x1, x2, x3, x4, x5>> IN IsRow(r) /\ r # <<>> /\ Head(r) = x1 /\ r[Len(r)] = x5
<1> DEFINE r == <<x1, x2, x3, x4, x5>>
<1>1. r \in Seq({x1, x2, x3, x4, x5}) /\ Len(r) = 5 /\ DOMAIN r = 1 .. 5
  OBVIOUS
<1>2. IsSeq(r)
  <2> HIDE DEF r
  <2> QED BY <1>1, SeqIsSeq
<1>3. \A i \in 1 .. 5 : IsItem(r[i])
  OBVIOUS
<1> QED BY <1>1, <1>2, <1>3 DEF IsRow

LEMMA DeclarationOf5 ==
  ASSUME NEW k, NEW x1, NEW x2, NEW x3, NEW x4, NEW x5,
         IsItem(x1), IsItem(x2), IsItem(x3), IsItem(x4), IsItem(x5),
         Opens(x1, k), Finishes(x5)
  PROVE  DeclarationRow(<<x1, x2, x3, x4, x5>>, k)
  BY RowOf5 DEF DeclarationRow

LEMMA RowOf6 ==
  ASSUME NEW x1, NEW x2, NEW x3, NEW x4, NEW x5, NEW x6,
         IsItem(x1), IsItem(x2), IsItem(x3), IsItem(x4), IsItem(x5), IsItem(x6)
  PROVE  LET r == <<x1, x2, x3, x4, x5, x6>> IN IsRow(r) /\ r # <<>> /\ Head(r) = x1 /\ r[Len(r)] = x6
<1> DEFINE r == <<x1, x2, x3, x4, x5, x6>>
<1>1. r \in Seq({x1, x2, x3, x4, x5, x6}) /\ Len(r) = 6 /\ DOMAIN r = 1 .. 6
  OBVIOUS
<1>2. IsSeq(r)
  <2> HIDE DEF r
  <2> QED BY <1>1, SeqIsSeq
<1>3. \A i \in 1 .. 6 : IsItem(r[i])
  OBVIOUS
<1> QED BY <1>1, <1>2, <1>3 DEF IsRow

LEMMA DeclarationOf6 ==
  ASSUME NEW k, NEW x1, NEW x2, NEW x3, NEW x4, NEW x5, NEW x6,
         IsItem(x1), IsItem(x2), IsItem(x3), IsItem(x4), IsItem(x5), IsItem(x6),
         Opens(x1, k), Finishes(x6)
  PROVE  DeclarationRow(<<x1, x2, x3, x4, x5, x6>>, k)
  BY RowOf6 DEF DeclarationRow

LEMMA RowOf7 ==
  ASSUME NEW x1, NEW x2, NEW x3, NEW x4, NEW x5, NEW x6, NEW x7,
         IsItem(x1), IsItem(x2), IsItem(x3), IsItem(x4), IsItem(x5), IsItem(x6), IsItem(x7)
  PROVE  LET r == <<x1, x2, x3, x4, x5, x6, x7>> IN IsRow(r) /\ r # <<>> /\ Head(r) = x1 /\ r[Len(r)] = x7
<1> DEFINE r == <<x1, x2, x3, x4, x5, x6, x7>>
<1>1. r \in Seq({x1, x2, x3, x4, x5, x6, x7}) /\ Len(r) = 7 /\ DOMAIN r = 1 .. 7
  OBVIOUS
<1>2. IsSeq(r)
  <2> HIDE DEF r
  <2> QED BY <1>1, SeqIsSeq
<1>3. \A i \in 1 .. 7 : IsItem(r[i])
  OBVIOUS
<1> QED BY <1>1, <1>2, <1>3 DEF IsRow

LEMMA DeclarationOf7 ==
  ASSUME NEW k, NEW x1, NEW x2, NEW x3, NEW x4, NEW x5, NEW x6, NEW x7,
         IsItem(x1), IsItem(x2), IsItem(x3), IsItem(x4), IsItem(x5), IsItem(x6), IsItem(x7),
         Opens(x1, k), Finishes(x7)
  PROVE  DeclarationRow(<<x1, x2, x3, x4, x5, x6, x7>>, k)
  BY RowOf7 DEF DeclarationRow

LEMMA RowOf8 ==
  ASSUME NEW x1, NEW x2, NEW x3, NEW x4, NEW x5, NEW x6, NEW x7, NEW x8,
         IsItem(x1), IsItem(x2), IsItem(x3), IsItem(x4), IsItem(x5), IsItem(x6), IsItem(x7), IsItem(x8)
  PROVE  LET r == <<x1, x2, x3, x4, x5, x6, x7, x8>> IN IsRow(r) /\ r # <<>> /\ Head(r) = x1 /\ r[Len(r)] = x8
<1> DEFINE r == <<x1, x2, x3, x4, x5, x6, x7, x8>>
<1>1. r \in Seq({x1, x2, x3, x4, x5, x6, x7, x8}) /\ Len(r) = 8 /\ DOMAIN r = 1 .. 8
  OBVIOUS
<1>2. IsSeq(r)
  <2> HIDE DEF r
  <2> QED BY <1>1, SeqIsSeq
<1>3. \A i \in 1 .. 8 : IsItem(r[i])
  OBVIOUS
<1> QED BY <1>1, <1>2, <1>3 DEF IsRow

LEMMA DeclarationOf8 ==
  ASSUME NEW k, NEW x1, NEW x2, NEW x3, NEW x4, NEW x5, NEW x6, NEW x7, NEW x8,
         IsItem(x1), IsItem(x2), IsItem(x3), IsItem(x4), IsItem(x5), IsItem(x6), IsItem(x7), IsItem(x8),
         Opens(x1, k), Finishes(x8)
  PROVE  DeclarationRow(<<x1, x2, x3, x4, x5, x6, x7, x8>>, k)
  BY RowOf8 DEF DeclarationRow

LEMMA RowOf9 ==
  ASSUME NEW x1, NEW x2, NEW x3, NEW x4, NEW x5, NEW x6, NEW x7, NEW x8, NEW x9,
         IsItem(x1), IsItem(x2), IsItem(x3), IsItem(x4), IsItem(x5), IsItem(x6), IsItem(x7), IsItem(x8), IsItem(x9)
  PROVE  LET r == <<x1, x2, x3, x4, x5, x6, x7, x8, x9>> IN IsRow(r) /\ r # <<>> /\ Head(r) = x1 /\ r[Len(r)] = x9
<1> DEFINE r == <<x1, x2, x3, x4, x5, x6, x7, x8, x9>>
<1>1. r \in Seq({x1, x2, x3, x4, x5, x6, x7, x8, x9}) /\ Len(r) = 9 /\ DOMAIN r = 1 .. 9
  OBVIOUS
<1>2. IsSeq(r)
  <2> HIDE DEF r
  <2> QED BY <1>1, SeqIsSeq
<1>3. \A i \in 1 .. 9 : IsItem(r[i])
  OBVIOUS
<1> QED BY <1>1, <1>2, <1>3 DEF IsRow

LEMMA DeclarationOf9 ==
  ASSUME NEW k, NEW x1, NEW x2, NEW x3, NEW x4, NEW x5, NEW x6, NEW x7, NEW x8, NEW x9,
         IsItem(x1), IsItem(x2), IsItem(x3), IsItem(x4), IsItem(x5), IsItem(x6), IsItem(x7), IsItem(x8), IsItem(x9),
         Opens(x1, k), Finishes(x9)
  PROVE  DeclarationRow(<<x1, x2, x3, x4, x5, x6, x7, x8, x9>>, k)
  BY RowOf9 DEF DeclarationRow

LEMMA PlainItems ==
  /\ \A k : IsItem(Must(k)) /\ \A x : Opens(Must(k), x) <=> x = k
  /\ \A ks : IsItem(OneOf(ks)) /\ \A x : Opens(OneOf(ks), x)
  /\ \A f : IsItem(Sub(f))
  /\ \A k : Finishes(Node(k)) /\ Node(k).do = "node"
  /\ \A k : k \notin Operations => IsItem(Node(k))
  /\ \A e, k : IsItem(Delim(e, k))
  /\ IsItem(Expression) /\ \A x : Opens(Expression, x)
  /\ IsItem(NotEmpty) /\ IsItem(NoNode) /\ IsItem(Default) /\ IsItem(Discard)
  /\ IsItem(Identifier)
<1>1. \A k : IsItem(Must(k)) /\ \A x : Opens(Must(k), x) <=> x = k
  BY FlatIsItem DEF Must, Opens, Plain
<1>2. \A ks : IsItem(OneOf(ks)) /\ \A x : Opens(OneOf(ks), x)
  BY FlatIsItem DEF OneOf, Opens, Plain
<1>3. \A f : IsItem(Sub(f))
  BY FlatIsItem DEF Sub, Plain
<1>4. /\ \A k : Finishes(Node(k)) /\ Node(k).do = "node"
      /\ \A k : k \notin Operations => IsItem(Node(k))
  BY FlatIsItem DEF Node, Finishes, Plain
<1>5. \A e, k : IsItem(Delim(e, k))
  BY FlatIsItem DEF Delim, Plain
<1>6. IsItem(Expression) /\ \A x : Opens(Expression, x)
  BY FlatIsItem DEF Expression, Opens, Plain
<1>7. IsItem(NotEmpty) /\ IsItem(NoNode) /\ IsItem(Default) /\ IsItem(Discard)
  BY FlatIsItem DEF NotEmpty, NoNode, Default, Discard, Plain
<1> QED BY <1>1, <1>2, <1>3, <1>4, <1>5, <1>6, <1>7 DEF Identifier

LEMMA LoopItem == ASSUME NEW k, NEW body, IsRow(body) PROVE IsItem(Until(k, body)) /\ IsItem(While(k, body))
<1>1. /\ Until(k, body).do = "until" /\ Until(k, body).body = body
      /\ While(k, body).do = "while" /\ While(k, body).body = body
  BY DEF Until, While
<1> QED BY <1>1, UntilIsItem

LEMMA ComposedItems ==
  /\ IsItem(Typing) /\ IsItem(Params)
  /\ \A end, delim : IsItem(Fields(end, delim))
<1>1. IsRow(<<Identifier>>) /\ IsRow(<<>>)
  BY OneItem, NoItems, PlainItems
<1>2. IsItem(Typing)
  BY <1>1, OptIsItem DEF Typing
<1>3. ASSUME NEW end, NEW delim PROVE IsItem(Fields(end, delim))
  <2>1. IsRow(<<Identifier, Typing, Delim(end, delim)>>)
    BY <1>2, PlainItems, RowOf3
  <2> QED BY <2>1, LoopItem DEF Fields
<1>4. IsItem(Params)
  <2>1. IsRow(<<Fields(")", ",")>>)
    BY <1>3, OneItem
  <2> QED BY <1>1, <2>1, OptIsItem DEF Params
<1> QED BY <1>2, <1>3, <1>4

LEMMA JoinedEnds ==
  ASSUME NEW r, IsRow(r), r # <<>>, NEW s, IsRow(s), s # <<>>
  PROVE  LET t == r \o s IN
         IsRow(t) /\ t # <<>> /\ Head(t) = Head(r) /\ t[Len(t)] = s[Len(s)]
<1> DEFINE t == r \o s
<1>1. Len(r) \in Nat \ {0} /\ Len(s) \in Nat \ {0} /\ IsSeq(r) /\ IsSeq(s)
  BY TailFacts DEF IsRow
<1>2. IsRow(t) /\ Len(t) = Len(r) + Len(s) /\ IsSeq(t)
  BY <1>1, ConcatFacts, JoinedRows
<1>3. t[1] = r[1] /\ t[Len(r) + Len(s)] = s[Len(s)]
  BY <1>1, ConcatFacts
<1> HIDE DEF t
<1>4. t # <<>> /\ t[Len(t)] = s[Len(s)]
  BY <1>1, <1>2, <1>3
<1>5. Head(t) = t[1] /\ Head(r) = r[1]
  BY <1>1, <1>2, <1>4, TailFacts
<1> QED BY <1>2, <1>3, <1>4, <1>5 DEF t

LEMMA PackageRow ==
  ASSUME NEW k, NEW s, IsRow(s), s # <<>>, Finishes(s[Len(s)])
  PROVE  DeclarationRow(<<Must(k)>> \o Package \o s, k)
<1> DEFINE x == Must(k)
<1>1. IsItem(x) /\ Opens(x, k)
  BY PlainItems
<1>2. IsRow(Package) /\ Package # <<>>
  BY PlainItems, RowOf2 DEF Package
<1> HIDE DEF x
<1>3. IsRow(<<x>>) /\ <<x>> # <<>> /\ Head(<<x>>) = x
  BY <1>1, OneItem
<1> DEFINE r == <<x>> \o Package
<1>4. IsRow(r) /\ r # <<>> /\ Head(r) = x
  BY <1>2, <1>3, JoinedEnds
<1> HIDE DEF r
<1>5. DeclarationRow(r \o s, k)
  BY <1>1, <1>4, JoinedEnds DEF DeclarationRow
<1> QED BY <1>5 DEF r, x

LEMMA DeclarationRows ==
  /\ DeclarationRow(declaration_main, "main")
  /\ DeclarationRow(declaration_enum, "enum")
  /\ DeclarationRow(declaration_object, "obj")
  /\ DeclarationRow(declaration_macro, "macro")
  /\ DeclarationRow(declaration_package, "pkg")
  /\ DeclarationRow(declaration_import, "use")
  /\ DeclarationRow(declaration_function, "fun")
  /\ DeclarationRow(declaration_library, "dll")
<1>1. DeclarationRow(declaration_main, "main")
  <2> DEFINE x1 == Must("main")
             x2 == Must(";")
             x3 == Node("ModuleMain")
  <2>1. IsItem(x1) /\ IsItem(x2) /\ IsItem(x3)
    BY PlainItems, ComposedItems DEF Operations
  <2>2. Opens(x1, "main") /\ Finishes(x3)
    BY PlainItems
  <2>3. declaration_main = <<x1, x2, x3>>
    BY DEF declaration_main
  <2> HIDE DEF x1, x2, x3
  <2> QED BY <2>1, <2>2, <2>3, DeclarationOf3
<1>2. DeclarationRow(declaration_enum, "enum")
  <2> DEFINE x1 == Must("enum")
             x2 == Identifier
             x3 == Must("{")
             x4 == Fields("}", ";")
             x5 == Node("DeclarationEnum")
  <2>1. IsItem(x1) /\ IsItem(x2) /\ IsItem(x3) /\ IsItem(x4) /\ IsItem(x5)
    BY PlainItems, ComposedItems DEF Operations
  <2>2. Opens(x1, "enum") /\ Finishes(x5)
    BY PlainItems
  <2>3. declaration_enum = <<x1, x2, x3, x4, x5>>
    BY DEF declaration_enum
  <2> HIDE DEF x1, x2, x3, x4, x5
  <2> QED BY <2>1, <2>2, <2>3, DeclarationOf5
<1>3. DeclarationRow(declaration_object, "obj")
  <2> DEFINE x1 == Must("obj")
             x2 == Identifier
             x3 == Typing
             x4 == Must("{")
             x5 == Must("}")
             x6 == Node("DeclarationObject")
  <2>1. IsItem(x1) /\ IsItem(x2) /\ IsItem(x3) /\ IsItem(x4) /\ IsItem(x5) /\ IsItem(x6)
    BY PlainItems, ComposedItems DEF Operations
  <2>2. Opens(x1, "obj") /\ Finishes(x6)
    BY PlainItems
  <2>3. declaration_object = <<x1, x2, x3, x4, x5, x6>>
    BY DEF declaration_object
  <2> HIDE DEF x1, x2, x3, x4, x5, x6
  <2> QED BY <2>1, <2>2, <2>3, DeclarationOf6
<1>4. DeclarationRow(declaration_macro, "macro")
  <2> DEFINE x1 == Must("macro")
             x2 == Identifier
             x3 == Must("{")
             x4 == Must("}")
             x5 == Node("DeclarationMacro")
  <2>1. IsItem(x1) /\ IsItem(x2) /\ IsItem(x3) /\ IsItem(x4) /\ IsItem(x5)
    BY PlainItems, ComposedItems DEF Operations
  <2>2. Opens(x1, "macro") /\ Finishes(x5)
    BY PlainItems
  <2>3. declaration_macro = <<x1, x2, x3, x4, x5>>
    BY DEF declaration_macro
  <2> HIDE DEF x1, x2, x3, x4, x5
  <2> QED BY <2>1, <2>2, <2>3, DeclarationOf5
<1>5. DeclarationRow(declaration_package, "pkg")
  <2> DEFINE s == <<Must(";"), Node("ModuleDeclaration")>>
  <2>1. IsRow(s) /\ s # <<>> /\ s[Len(s)] = Node("ModuleDeclaration")
    BY PlainItems, RowOf2 DEF Operations
  <2>2. declaration_package = <<Must("pkg")>> \o Package \o s
    BY DEF declaration_package
  <2> HIDE DEF s
  <2> QED BY <2>1, <2>2, PlainItems, PackageRow
<1>6. DeclarationRow(declaration_import, "use")
  <2> DEFINE names == Opt("/", <<Identifier, While(",", <<Identifier>>)>>, <<>>)
             s == <<names, Must(";"), Node("ModuleImport")>>
  <2>1. IsItem(names)
    <3>1. IsItem(While(",", <<Identifier>>))
      BY PlainItems, OneItem, LoopItem
    <3>2. IsRow(<<Identifier, While(",", <<Identifier>>)>>)
      BY <3>1, PlainItems, RowOf2
    <3> QED BY <3>2, NoItems, OptIsItem
  <2>2. IsRow(s) /\ s # <<>> /\ s[Len(s)] = Node("ModuleImport")
    <3> HIDE DEF names
    <3> QED BY <2>1, PlainItems, RowOf3 DEF Operations
  <2>3. declaration_import = <<Must("use")>> \o Package \o s
    BY DEF declaration_import
  <2> HIDE DEF names, s
  <2> QED BY <2>2, <2>3, PlainItems, PackageRow
<1>7. DeclarationRow(declaration_library, "dll")
  <2> DEFINE functions == Until("}", <<Sub("extern_function")>>)
             s == <<Must("{"), functions, Node("DeclarationExternLibrary")>>
  <2>1. IsItem(functions)
    BY PlainItems, OneItem, LoopItem
  <2>2. IsRow(s) /\ s # <<>> /\ s[Len(s)] = Node("DeclarationExternLibrary")
    <3> HIDE DEF functions
    <3> QED BY <2>1, PlainItems, RowOf3 DEF Operations
  <2>3. declaration_library = <<Must("dll")>> \o Package \o s
    BY DEF declaration_library
  <2> HIDE DEF functions, s
  <2> QED BY <2>2, <2>3, PlainItems, PackageRow
<1>8. DeclarationRow(declaration_function, "fun")
  <2> DEFINE s == <<Sub("parse_function_body"), Node("ExpressionLambda"), Node("DeclarationFunction")>>
  <2>1. IsRow(s) /\ s # <<>> /\ s[Len(s)] = Node("DeclarationFunction")
    BY PlainItems, RowOf3 DEF Operations
  <2>2. IsRow(parse_named_function_header) /\ parse_named_function_header # <<>>
        /\ Head(parse_named_function_header) = Must("fun")
    BY PlainItems, ComposedItems, RowOf4 DEF parse_named_function_header
  <2> HIDE DEF s
  <2>3. IsRow(declaration_function) /\ declaration_function # <<>> /\ Head(declaration_function) = Must("fun")
        /\ declaration_function[Len(declaration_function)] = Node("DeclarationFunction")
    BY <2>1, <2>2, JoinedEnds DEF declaration_function, s
  <2> QED BY <2>3, PlainItems DEF DeclarationRow
<1> QED BY <1>1, <1>2, <1>3, <1>4, <1>5, <1>6, <1>7, <1>8

LEMMA StatementRows ==
  /\ DeclarationRow(statement_empty, ";")
  /\ DeclarationRow(statement_switch, "switch")
  /\ \A k : DeclarationRow(statement_variable, k)
  /\ DeclarationRow(statement_constant, "const")
  /\ \A k : DeclarationRow(statement_itercontrol, k)
  /\ \A k : DeclarationRow(statement_expression, k)
  /\ DeclarationRow(statement_while, "while")
  /\ DeclarationRow(statement_loop, "loop")
  /\ DeclarationRow(statement_for, "for")
  /\ DeclarationRow(statement_foreach, "foreach")
  /\ DeclarationRow(statement_match, "match")
  /\ DeclarationRow(statement_block, "{")
  /\ DeclarationRow(statement_circuit, "${")
  /\ DeclarationRow(statement_return, "return")
  /\ DeclarationRow(statement_if, "if")
<1>1. DeclarationRow(statement_empty, ";")
  <2> DEFINE x1 == Must(";")
             x2 == Node("StatementEmpty")
  <2>1. IsItem(x1) /\ IsItem(x2)
    BY PlainItems, ComposedItems DEF Operations
  <2>2. Opens(x1, ";") /\ Finishes(x2)
    BY PlainItems
  <2>3. statement_empty = <<x1, x2>>
    BY DEF statement_empty
  <2> HIDE DEF x1, x2
  <2> QED BY <2>1, <2>2, <2>3, DeclarationOf2
<1>2. DeclarationRow(statement_switch, "switch")
  <2> DEFINE x1 == Must("switch")
             x2 == Identifier
             x3 == Must(";")
             x4 == Node("StatementSwitch")
  <2>1. IsItem(x1) /\ IsItem(x2) /\ IsItem(x3) /\ IsItem(x4)
    BY PlainItems, ComposedItems DEF Operations
  <2>2. Opens(x1, "switch") /\ Finishes(x4)
    BY PlainItems
  <2>3. statement_switch = <<x1, x2, x3, x4>>
    BY DEF statement_switch
  <2> HIDE DEF x1, x2, x3, x4
  <2> QED BY <2>1, <2>2, <2>3, DeclarationOf4
<1>3. \A k : DeclarationRow(statement_variable, k)
  <2> SUFFICES ASSUME NEW k PROVE DeclarationRow(statement_variable, k)
    OBVIOUS
  <2> DEFINE x1 == OneOf({"let", "def"})
             x2 == Identifier
             x3 == Typing
             x4 == Must("=")
             x5 == Expression
             x6 == Must(";")
             x7 == Node("StatementVariable")
  <2>1. IsItem(x1) /\ IsItem(x2) /\ IsItem(x3) /\ IsItem(x4) /\ IsItem(x5) /\ IsItem(x6) /\ IsItem(x7)
    BY PlainItems, ComposedItems DEF Operations
  <2>2. Opens(x1, k) /\ Finishes(x7)
    BY PlainItems
  <2>3. statement_variable = <<x1, x2, x3, x4, x5, x6, x7>>
    BY DEF statement_variable
  <2> HIDE DEF x1, x2, x3, x4, x5, x6, x7
  <2> QED BY <2>1, <2>2, <2>3, DeclarationOf7
<1>4. DeclarationRow(statement_constant, "const")
  <2> DEFINE x1 == Must("const")
             x2 == Identifier
             x3 == Typing
             x4 == Must("=")
             x5 == Expression
             x6 == Must(";")
             x7 == Node("StatementConstant")
  <2>1. IsItem(x1) /\ IsItem(x2) /\ IsItem(x3) /\ IsItem(x4) /\ IsItem(x5) /\ IsItem(x6) /\ IsItem(x7)
    BY PlainItems, ComposedItems DEF Operations
  <2>2. Opens(x1, "const") /\ Finishes(x7)
    BY PlainItems
  <2>3. statement_constant = <<x1, x2, x3, x4, x5, x6, x7>>
    BY DEF statement_constant
  <2> HIDE DEF x1, x2, x3, x4, x5, x6, x7
  <2> QED BY <2>1, <2>2, <2>3, DeclarationOf7
<1>5. \A k : DeclarationRow(statement_itercontrol, k)
  <2> SUFFICES ASSUME NEW k PROVE DeclarationRow(statement_itercontrol, k)
    OBVIOUS
  <2> DEFINE x1 == OneOf({"break", "continue"})
             x2 == Must(";")
             x3 == Node("StatementIterationControl")
  <2>1. IsItem(x1) /\ IsItem(x2) /\ IsItem(x3)
    BY PlainItems, ComposedItems DEF Operations
  <2>2. Opens(x1, k) /\ Finishes(x3)
    BY PlainItems
  <2>3. statement_itercontrol = <<x1, x2, x3>>
    BY DEF statement_itercontrol
  <2> HIDE DEF x1, x2, x3
  <2> QED BY <2>1, <2>2, <2>3, DeclarationOf3
<1>6. \A k : DeclarationRow(statement_expression, k)
  <2> SUFFICES ASSUME NEW k PROVE DeclarationRow(statement_expression, k)
    OBVIOUS
  <2> DEFINE x1 == Expression
             x2 == Must(";")
             x3 == Node("StatementExpression")
  <2>1. IsItem(x1) /\ IsItem(x2) /\ IsItem(x3)
    BY PlainItems, ComposedItems DEF Operations
  <2>2. Opens(x1, k) /\ Finishes(x3)
    BY PlainItems
  <2>3. statement_expression = <<x1, x2, x3>>
    BY DEF statement_expression
  <2> HIDE DEF x1, x2, x3
  <2> QED BY <2>1, <2>2, <2>3, DeclarationOf3
<1>7. DeclarationRow(statement_while, "while")
  <2> DEFINE x1 == Must("while")
             x2 == Must("(")
             x3 == Expression
             x4 == Must(")")
             x5 == Sub("statement")
             x6 == Node("StatementWhile")
  <2>1. IsItem(x1) /\ IsItem(x2) /\ IsItem(x3) /\ IsItem(x4) /\ IsItem(x5) /\ IsItem(x6)
    BY PlainItems, ComposedItems DEF Operations
  <2>2. Opens(x1, "while") /\ Finishes(x6)
    BY PlainItems
  <2>3. statement_while = <<x1, x2, x3, x4, x5, x6>>
    BY DEF statement_while
  <2> HIDE DEF x1, x2, x3, x4, x5, x6
  <2> QED BY <2>1, <2>2, <2>3, DeclarationOf6
<1>8. DeclarationRow(statement_loop, "loop")
  <2> DEFINE x1 == Must("loop")
             x2 == Sub("statement")
             x3 == Node("StatementLoop")
  <2>1. IsItem(x1) /\ IsItem(x2) /\ IsItem(x3)
    BY PlainItems, ComposedItems DEF Operations
  <2>2. Opens(x1, "loop") /\ Finishes(x3)
    BY PlainItems
  <2>3. statement_loop = <<x1, x2, x3>>
    BY DEF statement_loop
  <2> HIDE DEF x1, x2, x3
  <2> QED BY <2>1, <2>2, <2>3, DeclarationOf3
<1>9. DeclarationRow(statement_for, "for")
  <2> DEFINE x1 == Must("for")
             x2 == Must("(")
             x3 == Sub("statement")
             x4 == Expression
             x5 == Must(";")
             x6 == Expression
             x7 == Must(")")
             x8 == Sub("statement")
             x9 == Node("StatementFor")
  <2>1. IsItem(x1) /\ IsItem(x2) /\ IsItem(x3) /\ IsItem(x4) /\ IsItem(x5) /\ IsItem(x6) /\ IsItem(x7) /\ IsItem(x8) /\ IsItem(x9)
    BY PlainItems, ComposedItems DEF Operations
  <2>2. Opens(x1, "for") /\ Finishes(x9)
    BY PlainItems
  <2>3. statement_for = <<x1, x2, x3, x4, x5, x6, x7, x8, x9>>
    BY DEF statement_for
  <2> HIDE DEF x1, x2, x3, x4, x5, x6, x7, x8, x9
  <2> QED BY <2>1, <2>2, <2>3, DeclarationOf9
<1>10. DeclarationRow(statement_foreach, "foreach")
  <2> DEFINE x1 == Must("foreach")
             x2 == Must("(")
             x3 == OneOf({"let", "def"})
             x4 == Identifier
             x5 == Must("<-")
             x6 == Expression
             x7 == Must(")")
             x8 == Sub("statement")
             x9 == Node("StatementForeach")
  <2>1. IsItem(x1) /\ IsItem(x2) /\ IsItem(x3) /\ IsItem(x4) /\ IsItem(x5) /\ IsItem(x6) /\ IsItem(x7) /\ IsItem(x8) /\ IsItem(x9)
    BY PlainItems, ComposedItems DEF Operations
  <2>2. Opens(x1, "foreach") /\ Finishes(x9)
    BY PlainItems
  <2>3. statement_foreach = <<x1, x2, x3, x4, x5, x6, x7, x8, x9>>
    BY DEF statement_foreach
  <2> HIDE DEF x1, x2, x3, x4, x5, x6, x7, x8, x9
  <2> QED BY <2>1, <2>2, <2>3, DeclarationOf9
<1>11. DeclarationRow(statement_match, "match")
  <2> DEFINE x1 == Must("match")
             x2 == Must("(")
             x3 == Expression
             x4 == Discard
             x5 == Must(")")
             x6 == Must("{")
             x7 == Must("}")
             x8 == Node("StatementMatch")
  <2>1. IsItem(x1) /\ IsItem(x2) /\ IsItem(x3) /\ IsItem(x4) /\ IsItem(x5) /\ IsItem(x6) /\ IsItem(x7) /\ IsItem(x8)
    BY PlainItems, ComposedItems DEF Operations
  <2>2. Opens(x1, "match") /\ Finishes(x8)
    BY PlainItems
  <2>3. statement_match = <<x1, x2, x3, x4, x5, x6, x7, x8>>
    BY DEF statement_match
  <2> HIDE DEF x1, x2, x3, x4, x5, x6, x7, x8
  <2> QED BY <2>1, <2>2, <2>3, DeclarationOf8
<1>12. DeclarationRow(statement_block, "{")
  <2> DEFINE open == Must("{")
             body == Until("}", <<Sub("statement")>>)
             made == Node("StatementBlock")
  <2>1. IsItem(body)
    BY PlainItems, OneItem, LoopItem
  <2>2. IsItem(open) /\ Opens(open, "{") /\ IsItem(made) /\ Finishes(made)
    BY PlainItems DEF Operations
  <2>3. statement_block = <<open, body, made>>
    BY DEF statement_block
  <2> HIDE DEF open, body, made
  <2> QED BY <2>1, <2>2, <2>3, DeclarationOf3
<1>13. DeclarationRow(statement_circuit, "${")
  <2> DEFINE default == <<Must(":"), Sub("statement"), Default>>
             case == <<Identifier, Must(":"), Sub("statement")>>
             cases == Until("}", <<Opt("_", default, case)>>)
  <2>1. IsRow(default) /\ IsRow(case)
    BY PlainItems, RowOf3
  <2>2. IsItem(cases)
    <3> HIDE DEF default, case
    <3> QED BY <2>1, OptIsItem, OneItem, LoopItem
  <2> DEFINE open == Must("${")
             made == Node("StatementCircuit")
  <2>3. IsItem(open) /\ Opens(open, "${") /\ IsItem(made) /\ Finishes(made) /\ IsItem(NoNode)
    BY PlainItems DEF Operations
  <2>4. statement_circuit = <<open, NoNode, cases, made>>
    BY DEF statement_circuit
  <2> HIDE DEF cases, open, made
  <2> QED BY <2>2, <2>3, <2>4, DeclarationOf4
<1>14. DeclarationRow(statement_return, "return")
  <2> DEFINE target == <<Expression, Must("]")>>
             where == Opt("[", target, <<NoNode>>)
             nothing == <<NoNode, Node("StatementReturn")>>
             value == <<Expression, Must(";"), Node("StatementReturn")>>
             what == Opt(";", nothing, value)
  <2>1. IsRow(target) /\ IsRow(<<NoNode>>)
    BY PlainItems, OneItem, RowOf2
  <2>2. IsItem(where)
    <3> HIDE DEF target
    <3> QED BY <2>1, OptIsItem
  <2>3. /\ IsRow(nothing) /\ nothing # <<>> /\ nothing[Len(nothing)] = Node("StatementReturn")
        /\ IsRow(value) /\ value # <<>> /\ value[Len(value)] = Node("StatementReturn")
    BY PlainItems, RowOf2, RowOf3 DEF Operations
  <2>4. IsItem(what) /\ Finishes(what)
    <3> HIDE DEF nothing, value
    <3>1. IsItem(what)
      BY <2>3, OptIsItem
    <3>2. what.do = "opt" /\ what.yes = nothing /\ what.no = value
      BY DEF Opt
    <3> QED BY <2>3, <3>1, <3>2, PlainItems DEF Finishes
  <2>5. statement_return = <<Must("return"), where, what>>
    BY DEF statement_return
  <2> HIDE DEF where, what
  <2> QED BY <2>2, <2>4, <2>5, PlainItems, DeclarationOf3
<1>15. DeclarationRow(statement_if, "if")
  <2> DEFINE otherwise == Opt("else", <<Sub("statement")>>, <<NoNode>>)
  <2>1. IsItem(otherwise)
    BY PlainItems, OneItem, OptIsItem
  <2>2. statement_if = <<Must("if"), Must("("), Expression, Must(")"), Sub("statement"), otherwise,
                         Node("StatementIf")>>
    BY DEF statement_if
  <2> HIDE DEF otherwise
  <2> QED BY <2>1, <2>2, PlainItems, DeclarationOf7 DEF Operations
<1> QED BY <1>1, <1>2, <1>3, <1>4, <1>5, <1>6, <1>7, <1>8, <1>9, <1>10, <1>11, <1>12, <1>13, <1>14, <1>15

(* The row that declaration() follows at a token of kind k. *)
LEMMA DeclarationFacts == ASSUME NEW k PROVE DeclarationRow(declaration(k), k)
<1>1. DeclarationRow(statement(k), k)
  BY StatementRows, ZenonT(60) DEF statement
<1> QED BY <1>1, DeclarationRows DEF declaration

(* An item at which a token of kind k is consumed or reported itself. *)
Untouched(x, k) == x.do \in {"oneof", "keep"} \/ (x.do = "must" /\ k \in x.kinds)

LEMMA HeadOfRow ==
  /\ \A a, b : Head(<<a, b>>) = a /\ <<a, b>> # <<>>
  /\ \A a, b, c : Head(<<a, b, c>>) = a /\ <<a, b, c>> # <<>>
  OBVIOUS

LEMMA PrefixFacts ==
  ASSUME NEW k \in PrefixToken
  PROVE  PrefixRow(k) # <<>> /\ Untouched(Head(PrefixRow(k)), k)
<1> DEFINE Good(r) == r # <<>> /\ Untouched(Head(r), k)
<1> SUFFICES Good(PrefixRow(k))
  OBVIOUS
<1>1. \/ k \in Literal
      \/ k \in {"not", "-", "+"}
      \/ k \in {"[", "(", "#{", "<", "IDENTIFIER", "LITERAL_CHAR", "LITERAL_STRING", "void",
                "return", "fun"}
  BY DEF PrefixToken
<1>2. \A x : Untouched(Must(x), x)
  BY DEF Untouched, Must
<1>3. CASE k \in Literal
  <2>1. PrefixRow(k) = expression_literal
    BY <1>3 DEF PrefixRow, Literal
  <2>2. Untouched(Keep, k)
    BY DEF Untouched, Keep
  <2> QED BY <2>1, <2>2, HeadOfRow DEF expression_literal
<1>4. CASE k \in {"not", "-", "+"}
  <2>1. PrefixRow(k) = expression_unary
    BY <1>4 DEF PrefixRow, Literal
  <2>2. \A ks : Untouched(OneOf(ks), k)
    BY DEF Untouched, OneOf
  <2> QED BY <2>1, <2>2, HeadOfRow DEF expression_unary
<1>5. ASSUME k = "[" PROVE Good(PrefixRow(k))
  <2>1. PrefixRow("[") = expression_array
    BY DEF PrefixRow, Literal
  <2> QED BY <1>2, <1>5, <2>1, HeadOfRow DEF expression_array
<1>6. ASSUME k = "(" PROVE Good(PrefixRow(k))
  <2>1. PrefixRow("(") = expression_tuple
    BY DEF PrefixRow, Literal
  <2> QED BY <1>2, <1>6, <2>1, HeadOfRow DEF expression_tuple
<1>7. ASSUME k = "#{" PROVE Good(PrefixRow(k))
  <2>1. PrefixRow("#{") = expression_dictionary
    BY DEF PrefixRow, Literal
  <2> QED BY <1>2, <1>7, <2>1, HeadOfRow, ZenonT(60) DEF expression_dictionary
<1>8. ASSUME k = "<" PROVE Good(PrefixRow(k))
  <2>1. PrefixRow("<") = expression_vector
    BY DEF PrefixRow, Literal
  <2> QED BY <1>2, <1>8, <2>1, HeadOfRow DEF expression_vector
<1>9. ASSUME k = "IDENTIFIER" PROVE Good(PrefixRow(k))
  <2>1. PrefixRow("IDENTIFIER") = expression_identifier
    BY DEF PrefixRow, Literal
  <2> QED BY <1>2, <1>9, <2>1, HeadOfRow DEF expression_identifier, Identifier
<1>10. ASSUME k = "LITERAL_CHAR" PROVE Good(PrefixRow(k))
  <2>1. PrefixRow("LITERAL_CHAR") = expression_char
    BY DEF PrefixRow, Literal
  <2> QED BY <1>2, <1>10, <2>1, HeadOfRow DEF expression_char
<1>11. ASSUME k = "LITERAL_STRING" PROVE Good(PrefixRow(k))
  <2>1. PrefixRow("LITERAL_STRING") = expression_string
    BY DEF PrefixRow, Literal
  <2> QED BY <1>2, <1>11, <2>1, HeadOfRow DEF expression_string
<1>12. ASSUME k = "void" PROVE Good(PrefixRow(k))
  <2>1. PrefixRow("void") = expression_void
    BY DEF PrefixRow, Literal
  <2> QED BY <1>2, <1>12, <2>1, HeadOfRow DEF expression_void
<1>13. ASSUME k = "return" PROVE Good(PrefixRow(k))
  <2>1. PrefixRow("return") = expression_continuation
    BY DEF PrefixRow, Literal
  <2> QED BY <1>2, <1>13, <2>1, HeadOfRow DEF expression_continuation
<1>14. ASSUME k = "fun" PROVE Good(PrefixRow(k))
  <2>1. PrefixRow("fun") = expression_lambda
    BY DEF PrefixRow, Literal
  <2> DEFINE h == parse_nameless_function_header
             s == <<Sub("parse_function_body"), Node("ExpressionLambda")>>
  <2>2. IsRow(h) /\ h # <<>> /\ Head(h) = Must("fun")
    BY PlainItems, ComposedItems, RowOf3 DEF parse_nameless_function_header
  <2>3. IsRow(s) /\ s # <<>>
    BY PlainItems, RowOf2 DEF Operations
  <2> HIDE DEF h, s
  <2>4. h \o s # <<>> /\ Head(h \o s) = Must("fun")
    BY <2>2, <2>3, JoinedEnds
  <2> QED BY <1>2, <1>14, <2>1, <2>4 DEF expression_lambda, h, s
<1> QED BY <1>1, <1>3, <1>4, <1>5, <1>6, <1>7, <1>8, <1>9, <1>10, <1>11, <1>12, <1>13, <1>14

-----------------------------------------------------------------------------
(* The invariant of the parser.                                            *)
(*                                                                         *)
(* A gap between two declarations is closed: it is empty, or it ends with  *)
(* a semicolon and something in it was reported or had no value.  The gap  *)
(* behind the last one grows while the parser recovers, is closed when a   *)
(* declaration begins and lasts to the end of the text otherwise.  A       *)
(* report points at the token before the next one, which may lie before    *)
(* the declaration unless one of its tokens has been consumed: until then  *)
(* the innermost call is at an item that cannot fail so (Fresh).           *)

Recorded(from, to) ==
  \/ \E r \in DOMAIN reports : from <= reports[r] /\ reports[r] < to
  \/ \E i \in from .. to - 1 : Unconvertible(tokens[i])

ClosedGap(from, to) ==
  /\ from \in 1 .. Len(tokens) /\ to \in from .. Len(tokens)
  /\ from = to \/ (tokens[to - 1].kind = ";" /\ Recorded(from, to))

EndOf(i) == IF i = 0 THEN 1 ELSE nodes[tree[i]].hi
LastEnd == EndOf(Len(tree))

Sequences == IsSeq(tokens) /\ IsSeq(stack) /\ IsSeq(nodes) /\ IsSeq(tree) /\ IsSeq(reports)

TokensInText ==
  /\ IsSeq(text) /\ tokens # <<>>
  /\ \A i \in DOMAIN tokens :
       tokens[i].lo \in 1 .. Len(text) + 1 /\ tokens[i].hi \in tokens[i].lo .. Len(text) + 1

TreeOfNodes == \A i \in DOMAIN tree : tree[i] \in DOMAIN nodes

ReportsAreTokens == \A r \in DOMAIN reports : reports[r] \in 0 .. Len(tokens)

GapsClosed == \A i \in 1 .. Len(tree) : ClosedGap(EndOf(i - 1), nodes[tree[i]].lo)

Between ==
  mode = "parse" /\ stack = <<>> =>
    /\ LastEnd \in 1 .. Len(tokens)
    /\ \/ ClosedGap(LastEnd, Len(tokens))
       \/ /\ eof
          /\ \/ \E r \in DOMAIN reports : LastEnd <= reports[r]
             \/ \E i \in LastEnd .. Len(tokens) - 1 : Unconvertible(tokens[i])

Skipping ==
  mode = "skip" =>
    /\ stack = <<>> /\ LastEnd \in 1 .. Len(tokens)
    /\ \/ \E r \in DOMAIN reports : LastEnd <= reports[r]
       \/ \E i \in LastEnd .. Len(tokens) - 1 : Unconvertible(tokens[i])

(* The outermost call, which parses the declaration. *)
IsFrame(f) == f = [todo |-> f.todo, kids |-> f.kids, first |-> f.first, op |-> f.op]
OnItsRow(f) ==
  IsFrame(f) /\ IsRow(f.todo) /\ f.todo # <<>> /\ Finishes(f.todo[Len(f.todo)])
HoldsNode(f, made, next) ==
  /\ IsFrame(f) /\ f.todo = <<>> /\ f.kids[1] \in DOMAIN made
  /\ made[f.kids[1]].lo = f.first /\ made[f.kids[1]].hi = next
HasItsNode(f) == HoldsNode(f, nodes, Len(tokens))

Fresh ==
  /\ Top.todo # <<>>
  /\ \/ Untouched(Item, peek.kind)
     \/ Len(stack) = 1 /\ Item.do = "precedence"
     \/ Len(stack) = 1 /\ Item.do = "expression" /\ ~eof

Declaring ==
  stack # <<>> =>
    /\ OnItsRow(stack[1]) \/ (Len(stack) = 1 /\ HasItsNode(stack[1]))
    /\ ClosedGap(LastEnd, stack[1].first)
    /\ Len(tokens) = stack[1].first => Fresh

ParserInv ==
  /\ Sequences /\ TokensInText /\ NoTextIsLost
  /\ TreeOfNodes /\ ReportsAreTokens /\ GapsClosed
  /\ Between /\ Skipping /\ Declaring

(* What is there stays as it is: tokens, nodes and reports are only added. *)
Extends(s, t) == IsSeq(t) /\ Len(s) <= Len(t) /\ \A i \in DOMAIN s : i \in DOMAIN t /\ t[i] = s[i]
Grows == text' = text /\ Extends(tokens, tokens') /\ Extends(nodes, nodes') /\ Extends(reports, reports')

LEMMA SameExtends == ASSUME NEW s, IsSeq(s) PROVE Extends(s, s)
  BY IsSeqFacts DEF Extends

LEMMA AppendExtends == ASSUME NEW s, IsSeq(s), NEW e PROVE Extends(s, Append(s, e))
  BY AppendFacts, IsSeqFacts DEF Extends

UnconvertibleIn(units, t) ==
  CASE t.kind = "LITERAL_NAT" -> Number[units[t.lo]] >= Modulus
    [] t.kind = "LITERAL_INT" -> Number[units[t.lo + 1]] > Modulus \div 2
    [] t.kind = "LITERAL_CHAR" -> t.hi = t.lo + 1
    [] OTHER -> FALSE

LEMMA UnconvertibleStays ==
  ASSUME Grows, NEW i \in DOMAIN tokens
  PROVE  Unconvertible(tokens[i])' <=> Unconvertible(tokens[i])
<1>1. Unconvertible(tokens[i]) <=> UnconvertibleIn(text, tokens[i])
  BY DEF Unconvertible, UnconvertibleIn
<1>2. Unconvertible(tokens[i])' <=> UnconvertibleIn(text', tokens'[i])
  BY DEF Unconvertible, UnconvertibleIn
<1>3. text' = text /\ tokens'[i] = tokens[i]
  BY DEF Grows, Extends
<1> QED BY <1>1, <1>2, <1>3

LEMMA GapStays ==
  ASSUME IsSeq(tokens), IsSeq(reports), Grows, NEW from, NEW to, ClosedGap(from, to)
  PROVE  ClosedGap(from, to)'
<1>1. /\ Len(tokens) \in Nat /\ DOMAIN tokens = 1 .. Len(tokens)
      /\ Len(tokens') \in Nat /\ Len(tokens) <= Len(tokens')
  BY IsSeqFacts DEF Grows, Extends
<1>2. from \in 1 .. Len(tokens) /\ to \in from .. Len(tokens)
  BY DEF ClosedGap
<1>3. CASE from = to
  BY <1>1, <1>2, <1>3 DEF ClosedGap
<1>4. CASE from # to
  <2>1. tokens[to - 1].kind = ";" /\ Recorded(from, to)
    BY <1>4 DEF ClosedGap
  <2>2. \A i \in from .. to - 1 : i \in DOMAIN tokens
    BY <1>1, <1>2
  <2>3. tokens'[to - 1] = tokens[to - 1]
    BY <1>1, <1>2, <1>4 DEF Grows, Extends
  <2>4. Recorded(from, to)'
    <3>1. CASE \E r \in DOMAIN reports : from <= reports[r] /\ reports[r] < to
      <4>1. PICK r \in DOMAIN reports : from <= reports[r] /\ reports[r] < to
        BY <3>1
      <4>2. r \in DOMAIN reports' /\ reports'[r] = reports[r]
        BY <4>1 DEF Grows, Extends
      <4> QED BY <4>1, <4>2 DEF Recorded
    <3>2. CASE \E i \in from .. to - 1 : Unconvertible(tokens[i])
      BY <2>2, <3>2, UnconvertibleStays DEF Recorded
    <3> QED BY <2>1, <3>1, <3>2 DEF Recorded
  <2>5. from \in 1 .. Len(tokens') /\ to \in from .. Len(tokens')
    BY <1>1, <1>2
  <2>6. tokens'[to - 1].kind = ";"
    BY <2>1, <2>3
  <2> QED BY <2>4, <2>5, <2>6 DEF ClosedGap
<1> QED BY <1>3, <1>4

(* The tree, when no declaration is added. *)
LEMMA TreeStays ==
  ASSUME Sequences, TreeOfNodes, GapsClosed, Grows, tree' = tree
  PROVE  TreeOfNodes' /\ GapsClosed' /\ LastEnd' = LastEnd
<1>1. Len(tree) \in Nat /\ DOMAIN tree = 1 .. Len(tree) /\ IsSeq(tokens) /\ IsSeq(reports)
  BY IsSeqFacts DEF Sequences
<1>2. \A i \in DOMAIN tree : tree[i] \in DOMAIN nodes' /\ nodes'[tree[i]] = nodes[tree[i]]
  BY DEF TreeOfNodes, Grows, Extends
<1>3. \A i \in 0 .. Len(tree) : EndOf(i)' = EndOf(i)
  BY <1>1, <1>2 DEF EndOf
<1>4. ASSUME NEW i \in 1 .. Len(tree), NEW from, NEW to, from = EndOf(i - 1), to = nodes[tree[i]].lo
      PROVE  ClosedGap(from, to)'
  <2>1. ClosedGap(from, to)
    BY <1>4 DEF GapsClosed
  <2> QED BY <1>1, <2>1, GapStays
<1>5. TreeOfNodes'
  BY <1>2 DEF TreeOfNodes
<1>6. GapsClosed'
  <2> SUFFICES ASSUME NEW i \in 1 .. Len(tree)
               PROVE  ClosedGap(EndOf(i - 1), nodes[tree[i]].lo)'
    BY DEF GapsClosed
  <2>1. EndOf(i - 1)' = EndOf(i - 1)
    BY <1>1, <1>3
  <2>2. nodes'[tree'[i]].lo = nodes[tree[i]].lo
    BY <1>1, <1>2
  <2>3. \A from, to : from = EndOf(i - 1) /\ to = nodes[tree[i]].lo => ClosedGap(from, to)'
    BY <1>4
  <2> QED BY <2>1, <2>2, <2>3 DEF ClosedGap, Recorded
<1>7. LastEnd' = LastEnd
  BY <1>1, <1>3 DEF LastEnd
<1> QED BY <1>5, <1>6, <1>7

-----------------------------------------------------------------------------
(* Steps of any kind *)

(* Reading a token loses nothing of the text. *)
LEMMA TextStays ==
  ASSUME IsSeq(tokens), TokensInText, NoTextIsLost, text' = text, tokens' = tokens \/ advance
  PROVE  /\ TokensInText' /\ NoTextIsLost' /\ Extends(tokens, tokens')
         /\ advance => Len(tokens') = Len(tokens) + 1
<1>1. Len(tokens) \in Nat /\ DOMAIN tokens = 1 .. Len(tokens) /\ Len(tokens) # 0
  BY IsSeqFacts DEF TokensInText
<1>2. CASE tokens' = tokens /\ ~advance
  BY <1>2, SameExtends DEF TokensInText, NoTextIsLost, Skipped
<1>3. CASE advance
  <2> DEFINE l == Len(tokens)
             k == Uncommented(peek.hi)
  <2>1. peek.hi \in 1 .. Len(text) + 1
    <3>1. l \in DOMAIN tokens /\ Len(text) \in Nat
      BY <1>1, IsSeqFacts DEF TokensInText
    <3> QED BY <3>1 DEF TokensInText, peek
  <2>2. /\ k.lo \in peek.hi .. Len(text) + 1 /\ k.hi \in k.lo .. Len(text) + 1
        /\ Skipped(peek.hi, k.lo)
    BY <2>1, UncommentedFacts DEF TokensInText
  <2>3. tokens' = Append(tokens, k)
    BY <1>3 DEF advance
  <2> HIDE DEF k
  <2>4. /\ Extends(tokens, tokens') /\ Len(tokens') = l + 1 /\ DOMAIN tokens' = 1 .. l + 1
        /\ tokens'[l + 1] = k /\ \A i \in 1 .. l : tokens'[i] = tokens[i]
    <3>1. Extends(tokens, tokens')
      BY <2>3, AppendExtends
    <3>2. /\ Len(tokens') = l + 1 /\ DOMAIN tokens' = 1 .. l + 1
          /\ tokens'[l + 1] = k /\ \A i \in DOMAIN tokens : tokens'[i] = tokens[i]
      BY <2>3, AppendFacts
    <3> QED BY <1>1, <3>1, <3>2
  <2>5. k.lo \in 1 .. Len(text) + 1
    BY <2>1, <2>2, IsSeqFacts DEF TokensInText
  <2>6. TokensInText'
    <3>1. tokens' # <<>>
      BY <1>1, <2>4
    <3>2. ASSUME NEW i \in 1 .. l + 1
          PROVE  /\ tokens'[i].lo \in 1 .. Len(text) + 1
                 /\ tokens'[i].hi \in tokens'[i].lo .. Len(text) + 1
      <4>1. CASE i = l + 1
        BY <2>2, <2>4, <2>5, <4>1
      <4>2. CASE i # l + 1
        <5>1. i \in DOMAIN tokens /\ tokens'[i] = tokens[i]
          BY <1>1, <2>4, <4>2
        <5> QED BY <5>1 DEF TokensInText
      <4> QED BY <4>1, <4>2
    <3> QED BY <2>4, <3>1, <3>2 DEF TokensInText
  <2>7. NoTextIsLost'
    <3>1. ASSUME NEW i \in 1 .. l + 1
          PROVE  Skipped(IF i = 1 THEN 1 ELSE tokens'[i - 1].hi, tokens'[i].lo)
      <4>1. CASE i = l + 1
        <5>1. i # 1 /\ tokens'[i - 1] = peek /\ tokens'[i] = k
          BY <1>1, <2>4, <4>1 DEF peek
        <5> QED BY <2>2, <5>1
      <4>2. CASE i # l + 1
        <5>1. i \in DOMAIN tokens /\ tokens'[i] = tokens[i]
              /\ (i # 1 => tokens'[i - 1] = tokens[i - 1])
          BY <1>1, <2>4, <4>2
        <5> QED BY <5>1 DEF NoTextIsLost
      <4> QED BY <4>1, <4>2
    <3> QED BY <2>4, <3>1 DEF NoTextIsLost, Skipped
  <2> QED BY <2>4, <2>6, <2>7
<1> QED BY <1>2, <1>3

LEMMA ReportsStay ==
  ASSUME Sequences, ReportsAreTokens, Extends(tokens, tokens'), reports' = reports
  PROVE  ReportsAreTokens'
<1>1. Len(tokens) \in Nat /\ Len(tokens') \in Nat /\ Len(tokens) <= Len(tokens')
  BY IsSeqFacts DEF Sequences, Extends
<1> QED BY <1>1 DEF ReportsAreTokens

(* A call that goes on within the declaration. *)
LEMMA CallGoesOn ==
  ASSUME ParserInv, stack # <<>>, text' = text, tokens' = tokens \/ advance,
         Extends(nodes, nodes'), UNCHANGED <<tree, reports>>, mode' # "skip",
         IsSeq(stack'), stack' # <<>>, stack'[1].first = stack[1].first,
         OnItsRow(stack'[1]) \/ (Len(stack') = 1 /\ HasItsNode(stack[1])'),
         ~advance => Len(tokens) # stack[1].first \/ Fresh'
  PROVE  ParserInv'
<1> DEFINE first == stack[1].first
<1>1. /\ Sequences /\ TokensInText /\ NoTextIsLost /\ TreeOfNodes /\ ReportsAreTokens /\ GapsClosed
      /\ ClosedGap(LastEnd, first) /\ IsSeq(tokens) /\ IsSeq(reports)
  BY DEF ParserInv, Declaring, Sequences
<1>2. /\ TokensInText' /\ NoTextIsLost' /\ Extends(tokens, tokens')
      /\ advance => Len(tokens') = Len(tokens) + 1
  BY <1>1, TextStays
<1>3. Grows
  BY <1>1, <1>2, SameExtends DEF Grows
<1>4. TreeOfNodes' /\ GapsClosed' /\ LastEnd' = LastEnd /\ ReportsAreTokens'
  BY <1>1, <1>2, <1>3, TreeStays, ReportsStay
<1>5. Sequences'
  BY <1>1, <1>2 DEF Sequences, Extends
<1>6. ClosedGap(LastEnd, stack[1].first)'
  <2>1. ASSUME NEW from, NEW to, from = LastEnd, to = first PROVE ClosedGap(from, to)'
    <3>1. ClosedGap(from, to)
      BY <1>1, <2>1
    <3> QED BY <1>1, <1>3, <3>1, GapStays
  <2>2. \A from, to : from = LastEnd /\ to = first => ClosedGap(from, to)'
    BY <2>1
  <2> QED BY <1>4, <2>2 DEF ClosedGap, Recorded
<1>7. Len(tokens') = stack'[1].first => Fresh'
  <2>1. CASE advance
    <3>1. Len(tokens) \in Nat /\ first \in 1 .. Len(tokens)
      <4>1. LastEnd \in 1 .. Len(tokens) /\ first \in LastEnd .. Len(tokens)
        BY <1>1 DEF ClosedGap
      <4> HIDE DEF first
      <4> QED BY <1>1, <4>1, IsSeqFacts
    <3> QED BY <1>2, <2>1, <3>1
  <2>2. CASE ~advance
    BY <2>2
  <2> QED BY <2>1, <2>2
<1>8. Declaring'
  BY <1>6, <1>7 DEF Declaring, OnItsRow, IsFrame
<1>9. Between' /\ Skipping'
  BY DEF Between, Skipping
<1> QED BY <1>2, <1>4, <1>5, <1>8, <1>9 DEF ParserInv

(* An exception leaves a report, or a token without a value, behind the    *)
(* last declaration.                                                       *)
LEMMA ThrowRecords ==
  ASSUME ParserInv, stack # <<>>, mode' = "skip", stack' = <<>>,
         UNCHANGED <<text, tokens, nodes, tree>>,
         \/ reports' = Append(reports, Len(tokens))
         \/ reports' = Append(reports, Len(tokens) - 1) /\ Len(tokens) # stack[1].first
         \/ reports' = reports /\ Unconvertible(previous) /\ Len(tokens) # stack[1].first
  PROVE  ParserInv'
<1> DEFINE first == stack[1].first
           l == Len(tokens)
<1>1. /\ Sequences /\ TokensInText /\ NoTextIsLost /\ TreeOfNodes /\ ReportsAreTokens /\ GapsClosed
      /\ ClosedGap(LastEnd, first) /\ IsSeq(tokens) /\ IsSeq(reports) /\ IsSeq(nodes) /\ IsSeq(tree)
  BY DEF ParserInv, Declaring, Sequences
<1>2. l \in Nat /\ DOMAIN tokens = 1 .. l /\ LastEnd \in 1 .. l /\ first \in LastEnd .. l
  BY <1>1, IsSeqFacts DEF ClosedGap
<1>3. Extends(reports, reports') /\ ReportsAreTokens'
      /\ (reports' = Append(reports, l) => \E r \in DOMAIN reports' : reports'[r] = l)
      /\ (reports' = Append(reports, l - 1) => \E r \in DOMAIN reports' : reports'[r] = l - 1)
  <2>1. ASSUME NEW i \in 0 .. l, reports' = Append(reports, i)
        PROVE  Extends(reports, reports') /\ ReportsAreTokens' /\ \E r \in DOMAIN reports' : reports'[r] = i
    <3>1. /\ Extends(reports, reports') /\ DOMAIN reports' = 1 .. Len(reports) + 1
          /\ DOMAIN reports = 1 .. Len(reports) /\ Len(reports) \in Nat
          /\ reports'[Len(reports) + 1] = i
          /\ \A r \in 1 .. Len(reports) : reports'[r] = reports[r]
      BY <1>1, <2>1, AppendFacts, AppendExtends, IsSeqFacts
    <3>2. \A r \in DOMAIN reports' : r = Len(reports) + 1 \/ r \in DOMAIN reports
      BY <3>1
    <3>3. ReportsAreTokens'
      BY <1>1, <3>1, <3>2 DEF ReportsAreTokens
    <3> QED BY <3>1, <3>3
  <2>2. l \in 0 .. l /\ l - 1 \in 0 .. l
    BY <1>2
  <2>3. reports' = reports => Extends(reports, reports') /\ ReportsAreTokens'
    BY <1>1, SameExtends DEF ReportsAreTokens
  <2>4. reports' = Append(reports, l) =>
          Extends(reports, reports') /\ ReportsAreTokens' /\ \E r \in DOMAIN reports' : reports'[r] = l
    BY <2>1, <2>2
  <2>5. reports' = Append(reports, l - 1) =>
          Extends(reports, reports') /\ ReportsAreTokens' /\ \E r \in DOMAIN reports' : reports'[r] = l - 1
    BY <2>1, <2>2
  <2> QED BY <2>3, <2>4, <2>5
<1>4. Grows
  BY <1>1, <1>3, SameExtends DEF Grows
<1>5. TreeOfNodes' /\ GapsClosed' /\ LastEnd' = LastEnd
  BY <1>1, <1>4, TreeStays
<1>6. TokensInText' /\ NoTextIsLost'
  BY <1>1, TextStays
<1>7. Sequences'
  <2>1. <<>> \in Seq({})
    OBVIOUS
  <2>2. IsSeq(<<>>)
    BY <2>1, SeqIsSeq
  <2> QED BY <1>1, <1>3, <2>2 DEF Sequences, Extends
<1>8. \/ \E r \in DOMAIN reports' : LastEnd <= reports'[r]
      \/ \E i \in LastEnd .. l - 1 : Unconvertible(tokens[i])'
  <2>1. CASE reports' = Append(reports, l)
    BY <1>2, <1>3, <2>1
  <2>2. CASE reports' = Append(reports, l - 1) /\ l # first
    <3>1. LastEnd <= l - 1
      <4> HIDE DEF first, l
      <4>1. \A e : e \in 1 .. l /\ first \in e .. l /\ l \in Nat /\ l # first => e <= l - 1
        OBVIOUS
      <4> QED BY <1>2, <2>2, <4>1
    <3> QED BY <1>3, <2>2, <3>1
  <2>3. CASE Unconvertible(previous) /\ l # first
    <3>1. l - 1 \in LastEnd .. l - 1 /\ l - 1 \in DOMAIN tokens
      <4> HIDE DEF first, l
      <4>1. \A e : e \in 1 .. l /\ first \in e .. l /\ l \in Nat /\ l # first =>
              l - 1 \in e .. l - 1 /\ l - 1 \in 1 .. l
        OBVIOUS
      <4> QED BY <1>2, <2>3, <4>1
    <3>2. Unconvertible(tokens[l - 1])
      BY <2>3 DEF previous
    <3>3. \A i \in DOMAIN tokens : Unconvertible(tokens[i]) => Unconvertible(tokens[i])'
      BY <1>4, UnconvertibleStays
    <3> QED BY <3>1, <3>2, <3>3
  <2> QED BY <2>1, <2>2, <2>3
<1>9. Skipping'
  <2>1. LastEnd' \in 1 .. Len(tokens')
    BY <1>2, <1>5
  <2>2. Len(tokens') = l
    OBVIOUS
  <2> QED BY <1>5, <1>8, <2>1, <2>2 DEF Skipping
<1>10. Between' /\ Declaring'
  BY DEF Between, Declaring
<1> QED BY <1>3, <1>5, <1>6, <1>7, <1>9, <1>10 DEF ParserInv

-----------------------------------------------------------------------------
(* The outermost call through the steps of the innermost one *)

LEMMA TopFacts ==
  ASSUME ParserInv, stack # <<>>
  PROVE  /\ IsSeq(stack) /\ Len(stack) \in Nat \ {0} /\ DOMAIN stack = 1 .. Len(stack)
         /\ IF Len(stack) = 1 THEN Top = stack[1] /\ (OnItsRow(Top) \/ HasItsNode(Top))
                              ELSE OnItsRow(stack[1])
         /\ Len(tokens) = stack[1].first => Fresh
<1>1. IsSeq(stack) /\ Len(stack) \in Nat /\ Len(stack) # 0 /\ DOMAIN stack = 1 .. Len(stack)
  BY IsSeqFacts DEF ParserInv, Sequences
<1>2. /\ OnItsRow(stack[1]) \/ (Len(stack) = 1 /\ HasItsNode(stack[1]))
      /\ Len(tokens) = stack[1].first => Fresh
  BY DEF ParserInv, Declaring
<1>3. Len(stack) = 1 => Top = stack[1]
  BY DEF Top
<1> QED BY <1>1, <1>2, <1>3

(* The stacks that steps leave have the frame f for the innermost one, and *)
(* may have others on top.                                                 *)
Replaces(s, f) == IsSeq(s) /\ s # <<>> /\ s[1] = IF Len(stack) = 1 THEN f ELSE stack[1]

LEMMA SetFacts ==
  ASSUME IsSeq(stack), stack # <<>>, NEW f
  PROVE  /\ Replaces(Set(f), f) /\ Len(Set(f)) = Len(stack)
         /\ \A r : IsSeq(r) => Replaces(Set(f) \o r, f)
         /\ \A g : Replaces(Append(Set(f), g), f)
<1> DEFINE s == Set(f)
           n == Len(stack)
<1>1. n \in Nat /\ n # 0 /\ n \in DOMAIN stack /\ 1 \in DOMAIN stack
  BY IsSeqFacts
<1>2. /\ IsSeq(s) /\ Len(s) = n /\ s[n] = f
      /\ \A i \in DOMAIN stack : i # n => s[i] = stack[i]
  BY <1>1, ExceptFacts DEF Set
<1>3. s[1] = IF n = 1 THEN f ELSE stack[1]
  BY <1>1, <1>2
<1> HIDE DEF s
<1>4. s # <<>>
  BY <1>1, <1>2, IsSeqFacts
<1>5. ASSUME NEW r, IsSeq(r) PROVE Replaces(s \o r, f)
  <2>1. /\ IsSeq(s \o r) /\ Len(s \o r) = n + Len(r) /\ Len(r) \in Nat
        /\ \A i \in 1 .. n : (s \o r)[i] = s[i]
    <3>1. IsSeq(s \o r) /\ Len(s \o r) = Len(s) + Len(r) /\ \A i \in 1 .. Len(s) : (s \o r)[i] = s[i]
      BY <1>2, <1>5, ConcatFacts
    <3>2. Len(r) \in Nat
      BY <1>5, IsSeqFacts
    <3> QED BY <1>2, <3>1, <3>2
  <2>2. s \o r # <<>>
    BY <1>1, <2>1, IsSeqFacts
  <2>3. (s \o r)[1] = s[1]
    BY <1>1, <2>1
  <2> QED BY <1>3, <2>1, <2>2, <2>3 DEF Replaces
<1>6. ASSUME NEW g PROVE Replaces(Append(s, g), f)
  <2>1. /\ IsSeq(Append(s, g)) /\ Len(Append(s, g)) = n + 1
        /\ \A i \in DOMAIN s : Append(s, g)[i] = s[i]
    BY <1>2, AppendFacts
  <2>2. Append(s, g) # <<>>
    BY <1>1, <2>1, IsSeqFacts
  <2>3. 1 \in DOMAIN s
    BY <1>1, <1>2, IsSeqFacts
  <2> QED BY <1>3, <2>1, <2>2, <2>3 DEF Replaces
<1>7. Replaces(s, f) /\ Len(s) = n
  BY <1>2, <1>3, <1>4 DEF Replaces
<1> QED BY <1>5, <1>6, <1>7 DEF s

(* A frame stays on its row when the items of its first item take the      *)
(* place of that.                                                          *)
LEMMA KeepsRow ==
  ASSUME NEW f, OnItsRow(f), NEW items, NEW kids, NEW op, IsRow(items),
         Head(f.todo).do # "node",
         Head(f.todo).do = "opt" => items \in {Head(f.todo).yes, Head(f.todo).no}
  PROVE  OnItsRow([todo |-> items \o Tail(f.todo), kids |-> kids, first |-> f.first, op |-> op])
<1> DEFINE r == f.todo
           t == Tail(r)
           s == items \o t
           g == [todo |-> s, kids |-> kids, first |-> f.first, op |-> op]
<1>1. IsRow(r) /\ r # <<>> /\ Finishes(r[Len(r)]) /\ IsSeq(r) /\ IsSeq(items)
  BY DEF OnItsRow, IsRow
<1>2. /\ IsRow(t) /\ IsSeq(t) /\ Len(r) \in Nat \ {0} /\ Len(t) = Len(r) - 1 /\ Head(r) = r[1]
      /\ \A i \in 1 .. Len(r) - 1 : t[i] = r[i + 1]
  <2>1. IsRow(t)
    BY <1>1, RestOfRow
  <2> HIDE DEF r
  <2> QED BY <1>1, <2>1, TailFacts
<1>3. IsRow(s)
  BY <1>2, JoinedRows
<1>4. /\ IsSeq(s) /\ Len(s) = Len(items) + Len(t) /\ Len(items) \in Nat
      /\ \A i \in 1 .. Len(items) : s[i] = items[i]
      /\ \A i \in 1 .. Len(t) : s[Len(items) + i] = t[i]
  <2>1. \A u : IsSeq(u) =>
          /\ IsSeq(items \o u) /\ Len(items \o u) = Len(items) + Len(u)
          /\ \A i \in 1 .. Len(items) : (items \o u)[i] = items[i]
          /\ \A i \in 1 .. Len(u) : (items \o u)[Len(items) + i] = u[i]
    BY <1>1, ConcatFacts
  <2>2. Len(items) \in Nat
    BY <1>1, IsSeqFacts
  <2> HIDE DEF t
  <2> QED BY <1>2, <2>1, <2>2
<1>5. s # <<>> /\ Finishes(s[Len(s)])
  <2>1. CASE Len(r) # 1
    <3> HIDE DEF r, t, s
    <3>1. Len(t) \in 1 .. Len(t) /\ Len(t) + 1 = Len(r) /\ Len(s) # 0
      BY <1>2, <1>4, <2>1
    <3>2. s[Len(s)] = r[Len(r)]
      BY <1>2, <1>4, <3>1
    <3> QED BY <1>1, <1>4, <3>1, <3>2, IsSeqFacts
  <2>2. CASE Len(r) = 1
    <3>1. Finishes(Head(r))
      BY <1>1, <1>2, <2>2
    <3>2. items # <<>> /\ items[Len(items)].do = "node"
      BY <3>1 DEF Finishes
    <3> HIDE DEF r, t, s
    <3>3. Len(s) = Len(items) /\ Len(items) # 0
      BY <1>1, <1>2, <1>4, <2>2, <3>2, IsSeqFacts
    <3>4. s[Len(s)] = items[Len(items)]
      BY <1>4, <3>3
    <3> QED BY <1>4, <3>2, <3>3, <3>4, IsSeqFacts DEF Finishes
  <2> QED BY <2>1, <2>2
<1>6. IsFrame(g) /\ g.todo = s
  BY DEF IsFrame
<1> QED BY <1>3, <1>5, <1>6 DEF OnItsRow

(* A step of the innermost call that keeps its frame in its place. *)
LEMMA FrameStep ==
  ASSUME ParserInv, stack # <<>>, text' = text, tokens' = tokens \/ advance,
         Extends(nodes, nodes'), UNCHANGED <<tree, reports>>, mode' # "skip",
         NEW f, Replaces(stack', f),
         Len(stack) = 1 =>
           /\ f.first = Top.first
           /\ OnItsRow(f) \/ (Len(stack') = 1 /\ HoldsNode(f, nodes', Len(tokens'))),
         advance \/ Len(tokens) # stack[1].first \/ Fresh'
  PROVE  ParserInv'
<1>1. IsSeq(stack') /\ stack' # <<>> /\ stack'[1] = IF Len(stack) = 1 THEN f ELSE stack[1]
  BY DEF Replaces
<1>2. stack'[1].first = stack[1].first
      /\ (OnItsRow(stack'[1]) \/ (Len(stack') = 1 /\ HoldsNode(stack'[1], nodes', Len(tokens'))))
  <2>1. CASE Len(stack) = 1
    BY <1>1, <2>1, TopFacts
  <2>2. CASE Len(stack) # 1
    BY <1>1, <2>2, TopFacts
  <2> QED BY <2>1, <2>2
<1>3. OnItsRow(stack'[1]) \/ (Len(stack') = 1 /\ HasItsNode(stack[1])')
  BY <1>2 DEF HasItsNode, HoldsNode, IsFrame
<1> QED BY <1>1, <1>2, <1>3, CallGoesOn

(* A step that replaces the first item of the innermost frame by others. *)
LEMMA ItemStep ==
  ASSUME ParserInv, stack # <<>>, Top.todo # <<>>, Item.do # "node",
         text' = text, tokens' = tokens \/ advance, UNCHANGED <<nodes, tree, reports>>,
         mode' # "skip", NEW items, NEW f, Replaces(stack', f),
         IsFrame(Top) =>
           f = [todo |-> items \o Tail(Top.todo), kids |-> f.kids, first |-> Top.first, op |-> f.op],
         OnItsRow(Top) => /\ IsRow(items)
                          /\ Item.do = "opt" => items \in {Item.yes, Item.no},
         advance \/ Len(tokens) # stack[1].first \/ Fresh'
  PROVE  ParserInv'
<1>1. Extends(nodes, nodes')
  BY SameExtends DEF ParserInv, Sequences
<1>2. Len(stack) = 1 => f.first = Top.first /\ OnItsRow(f)
  <2> SUFFICES ASSUME Len(stack) = 1
               PROVE  f.first = Top.first /\ OnItsRow(f)
    OBVIOUS
  <2>1. OnItsRow(Top)
    BY TopFacts DEF HasItsNode, HoldsNode
  <2>2. f = [todo |-> items \o Tail(Top.todo), kids |-> f.kids, first |-> Top.first, op |-> f.op]
    BY <2>1 DEF OnItsRow
  <2>3. OnItsRow([todo |-> items \o Tail(Top.todo), kids |-> f.kids, first |-> Top.first, op |-> f.op])
    BY <2>1, KeepsRow DEF Item
  <2>4. OnItsRow(f)
    BY <2>2, <2>3
  <2>5. f.first = Top.first
    BY <2>2
  <2> QED BY <2>4, <2>5
<1> QED BY <1>1, <1>2, FrameStep

(* f is the innermost frame with items in the place of its first item. *)
ThenFrame(f, items) ==
  f = [todo |-> items \o Tail(Top.todo), kids |-> f.kids, first |-> Top.first, op |-> f.op]

LEMMA ThenFrames ==
  ASSUME IsFrame(Top), NEW items
  PROVE  /\ ThenFrame(Then(items), items)
         /\ \A op : ThenFrame([Then(items) EXCEPT !.op = op], items)
         /\ \A kids : ThenFrame([Then(items) EXCEPT !.kids = kids], items)
<1> DEFINE r == items \o Tail(Top.todo)
<1>1. PICK t, k, i, o : Top = [todo |-> t, kids |-> k, first |-> i, op |-> o]
  BY DEF IsFrame
<1>2. Then(items) = [todo |-> r, kids |-> k, first |-> i, op |-> o] /\ Top.first = i
  <2>1. ASSUME NEW x, NEW u, x = [todo |-> t, kids |-> k, first |-> i, op |-> o]
        PROVE  [x EXCEPT !.todo = u] = [todo |-> u, kids |-> k, first |-> i, op |-> o] /\ x.first = i
    BY <2>1
  <2>2. Then(items) = [Top EXCEPT !.todo = r]
    BY DEF Then
  <2> HIDE DEF r
  <2> QED BY <1>1, <2>1, <2>2
<1> HIDE DEF r
<1>3. /\ \A op : [Then(items) EXCEPT !.op = op] = [todo |-> r, kids |-> k, first |-> i, op |-> op]
      /\ \A kids : [Then(items) EXCEPT !.kids = kids] = [todo |-> r, kids |-> kids, first |-> i, op |-> o]
  BY <1>2
<1> QED BY <1>2, <1>3 DEF ThenFrame, r

(* The items that a step may put in the place of the first one. *)
MayFollow(items) ==
  OnItsRow(Top) => IsRow(items) /\ (Item.do = "opt" => items \in {Item.yes, Item.no})

LEMMA NothingFollows == ASSUME Item.do # "opt" PROVE MayFollow(<<>>)
  BY NoItems DEF MayFollow

LEMMA OneFollows == ASSUME Item.do # "opt", NEW x, IsItem(x) PROVE MayFollow(<<x>>)
  BY OneItem DEF MayFollow

LEMMA ItsRowsFollow ==
  ASSUME NEW what, Doing(what)
  PROVE  /\ what = "opt" => MayFollow(Item.yes) /\ MayFollow(Item.no)
         /\ what \in {"until", "while"} => MayFollow(Item.body \o <<Item>>)
<1> SUFFICES ASSUME OnItsRow(Top)
             PROVE  /\ what = "opt" => MayFollow(Item.yes) /\ MayFollow(Item.no)
                    /\ what \in {"until", "while"} => MayFollow(Item.body \o <<Item>>)
  BY DEF MayFollow
<1>1. IsItem(Item) /\ Item.do = what
  BY RestOfRow DEF Doing, OnItsRow, Item
<1>2. what = "opt" => MayFollow(Item.yes) /\ MayFollow(Item.no)
  BY <1>1, ItemHasRows DEF MayFollow
<1>3. ASSUME what \in {"until", "while"} PROVE MayFollow(Item.body \o <<Item>>)
  <2>1. IsRow(Item.body) /\ IsRow(<<Item>>)
    BY <1>1, <1>3, ItemHasRows, OneItem
  <2>2. IsRow(Item.body \o <<Item>>)
    BY <2>1, JoinedRows
  <2> QED BY <1>1, <1>3, <2>2 DEF MayFollow
<1> QED BY <1>2, <1>3

(* A token of the declaration has been consumed when its first item is not *)
(* one of those that begin a row.                                          *)
LEMMA Consumed ==
  ASSUME ParserInv, stack # <<>>,
         Item.do \notin {"oneof", "keep", "must", "precedence", "expression"}
  PROVE  Len(tokens) # stack[1].first
<1>1. Len(tokens) = stack[1].first => Fresh
  BY TopFacts
<1> QED BY <1>1 DEF Fresh, Untouched

LEMMA ConsumesStep ==
  ASSUME ParserInv, NEW what, Doing(what), what # "node", NEW items, MayFollow(items),
         NEW f, IsFrame(Top) => ThenFrame(f, items), Consumes(f)
  PROVE  ParserInv'
<1>1. stack # <<>> /\ Top.todo # <<>> /\ Item.do # "node" /\ mode' # "skip" /\ stack' = Set(f)
  BY DEF Doing, Consumes
<1>2. Replaces(stack', f)
  BY <1>1, TopFacts, SetFacts
<1>3. text' = text /\ advance /\ UNCHANGED <<nodes, tree, reports>>
  BY DEF Consumes
<1>4. /\ IsFrame(Top) =>
           f = [todo |-> items \o Tail(Top.todo), kids |-> f.kids, first |-> Top.first, op |-> f.op]
      /\ OnItsRow(Top) => IsRow(items) /\ (Item.do = "opt" => items \in {Item.yes, Item.no})
  BY DEF ThenFrame, MayFollow
<1> QED BY <1>1, <1>2, <1>3, <1>4, ItemStep

LEMMA StaysStep ==
  ASSUME ParserInv, NEW what, Doing(what), what # "node", NEW items, MayFollow(items),
         NEW f, IsFrame(Top) => ThenFrame(f, items), Replaces(stack', f),
         UNCHANGED <<text, tokens, nodes, tree, mode, reports>>,
         Len(tokens) # stack[1].first \/ Fresh'
  PROVE  ParserInv'
<1>1. stack # <<>> /\ Top.todo # <<>> /\ Item.do # "node" /\ mode' # "skip"
  BY DEF Doing
<1>2. /\ IsFrame(Top) =>
           f = [todo |-> items \o Tail(Top.todo), kids |-> f.kids, first |-> Top.first, op |-> f.op]
      /\ OnItsRow(Top) => IsRow(items) /\ (Item.do = "opt" => items \in {Item.yes, Item.no})
  BY DEF ThenFrame, MayFollow
<1>3. text' = text /\ (tokens' = tokens \/ advance) /\ UNCHANGED <<nodes, tree, reports>>
  OBVIOUS
<1> QED BY <1>1, <1>2, <1>3, ItemStep

LEMMA ContinueStep ==
  ASSUME ParserInv, NEW what, Doing(what),
         what \notin {"node", "oneof", "keep", "must", "precedence", "expression"},
         NEW items, MayFollow(items),
         NEW f, IsFrame(Top) => ThenFrame(f, items), Continue(f)
  PROVE  ParserInv'
<1>1. stack # <<>> /\ Len(tokens) # stack[1].first
  BY Consumed DEF Doing
<1>2. Replaces(stack', f)
  BY <1>1, TopFacts, SetFacts DEF Continue
<1>3. UNCHANGED <<text, tokens, nodes, tree, mode, reports>>
  BY DEF Continue
<1> QED BY <1>1, <1>2, <1>3, StaysStep

LEMMA ThrowStep ==
  ASSUME ParserInv, stack # <<>>, NEW i, Throw(i),
         i = Len(tokens) \/ (i = Len(tokens) - 1 /\ ~Fresh)
  PROVE  ParserInv'
<1>1. mode' = "skip" /\ stack' = <<>> /\ reports' = Append(reports, i)
      /\ UNCHANGED <<text, tokens, nodes, tree>>
  BY DEF Throw
<1>2. ~Fresh => Len(tokens) # stack[1].first
  BY TopFacts
<1> QED BY <1>1, <1>2, ThrowRecords

-----------------------------------------------------------------------------
(* The steps of a call *)

LEMMA StepMustConsume == ParserInv /\ must_consume => ParserInv'
<1> SUFFICES ASSUME ParserInv, must_consume PROVE ParserInv'
  OBVIOUS
<1>1. PICK what \in {"must", "oneof"} : Doing(what)
  BY DEF must_consume
<1>2. PICK f : Consumes(f) /\ (IsFrame(Top) => ThenFrame(f, <<>>))
  <2>1. PICK op : Consumes([Then(<<>>) EXCEPT !.op = op])
    BY DEF must_consume
  <2> QED BY <2>1, ThenFrames
<1>3. MayFollow(<<>>)
  BY <1>1, NothingFollows DEF Doing
<1> QED BY <1>1, <1>2, <1>3, ConsumesStep

LEMMA StepMustMatchFails == ParserInv /\ must_match_fails => ParserInv'
<1> SUFFICES ASSUME ParserInv, must_match_fails PROVE ParserInv'
  OBVIOUS
<1>1. stack # <<>> /\ peek.kind \notin Item.kinds
  BY DEF must_match_fails, Doing
<1>2. CASE Item.do = "must"
  <2>1. ~Fresh
    BY <1>1, <1>2 DEF Fresh, Untouched
  <2>2. Throw(Len(tokens) - 1)
    BY <1>2 DEF must_match_fails
  <2> QED BY <1>1, <2>1, <2>2, ThrowStep
<1>3. CASE Item.do # "must"
  <2>1. Throw(Len(tokens))
    BY <1>3 DEF must_match_fails
  <2> QED BY <1>1, <2>1, ThrowStep
<1> QED BY <1>2, <1>3

LEMMA StepParsePackage == ParserInv /\ parse_package => ParserInv'
<1> SUFFICES ASSUME ParserInv, parse_package PROVE ParserInv'
  OBVIOUS
<1>1. Doing("notempty")
  BY DEF parse_package
<1>2. CASE Content(previous) # <<>>
  <2>1. Continue(Then(<<>>))
    BY <1>2 DEF parse_package
  <2>2. MayFollow(<<>>)
    BY <1>1, NothingFollows DEF Doing
  <2> QED BY <1>1, <2>1, <2>2, ThenFrames, ContinueStep
<1>3. CASE ~(Content(previous) # <<>>)
  <2>1. ~Fresh
    BY <1>1 DEF Doing, Fresh, Untouched
  <2>2. Throw(Len(tokens) - 1)
    BY <1>3 DEF parse_package
  <2> QED BY <1>1, <2>1, <2>2, ThrowStep DEF Doing
<1> QED BY <1>2, <1>3

LEMMA StepKeepKind == ParserInv /\ KeepKind => ParserInv'
<1> SUFFICES ASSUME ParserInv, KeepKind PROVE ParserInv'
  OBVIOUS
<1>1. Doing("keep")
  BY DEF KeepKind
<1>2. PICK f : Consumes(f) /\ (IsFrame(Top) => ThenFrame(f, <<>>))
  BY ThenFrames DEF KeepKind
<1>3. MayFollow(<<>>)
  BY <1>1, NothingFollows DEF Doing
<1> QED BY <1>1, <1>2, <1>3, ConsumesStep

LEMMA StepOptional == ParserInv /\ Optional => ParserInv'
<1> SUFFICES ASSUME ParserInv, Optional PROVE ParserInv'
  OBVIOUS
<1>1. Doing("opt") /\ MayFollow(Item.yes) /\ MayFollow(Item.no)
  BY ItsRowsFollow DEF Optional
<1>2. CASE peek.kind \in Item.kinds
  <2>1. Consumes(Then(Item.yes))
    BY <1>2 DEF Optional
  <2> QED BY <1>1, <2>1, ThenFrames, ConsumesStep
<1>3. CASE peek.kind \notin Item.kinds
  <2>1. Continue(Then(Item.no))
    BY <1>3 DEF Optional
  <2> QED BY <1>1, <2>1, ThenFrames, ContinueStep
<1> QED BY <1>2, <1>3

LEMMA StepLoop == ParserInv /\ Loop => ParserInv'
<1> SUFFICES ASSUME ParserInv, Loop PROVE ParserInv'
  OBVIOUS
<1>1. PICK what \in {"until", "while"} : Doing(what)
  BY DEF Loop
<1>2. MayFollow(<<>>) /\ MayFollow(Item.body \o <<Item>>)
  BY <1>1, NothingFollows, ItsRowsFollow DEF Doing
<1>3. PICK items : MayFollow(items) /\ (Consumes(Then(items)) \/ Continue(Then(items)))
  BY <1>2 DEF Loop
<1>4. CASE Consumes(Then(items))
  BY <1>1, <1>3, <1>4, ThenFrames, ConsumesStep
<1>5. CASE Continue(Then(items))
  BY <1>1, <1>3, <1>5, ThenFrames, ContinueStep
<1> QED BY <1>3, <1>4, <1>5

LEMMA StepDelimiter == ParserInv /\ Delimiter => ParserInv'
<1> SUFFICES ASSUME ParserInv, Delimiter PROVE ParserInv'
  OBVIOUS
<1> DEFINE must == [do |-> "must", kinds |-> Item.kinds]
<1>1. Doing("delim")
  BY DEF Delimiter
<1>2. MayFollow(<<>>) /\ MayFollow(<<must>>)
  <2>1. IsItem(must)
    BY FlatIsItem DEF Plain
  <2> HIDE DEF must
  <2> QED BY <1>1, <2>1, NothingFollows, OneFollows DEF Doing
<1>3. PICK items : MayFollow(items) /\ Continue(Then(items))
  BY <1>2 DEF Delimiter
<1> QED BY <1>1, <1>3, ThenFrames, ContinueStep

LEMMA StepRightOperand == ParserInv /\ RightOperand => ParserInv'
<1> SUFFICES ASSUME ParserInv, RightOperand PROVE ParserInv'
  OBVIOUS
<1>1. Doing("above")
  BY DEF RightOperand
<1>2. PICK p : Continue(Then(<<Prec(p)>>))
  BY DEF RightOperand
<1>3. MayFollow(<<Prec(p)>>)
  <2>1. ~OnItsRow(Top)
    BY <1>1, RestOfRow, ItemHasRows DEF OnItsRow, Doing, Item, Plain
  <2> QED BY <2>1 DEF MayFollow
<1> QED BY <1>1, <1>2, <1>3, ThenFrames, ContinueStep

LEMMA StepKids ==
  ASSUME ParserInv, NoChild \/ SetDefault \/ DropChild
  PROVE  ParserInv'
<1>1. PICK what \in {"nonode", "default", "discard"} : Doing(what)
  BY DEF NoChild, SetDefault, DropChild
<1>2. PICK kids : Continue([Then(<<>>) EXCEPT !.kids = kids])
  BY DEF NoChild, SetDefault, DropChild, With
<1>3. MayFollow(<<>>)
  BY <1>1, NothingFollows DEF Doing
<1>4. PICK f : Continue(f) /\ (IsFrame(Top) => ThenFrame(f, <<>>))
  BY <1>2, ThenFrames
<1> QED BY <1>1, <1>3, <1>4, ContinueStep

LEMMA StepConvertLiteral == ParserInv /\ ConvertLiteral => ParserInv'
<1> SUFFICES ASSUME ParserInv, ConvertLiteral PROVE ParserInv'
  OBVIOUS
<1>1. Doing("convert")
  BY DEF ConvertLiteral
<1>2. CASE Unconvertible(previous)
  <2>1. stack # <<>> /\ Len(tokens) # stack[1].first
    BY <1>1, Consumed DEF Doing
  <2>2. stack' = <<>> /\ mode' = "skip" /\ UNCHANGED <<text, tokens, nodes, tree, reports>>
    BY <1>2 DEF ConvertLiteral
  <2> QED BY <1>2, <2>1, <2>2, ThrowRecords
<1>3. CASE ~Unconvertible(previous)
  <2>1. Continue(Then(<<>>))
    BY <1>3 DEF ConvertLiteral
  <2>2. MayFollow(<<>>)
    BY <1>1, NothingFollows DEF Doing
  <2> QED BY <1>1, <2>1, <2>2, ThenFrames, ContinueStep
<1> QED BY <1>2, <1>3

LEMMA StepCallFunction == ParserInv /\ CallFunction => ParserInv'
<1> SUFFICES ASSUME ParserInv, CallFunction PROVE ParserInv'
  OBVIOUS
<1>1. Doing("sub") /\ stack # <<>>
  BY DEF CallFunction, Doing
<1>2. PICK g : stack' = Set(Then(<<>>)) \o <<g>> /\ UNCHANGED <<text, tokens, nodes, tree, mode, reports>>
  BY DEF CallFunction, Pushes
<1>3. Len(tokens) # stack[1].first /\ MayFollow(<<>>)
  BY <1>1, Consumed, NothingFollows DEF Doing
<1>4. Replaces(stack', Then(<<>>))
  <2>1. IsSeq(<<g>>)
    <3>1. <<g>> \in Seq({g})
      OBVIOUS
    <3> QED BY <3>1, SeqIsSeq
  <2> QED BY <1>1, <1>2, <2>1, TopFacts, SetFacts
<1> QED BY <1>1, <1>2, <1>3, <1>4, ThenFrames, StaysStep

(* The frame f with one item for the first of the innermost one. *)
LEMMA TopAfterSet ==
  ASSUME ParserInv, stack # <<>>, NEW f, NEW x, f.todo = <<x>> \o Tail(Top.todo), stack' = Set(f),
         OnItsRow(Top)
  PROVE  Len(stack') = Len(stack) /\ Top'.todo # <<>> /\ Item' = x
<1>1. Len(stack') = Len(stack) /\ stack'[Len(stack)] = f
  <2>1. Len(stack) \in DOMAIN stack /\ IsSeq(stack)
    BY TopFacts
  <2> QED BY <2>1, ExceptFacts DEF Set
<1>2. Top'.todo = <<x>> \o Tail(Top.todo)
  BY <1>1 DEF Top
<1>3. \A r : IsSeq(r) => <<x>> \o r # <<>> /\ Head(<<x>> \o r) = x
  <2>1. IsSeq(<<x>>) /\ Len(<<x>>) = 1 /\ <<x>>[1] = x
    <3>1. <<x>> \in Seq({x}) /\ Len(<<x>>) = 1 /\ <<x>>[1] = x
      OBVIOUS
    <3> QED BY <3>1, SeqIsSeq
  <2>2. ASSUME NEW r, IsSeq(r), NEW s, s = <<x>> \o r PROVE s # <<>> /\ Head(s) = x
    <3>1. IsSeq(s) /\ Len(s) = 1 + Len(r) /\ s[1] = x /\ Len(r) \in Nat
      <4>1. /\ IsSeq(s) /\ Len(s) = Len(<<x>>) + Len(r)
            /\ \A i \in 1 .. Len(<<x>>) : s[i] = <<x>>[i]
        BY <2>1, <2>2, ConcatFacts
      <4>2. Len(r) \in Nat
        BY <2>2, IsSeqFacts
      <4> QED BY <2>1, <4>1, <4>2
    <3>2. s # <<>>
      BY <3>1, IsSeqFacts
    <3> QED BY <3>1, <3>2, TailFacts
  <2> QED BY <2>2
<1>4. IsSeq(Tail(Top.todo))
  BY RestOfRow DEF OnItsRow, IsRow
<1> QED BY <1>1, <1>2, <1>3, <1>4 DEF Item

LEMMA StepExpression == ParserInv /\ expression => ParserInv'
<1> SUFFICES ASSUME ParserInv, expression PROVE ParserInv'
  OBVIOUS
<1>1. Doing("expression") /\ stack # <<>>
  BY DEF expression, Doing
<1>2. CASE eof
  <2>1. ~Fresh
    BY <1>1, <1>2 DEF Doing, Fresh, Untouched
  <2>2. Throw(Len(tokens) - 1)
    BY <1>2 DEF expression
  <2> QED BY <1>1, <2>1, <2>2, ThrowStep
<1>3. CASE ~eof
  <2> DEFINE x == Prec(ASSIGNMENT)
             f == Then(<<x>>)
  <2>1. stack' = Set(f) /\ UNCHANGED <<text, tokens, nodes, tree, mode, reports>>
    BY <1>3 DEF expression, Continue
  <2>2. IsItem(x) /\ x.do = "precedence"
    BY FlatIsItem DEF Prec, Plain
  <2> HIDE DEF x
  <2>3. MayFollow(<<x>>) /\ Replaces(stack', f)
    BY <1>1, <2>1, <2>2, OneFollows, TopFacts, SetFacts DEF Doing
  <2>4. Len(tokens) # stack[1].first \/ Fresh'
    <3> SUFFICES ASSUME Len(tokens) = stack[1].first PROVE Fresh'
      OBVIOUS
    <3>1. Fresh /\ Len(stack) = 1
      BY <1>1, TopFacts DEF Doing, Fresh, Untouched
    <3>2. OnItsRow(Top)
      BY <1>1, <3>1, TopFacts DEF Doing, HasItsNode, HoldsNode
    <3>3. f.todo = <<x>> \o Tail(Top.todo)
      <4>1. ThenFrame(f, <<x>>)
        BY <3>2, ThenFrames DEF OnItsRow
      <4> HIDE DEF f
      <4> QED BY <4>1 DEF ThenFrame
    <3>4. Len(stack') = 1 /\ Top'.todo # <<>> /\ Item' = x
      <4> HIDE DEF f
      <4> QED BY <1>1, <2>1, <3>1, <3>2, <3>3, TopAfterSet
    <3> QED BY <2>2, <3>4 DEF Fresh
  <2> QED BY <1>1, <2>1, <2>3, <2>4, ThenFrames, StaysStep
<1> QED BY <1>2, <1>3

LEMMA StepPrecendece == ParserInv /\ precendece => ParserInv'
<1> SUFFICES ASSUME ParserInv, precendece PROVE ParserInv'
  OBVIOUS
<1> DEFINE f == Then(<<>>)
           g == Called(<<Infix(Item.prec)>>)
           h == Called(PrefixRow(peek.kind))
<1>1. Doing("precedence") /\ stack # <<>> /\ peek.kind \in PrefixToken
  BY DEF precendece, Doing
<1>2. stack' = Set(f) \o <<g, h>> /\ UNCHANGED <<text, tokens, nodes, tree, mode, reports>>
  BY DEF precendece, Pushes
<1>3. h.todo # <<>> /\ Untouched(Head(h.todo), peek.kind)
  BY <1>1, PrefixFacts DEF Called, Frame
<1> HIDE DEF g, h
<1>4. IsSeq(<<g, h>>) /\ Len(<<g, h>>) = 2 /\ <<g, h>>[2] = h
  <2>1. <<g, h>> \in Seq({g, h}) /\ Len(<<g, h>>) = 2 /\ <<g, h>>[2] = h
    OBVIOUS
  <2> QED BY <2>1, SeqIsSeq
<1>5. MayFollow(<<>>) /\ Replaces(stack', f)
  BY <1>1, <1>2, <1>4, NothingFollows, TopFacts, SetFacts DEF Doing
<1>6. Fresh'
  <2>1. Top' = h
    <3>1. IsSeq(Set(f)) /\ Len(Set(f)) \in Nat
      BY <1>1, TopFacts, SetFacts, IsSeqFacts DEF Replaces
    <3>2. /\ Len(stack') = Len(Set(f)) + 2
          /\ \A i \in 1 .. 2 : stack'[Len(Set(f)) + i] = <<g, h>>[i]
      BY <1>2, <1>4, <3>1, ConcatFacts
    <3>3. stack'[Len(stack')] = h
      BY <1>4, <3>2
    <3> QED BY <3>3 DEF Top
  <2>2. peek' = peek
    BY <1>2 DEF peek
  <2> QED BY <1>3, <2>1, <2>2 DEF Fresh, Item, Untouched
<1> QED BY <1>1, <1>2, <1>5, <1>6, ThenFrames, StaysStep

LEMMA StepPrecendeceNoRule == ParserInv /\ precendece_NoRule => ParserInv'
  BY ThrowStep DEF precendece_NoRule, Doing

LEMMA StepPrecendeceNullPrefix == ParserInv /\ precendece_NullPrefix => ParserInv'
<1> SUFFICES ASSUME ParserInv, precendece_NullPrefix PROVE ParserInv'
  OBVIOUS
<1>1. stack # <<>> /\ mode' = "crashed" /\ UNCHANGED <<text, tokens, stack, nodes, tree, reports>>
  BY DEF precendece_NullPrefix, Doing
<1>2. Len(tokens) # stack[1].first \/ Fresh'
  BY <1>1, TopFacts DEF Fresh, Untouched, Top, Item, peek, eof
<1>3. Extends(nodes, nodes') /\ IsSeq(stack')
  BY <1>1, SameExtends DEF ParserInv, Sequences
<1>4. OnItsRow(stack'[1]) \/ (Len(stack') = 1 /\ HasItsNode(stack[1])')
  BY <1>1, TopFacts DEF HasItsNode, HoldsNode, IsFrame
<1> QED BY <1>1, <1>2, <1>3, <1>4, CallGoesOn

LEMMA StepInfixLoop == ParserInv /\ InfixLoop => ParserInv'
<1> SUFFICES ASSUME ParserInv, InfixLoop PROVE ParserInv'
  OBVIOUS
<1>1. Doing("infix") /\ stack # <<>> /\ Top.todo # <<>>
  BY DEF InfixLoop, Doing
<1>2. CASE Continues(Item.prec)
  <2> DEFINE f == [Top EXCEPT !.kids = <<>>]
  <2>1. PICK g : /\ stack' = Append(Set(f), g)
                 /\ UNCHANGED <<text, tokens, nodes, tree, mode, reports>>
    BY <1>2 DEF InfixLoop
  <2>2. Len(tokens) # stack[1].first
    BY <1>1, Consumed DEF Doing
  <2>3. Len(stack) = 1 => f.first = Top.first /\ OnItsRow(f)
    <3> SUFFICES ASSUME Len(stack) = 1 PROVE f.first = Top.first /\ OnItsRow(f)
      OBVIOUS
    <3>1. OnItsRow(Top)
      BY <1>1, TopFacts DEF HasItsNode, HoldsNode
    <3>2. f = [todo |-> Top.todo, kids |-> <<>>, first |-> Top.first, op |-> Top.op]
      <4>1. PICK t, k, i, o : Top = [todo |-> t, kids |-> k, first |-> i, op |-> o]
        BY <3>1 DEF OnItsRow, IsFrame
      <4>2. \A x : x = [todo |-> t, kids |-> k, first |-> i, op |-> o] =>
              [x EXCEPT !.kids = <<>>] = [todo |-> x.todo, kids |-> <<>>, first |-> x.first, op |-> x.op]
        OBVIOUS
      <4> QED BY <4>1, <4>2
    <3> HIDE DEF f
    <3>3. f.todo = Top.todo /\ f.first = Top.first /\ IsFrame(f)
      BY <3>2 DEF IsFrame
    <3> QED BY <3>1, <3>3 DEF OnItsRow
  <2> HIDE DEF f
  <2>4. Replaces(stack', f)
    BY <1>1, <2>1, TopFacts, SetFacts
  <2>5. Extends(nodes, nodes')
    BY <2>1, SameExtends DEF ParserInv, Sequences
  <2>6. mode' # "skip"
    BY <1>1, <2>1 DEF Doing
  <2> QED BY <1>1, <2>1, <2>2, <2>3, <2>4, <2>5, <2>6, FrameStep
<1>3. CASE ~Continues(Item.prec)
  <2>1. Continue(Then(<<>>))
    BY <1>3 DEF InfixLoop
  <2>2. MayFollow(<<>>)
    BY <1>1, NothingFollows DEF Doing
  <2> QED BY <1>1, <2>1, <2>2, ThenFrames, ContinueStep
<1> QED BY <1>2, <1>3

(* A node made at the end of the outermost call is that of the declaration. *)
LEMMA StepMakes ==
  ASSUME ParserInv, NEW what \in {"node", "single"}, Doing(what), NEW kind, Makes(kind)
  PROVE  ParserInv'
<1> DEFINE n == Len(nodes)
           f == [Then(<<>>) EXCEPT !.kids = <<n + 1>>]
           node == NewNode(kind, Top.kids)
<1>1. /\ stack # <<>> /\ Top.todo # <<>> /\ Item.do = what /\ mode' # "skip"
      /\ Len(tokens) # stack[1].first
  BY Consumed DEF Doing, Makes
<1>2. nodes' = Append(nodes, node) /\ stack' = Set(f) /\ UNCHANGED <<text, tokens, tree, mode, reports>>
  BY DEF Makes
<1>3. node.lo = Top.first /\ node.hi = Len(tokens)
  BY DEF NewNode
<1> HIDE DEF node
<1>4. /\ Extends(nodes, nodes') /\ n + 1 \in DOMAIN nodes'
      /\ nodes'[n + 1].lo = Top.first /\ nodes'[n + 1].hi = Len(tokens')
  <2>1. IsSeq(nodes) /\ n \in Nat
    BY IsSeqFacts DEF ParserInv, Sequences
  <2>2. DOMAIN nodes' = 1 .. n + 1 /\ nodes'[n + 1] = node /\ Extends(nodes, nodes')
    BY <1>2, <2>1, AppendFacts, AppendExtends
  <2> QED BY <1>2, <1>3, <2>1, <2>2
<1>5. Replaces(stack', f) /\ Len(stack') = Len(stack)
  <2> HIDE DEF f
  <2> QED BY <1>1, <1>2, TopFacts, SetFacts
<1>6. ASSUME Len(stack) = 1
      PROVE  f.first = Top.first /\ (OnItsRow(f) \/ HoldsNode(f, nodes', Len(tokens')))
  <2>1. OnItsRow(Top)
    BY <1>1, <1>6, TopFacts DEF HasItsNode, HoldsNode
  <2>2. PICK t, k, i, o : Top = [todo |-> t, kids |-> k, first |-> i, op |-> o]
    BY <2>1 DEF OnItsRow, IsFrame
  <2>3. /\ IsFrame(f) /\ f.kids = <<n + 1>> /\ f.first = Top.first
        /\ f.todo = <<>> \o Tail(Top.todo)
    <3>1. ASSUME NEW x, NEW r, NEW kids, x = [todo |-> r, kids |-> k, first |-> i, op |-> o]
          PROVE  [x EXCEPT !.kids = kids] = [todo |-> r, kids |-> kids, first |-> i, op |-> o]
      BY <3>1
    <3>2. ASSUME NEW x, x = [todo |-> t, kids |-> k, first |-> i, op |-> o]
          PROVE  /\ x.first = i
                 /\ \A r : [x EXCEPT !.todo = r] = [todo |-> r, kids |-> k, first |-> i, op |-> o]
      BY <3>2
    <3>3. Then(<<>>) = [todo |-> <<>> \o Tail(Top.todo), kids |-> k, first |-> i, op |-> o]
          /\ Top.first = i
      <4>1. \A r : [Top EXCEPT !.todo = r] = [todo |-> r, kids |-> k, first |-> i, op |-> o]
        BY <2>2, <3>2
      <4>2. Then(<<>>) = [Top EXCEPT !.todo = <<>> \o Tail(Top.todo)]
        BY DEF Then
      <4> QED BY <2>2, <3>2, <4>1, <4>2
    <3>4. f = [todo |-> <<>> \o Tail(Top.todo), kids |-> <<n + 1>>, first |-> i, op |-> o]
      <4> DEFINE r == <<>> \o Tail(Top.todo)
      <4>1. Then(<<>>) = [todo |-> r, kids |-> k, first |-> i, op |-> o]
        BY <3>3
      <4> HIDE DEF r
      <4>2. \A kids : [Then(<<>>) EXCEPT !.kids = kids] = [todo |-> r, kids |-> kids, first |-> i, op |-> o]
        BY <3>1, <4>1
      <4> QED BY <4>2 DEF r
    <3> HIDE DEF f
    <3> QED BY <3>3, <3>4 DEF IsFrame
  <2> HIDE DEF f
  <2>4. IsRow(Tail(Top.todo)) /\ IsSeq(Tail(Top.todo)) /\ f.todo = Tail(Top.todo)
    <3>1. IsRow(Tail(Top.todo))
      BY <2>1, RestOfRow DEF OnItsRow
    <3>2. \A r : IsSeq(r) => <<>> \o r = r
      <4>1. \A r, S : r \in Seq(S) => <<>> \o r = r
        OBVIOUS
      <4> QED BY <4>1 DEF IsSeq
    <3> QED BY <2>3, <3>1, <3>2 DEF IsRow
  <2>5. CASE f.todo = <<>>
    <3>1. f.kids[1] = n + 1
      BY <2>3
    <3> QED BY <1>4, <2>3, <2>5, <3>1 DEF HoldsNode
  <2>6. CASE f.todo # <<>>
    <3>1. f.todo[Len(f.todo)] = Top.todo[Len(Top.todo)]
      <4> DEFINE r == Top.todo
      <4>1. IsSeq(r) /\ r # <<>>
        BY <2>1 DEF OnItsRow, IsRow
      <4> HIDE DEF r
      <4>2. /\ Len(Tail(r)) = Len(r) - 1 /\ Len(r) \in Nat \ {0} /\ IsSeq(Tail(r))
            /\ \A j \in 1 .. Len(r) - 1 : Tail(r)[j] = r[j + 1]
        BY <4>1, TailFacts
      <4>3. Len(r) # 1
        <5>1. Tail(r) # <<>>
          BY <2>4, <2>6 DEF r
        <5>2. Len(Tail(r)) # 0
          BY <4>2, <5>1, IsSeqFacts
        <5> QED BY <4>2, <5>2
      <4>4. Tail(r)[Len(Tail(r))] = r[Len(r)]
        BY <4>2, <4>3
      <4> QED BY <2>4, <4>4 DEF r
    <3> QED BY <2>1, <2>3, <2>4, <2>6, <3>1 DEF OnItsRow
  <2> QED BY <2>3, <2>5, <2>6
<1> HIDE DEF f
<1>7. text' = text /\ tokens' = tokens /\ UNCHANGED <<tree, reports>>
  BY <1>2
<1> QED BY <1>1, <1>4, <1>5, <1>6, <1>7, FrameStep

LEMMA StepMakeNode == ParserInv /\ make_node => ParserInv'
  BY StepMakes DEF make_node

LEMMA StepTupleOrGroup == ParserInv /\ TupleOrGroup => ParserInv'
<1> SUFFICES ASSUME ParserInv, TupleOrGroup PROVE ParserInv'
  OBVIOUS
<1>1. Doing("single")
  BY DEF TupleOrGroup
<1>2. CASE Continue(Then(<<>>))
  <2>1. MayFollow(<<>>)
    BY <1>1, NothingFollows DEF Doing
  <2> QED BY <1>1, <1>2, <2>1, ThenFrames, ContinueStep
<1>3. CASE Makes("ExpressionTuple")
  BY <1>1, <1>3, StepMakes
<1> QED BY <1>2, <1>3 DEF TupleOrGroup

-----------------------------------------------------------------------------
(* The steps between declarations *)

LEMMA RestStays ==
  ASSUME ParserInv, text' = text, tokens' = tokens \/ advance, UNCHANGED <<nodes, reports>>
  PROVE  /\ TokensInText' /\ NoTextIsLost' /\ ReportsAreTokens' /\ Grows
         /\ advance => Len(tokens') = Len(tokens) + 1
<1>1. /\ Sequences /\ TokensInText /\ NoTextIsLost /\ ReportsAreTokens
      /\ IsSeq(tokens) /\ IsSeq(reports) /\ IsSeq(nodes)
  BY DEF ParserInv, Sequences
<1>2. /\ TokensInText' /\ NoTextIsLost' /\ Extends(tokens, tokens')
      /\ advance => Len(tokens') = Len(tokens) + 1
  BY <1>1, TextStays
<1>3. Grows
  BY <1>1, <1>2, SameExtends DEF Grows
<1>4. ReportsAreTokens'
  BY <1>1, <1>2, ReportsStay
<1> QED BY <1>2, <1>3, <1>4

LEMMA StepDeclaration == ParserInv /\ Declaration => ParserInv'
<1> SUFFICES ASSUME ParserInv, Declaration PROVE ParserInv'
  OBVIOUS
<1> DEFINE k == peek.kind
           g == Called(declaration(k))
           l == Len(tokens)
<1>1. /\ mode = "parse" /\ stack = <<>> /\ ~eof /\ stack' = <<g>>
      /\ UNCHANGED <<text, tokens, nodes, tree, mode, reports>>
  BY DEF Declaration
<1>2. /\ Sequences /\ TreeOfNodes /\ GapsClosed /\ IsSeq(tokens) /\ IsSeq(reports)
  BY DEF ParserInv, Sequences
<1>3. TokensInText' /\ NoTextIsLost' /\ ReportsAreTokens' /\ Grows
  BY <1>1, RestStays
<1>4. TreeOfNodes' /\ GapsClosed' /\ LastEnd' = LastEnd
  BY <1>1, <1>2, <1>3, TreeStays
<1>5. OnItsRow(g) /\ g.first = l /\ g.todo # <<>> /\ Opens(Head(g.todo), k)
  <2>1. g.todo = declaration(k) /\ g.first = l /\ IsFrame(g)
    BY DEF Called, Frame, IsFrame
  <2> QED BY <2>1, DeclarationFacts DEF DeclarationRow, OnItsRow
<1> HIDE DEF g
<1>6. Len(stack') = 1 /\ stack'[1] = g /\ IsSeq(stack')
  <2>1. <<g>> \in Seq({g}) /\ Len(<<g>>) = 1 /\ <<g>>[1] = g
    OBVIOUS
  <2> QED BY <1>1, <2>1, SeqIsSeq
<1>7. ClosedGap(LastEnd, stack[1].first)'
  <2>1. ClosedGap(LastEnd, l)
    BY <1>1 DEF ParserInv, Between
  <2>2. ASSUME NEW from, NEW to, from = LastEnd, to = l PROVE ClosedGap(from, to)'
    <3>1. ClosedGap(from, to)
      BY <2>1, <2>2
    <3> QED BY <1>2, <1>3, <3>1, GapStays
  <2>3. \A from, to : from = LastEnd /\ to = l => ClosedGap(from, to)'
    BY <2>2
  <2>4. LastEnd' = LastEnd /\ stack'[1].first = l
    BY <1>4, <1>5, <1>6
  <2> QED BY <2>3, <2>4 DEF ClosedGap, Recorded
<1>8. Fresh'
  <2>1. Top' = g /\ peek' = peek /\ (eof' <=> eof)
    BY <1>1, <1>6 DEF Top, peek, eof
  <2> QED BY <1>1, <1>5, <1>6, <2>1 DEF Fresh, Item, Untouched, Opens
<1>9. Declaring'
  BY <1>5, <1>6, <1>7, <1>8 DEF Declaring, OnItsRow, IsFrame
<1>10. Sequences' /\ Between' /\ Skipping'
  <2>1. stack' # <<>>
    BY <1>6, IsSeqFacts
  <2> QED BY <1>1, <1>2, <1>6, <2>1 DEF Sequences, Between, Skipping
<1> QED BY <1>3, <1>4, <1>9, <1>10 DEF ParserInv

LEMMA StepReturnNode == ParserInv /\ ReturnNode => ParserInv'
<1> SUFFICES ASSUME ParserInv, ReturnNode PROVE ParserInv'
  OBVIOUS
<1> DEFINE rest == SubSeq(stack, 1, Len(stack) - 1)
           node == Top.kids[1]
           l == Len(tokens)
<1>1. /\ mode = "parse" /\ stack # <<>> /\ Top.todo = <<>>
      /\ UNCHANGED <<text, tokens, nodes, mode, reports>>
  BY DEF ReturnNode
<1>2. /\ IsSeq(stack) /\ Len(stack) \in Nat \ {0} /\ Len(tokens) # stack[1].first
  BY <1>1, TopFacts DEF Fresh
<1>3. /\ IsSeq(rest) /\ Len(rest) = Len(stack) - 1 /\ DOMAIN rest = 1 .. Len(stack) - 1
      /\ \A i \in 1 .. Len(stack) - 1 : rest[i] = stack[i]
  BY <1>1, <1>2, FrontFacts
<1>4. /\ Sequences /\ TreeOfNodes /\ GapsClosed /\ IsSeq(tokens) /\ IsSeq(reports) /\ IsSeq(nodes)
      /\ IsSeq(tree)
  BY DEF ParserInv, Sequences
<1>5. CASE Len(stack) # 1
  <2> DEFINE m == Len(rest)
             caller == With(rest[m], node)
  <2>1. rest # <<>> /\ m \in DOMAIN rest
    <3> HIDE DEF rest
    <3>1. m \in 1 .. Len(stack) - 1 /\ m # 0
      BY <1>2, <1>3, <1>5
    <3> QED BY <1>3, <3>1, IsSeqFacts
  <2>2. stack' = [rest EXCEPT ![m] = caller] /\ tree' = tree
    BY <2>1 DEF ReturnNode
  <2>3. OnItsRow(stack[1])
    BY <1>1, <1>5, TopFacts
  <2>4. m = 1 => caller.first = stack[1].first /\ OnItsRow(caller)
    <3> SUFFICES ASSUME m = 1 PROVE caller.first = stack[1].first /\ OnItsRow(caller)
      OBVIOUS
    <3>1. rest[m] = stack[1]
      <4> HIDE DEF rest
      <4> QED BY <1>2, <1>3, <1>5
    <3>2. PICK t, k, i, o : stack[1] = [todo |-> t, kids |-> k, first |-> i, op |-> o]
      BY <2>3 DEF OnItsRow, IsFrame
    <3>3. ASSUME NEW x, NEW kids, x = [todo |-> t, kids |-> k, first |-> i, op |-> o]
          PROVE  [x EXCEPT !.kids = kids] = [todo |-> x.todo, kids |-> kids, first |-> x.first, op |-> x.op]
      BY <3>3
    <3>4. caller = [todo |-> stack[1].todo, kids |-> Append(stack[1].kids, node),
                    first |-> stack[1].first, op |-> stack[1].op]
      <4>1. caller = [stack[1] EXCEPT !.kids = Append(stack[1].kids, node)]
        BY <3>1 DEF With
      <4> QED BY <3>2, <3>3, <4>1
    <3> HIDE DEF caller
    <3>5. IsFrame(caller) /\ caller.todo = stack[1].todo /\ caller.first = stack[1].first
      BY <3>4 DEF IsFrame
    <3> QED BY <2>3, <3>5 DEF OnItsRow
  <2> HIDE DEF caller
  <2>5. /\ IsSeq(stack') /\ Len(stack') = m /\ stack'[m] = caller
        /\ \A i \in DOMAIN rest : i # m => stack'[i] = rest[i]
    <3> HIDE DEF rest, m
    <3>1. m = Len(rest)
      BY DEF m
    <3> QED BY <1>3, <2>1, <2>2, <3>1, ExceptFacts, ZenonT(60)
  <2>6. stack' # <<>> /\ stack'[1].first = stack[1].first /\ OnItsRow(stack'[1])
    <3>1. stack' # <<>>
      BY <1>2, <1>3, <1>5, <2>5, IsSeqFacts
    <3>2. CASE m = 1
      BY <2>4, <2>5, <3>1, <3>2
    <3>3. CASE m # 1
      <4>1. 1 \in DOMAIN rest /\ rest[1] = stack[1]
        BY <1>2, <1>3, <1>5
      <4> QED BY <2>3, <2>5, <3>1, <3>3, <4>1
    <3> QED BY <3>2, <3>3
  <2>7. Extends(nodes, nodes')
    BY <1>1, <1>4, SameExtends
  <2> QED BY <1>1, <1>2, <2>2, <2>5, <2>6, <2>7, CallGoesOn
<1>6. CASE Len(stack) = 1
  <2>1. rest = <<>>
    BY <1>3, <1>6, IsSeqFacts
  <2>2. stack' = <<>> /\ tree' = Append(tree, node)
    BY <2>1 DEF ReturnNode
  <2>3. /\ node \in DOMAIN nodes /\ nodes[node].lo = stack[1].first /\ nodes[node].hi = l
        /\ ClosedGap(LastEnd, stack[1].first)
    <3>1. HasItsNode(Top) /\ Top = stack[1]
      BY <1>1, <1>6, TopFacts DEF OnItsRow
    <3>2. ClosedGap(LastEnd, stack[1].first)
      BY <1>1 DEF ParserInv, Declaring
    <3> QED BY <3>1, <3>2 DEF HasItsNode, HoldsNode
  <2> HIDE DEF node
  <2> DEFINE n == Len(tree)
  <2>4. /\ n \in Nat /\ DOMAIN tree = 1 .. n /\ IsSeq(tree') /\ Len(tree') = n + 1
        /\ DOMAIN tree' = 1 .. n + 1
        /\ \A i \in 1 .. n : tree'[i] = tree[i]
        /\ tree'[n + 1] = node
    <3>1. n \in Nat /\ DOMAIN tree = 1 .. n
      BY <1>4, IsSeqFacts
    <3> QED BY <1>4, <2>2, <3>1, AppendFacts
  <2>5. l \in Nat /\ l # 0
    BY IsSeqFacts DEF ParserInv, TokensInText, Sequences
  <2>6. (\A i \in 0 .. n : EndOf(i)' = EndOf(i)) /\ LastEnd' = l
    BY <1>1, <2>3, <2>4 DEF EndOf, LastEnd
  <2>7. ASSUME NEW from, NEW to, ClosedGap(from, to) PROVE ClosedGap(from, to)'
    BY <1>1, <2>7 DEF ClosedGap, Recorded, Unconvertible
  <2>8. GapsClosed'
    <3> SUFFICES ASSUME NEW i \in 1 .. n + 1
                 PROVE  ClosedGap(EndOf(i - 1), nodes[tree[i]].lo)'
      BY <2>4 DEF GapsClosed
    <3>1. i - 1 \in 0 .. n /\ EndOf(i - 1)' = EndOf(i - 1)
      BY <2>4, <2>6
    <3>2. ClosedGap(EndOf(i - 1), nodes'[tree'[i]].lo)
      <4>1. CASE i = n + 1
        BY <1>1, <2>3, <2>4, <4>1 DEF LastEnd
      <4>2. CASE i # n + 1
        BY <1>1, <1>4, <2>4, <4>2 DEF GapsClosed
      <4> QED BY <4>1, <4>2
    <3>3. \A from, to : from = EndOf(i - 1) /\ to = nodes'[tree'[i]].lo => ClosedGap(from, to)'
      BY <2>7, <3>2
    <3> QED BY <3>1, <3>3 DEF ClosedGap, Recorded
  <2>9. TreeOfNodes'
    BY <1>1, <1>4, <2>3, <2>4 DEF TreeOfNodes
  <2>10. Between'
    <3>1. LastEnd' = Len(tokens') /\ Len(tokens') \in Nat /\ Len(tokens') # 0
      BY <1>1, <2>5, <2>6
    <3> QED BY <3>1 DEF Between, ClosedGap
  <2>11. Sequences'
    BY <1>1, <1>4, <2>2, <2>4, NoItems DEF Sequences, IsRow
  <2>12. Skipping' /\ Declaring'
    BY <1>1, <2>2 DEF Skipping, Declaring
  <2>13. TokensInText' /\ NoTextIsLost' /\ ReportsAreTokens'
    BY <1>1, RestStays
  <2> QED BY <2>8, <2>9, <2>10, <2>11, <2>12, <2>13 DEF ParserInv
<1> QED BY <1>5, <1>6

LEMMA StepRecover == ParserInv /\ Recover => ParserInv'
<1> SUFFICES ASSUME ParserInv, Recover PROVE ParserInv'
  OBVIOUS
<1> DEFINE l == Len(tokens)
<1>1. /\ mode = "skip" /\ UNCHANGED <<text, stack, nodes, tree, reports>>
      /\ IF eof THEN UNCHANGED tokens ELSE advance
      /\ mode' = IF eof \/ peek.kind = ";" THEN "parse" ELSE "skip"
  BY DEF Recover
<1>2. /\ stack = <<>> /\ LastEnd \in 1 .. l
      /\ \/ \E r \in DOMAIN reports : LastEnd <= reports[r]
         \/ \E i \in LastEnd .. l - 1 : Unconvertible(tokens[i])
  BY <1>1 DEF ParserInv, Skipping
<1>3. /\ Sequences /\ TreeOfNodes /\ GapsClosed /\ ReportsAreTokens
      /\ IsSeq(tokens) /\ l \in Nat /\ DOMAIN tokens = 1 .. l
  BY IsSeqFacts DEF ParserInv, Sequences
<1>4. /\ TokensInText' /\ NoTextIsLost' /\ ReportsAreTokens' /\ Grows
      /\ advance => Len(tokens') = l + 1
  BY <1>1, RestStays
<1>5. TreeOfNodes' /\ GapsClosed' /\ LastEnd' = LastEnd
  BY <1>1, <1>3, <1>4, TreeStays
<1>6. Sequences' /\ Declaring'
  BY <1>1, <1>2, <1>3, <1>4 DEF Sequences, Declaring, Grows, Extends
<1>7. \A i \in 1 .. l : Unconvertible(tokens[i]) => Unconvertible(tokens[i])'
  BY <1>3, <1>4, UnconvertibleStays
<1>8. CASE eof
  <2>1. tokens' = tokens /\ mode' = "parse" /\ eof'
    BY <1>1, <1>8 DEF eof, peek
  <2>2. \/ \E r \in DOMAIN reports' : LastEnd' <= reports'[r]
        \/ \E i \in LastEnd' .. Len(tokens') - 1 : Unconvertible(tokens[i])'
    <3>1. \A i \in LastEnd .. l - 1 : i \in 1 .. l
      BY <1>2, <1>3
    <3> QED BY <1>1, <1>2, <1>5, <1>7, <2>1, <3>1
  <2>3. Between'
    BY <1>2, <1>5, <2>1, <2>2 DEF Between
  <2>4. Skipping'
    BY <2>1 DEF Skipping
  <2> QED BY <1>4, <1>5, <1>6, <2>3, <2>4 DEF ParserInv
<1>9. CASE ~eof
  <2>1. Len(tokens') = l + 1 /\ tokens'[l] = peek
    <3>1. Len(tokens') = l + 1 /\ l \in DOMAIN tokens
      <4>1. Len(tokens') = l + 1
        BY <1>1, <1>4, <1>9
      <4>2. \A e : e \in 1 .. l => l \in 1 .. l
        <5> HIDE DEF l
        <5> QED BY <1>3
      <4> QED BY <1>2, <1>3, <4>1, <4>2
    <3> QED BY <3>1, <1>4 DEF Grows, Extends, peek
  <2>2. \/ \E r \in DOMAIN reports' : LastEnd <= reports'[r] /\ reports'[r] < l + 1
        \/ \E i \in LastEnd .. l : Unconvertible(tokens[i])'
    <3>1. \A i \in LastEnd .. l - 1 : i \in 1 .. l /\ i \in LastEnd .. l
      BY <1>2, <1>3
    <3>2. \A r \in DOMAIN reports : reports[r] < l + 1
      BY <1>3 DEF ReportsAreTokens
    <3> QED BY <1>1, <1>2, <1>7, <3>1, <3>2
  <2>3. LastEnd' \in 1 .. Len(tokens')
    BY <1>2, <1>3, <1>5, <2>1
  <2>4. Between'
    <3> SUFFICES ASSUME mode' = "parse" PROVE Between'
      BY DEF Between
    <3>1. peek.kind = ";"
      BY <1>1, <1>9
    <3>2. ASSUME NEW from, NEW to, from = LastEnd, to = l + 1 PROVE ClosedGap(from, to)'
      <4>1. from \in 1 .. Len(tokens') /\ to \in from .. Len(tokens') /\ to - 1 = l
        BY <1>2, <1>3, <2>1, <3>2
      <4>2. tokens'[to - 1].kind = ";"
        BY <2>1, <3>1, <4>1
      <4>3. Recorded(from, to)'
        BY <2>2, <3>2, <4>1 DEF Recorded
      <4> QED BY <4>1, <4>2, <4>3 DEF ClosedGap
    <3>3. \A from, to : from = LastEnd /\ to = l + 1 => ClosedGap(from, to)'
      BY <3>2
    <3>4. ClosedGap(LastEnd, Len(tokens))'
      BY <1>5, <2>1, <3>3 DEF ClosedGap, Recorded
    <3> QED BY <2>3, <3>4 DEF Between
  <2>5. Skipping'
    <3>1. \/ \E r \in DOMAIN reports' : LastEnd' <= reports'[r]
          \/ \E i \in LastEnd' .. Len(tokens') - 1 : Unconvertible(tokens[i])'
      <4>1. Len(tokens') - 1 = l
        BY <1>3, <2>1
      <4> QED BY <1>5, <2>2, <4>1
    <3> QED BY <1>1, <1>2, <2>3, <3>1 DEF Skipping
  <2> QED BY <1>4, <1>5, <1>6, <2>4, <2>5 DEF ParserInv
<1> QED BY <1>8, <1>9

LEMMA NextParserInv == ParserInv /\ (ParserStep \/ UNCHANGED parserVars) => ParserInv'
<1>1. ASSUME ParserInv, UNCHANGED parserVars PROVE ParserInv'
  <2>1. /\ Sequences /\ TokensInText /\ NoTextIsLost /\ TreeOfNodes /\ ReportsAreTokens /\ GapsClosed
        /\ Between /\ Skipping /\ Declaring
    BY <1>1 DEF ParserInv
  <2>2. UNCHANGED <<text, tokens, stack, nodes, tree, mode, reports>>
    BY <1>1 DEF parserVars
  <2>3. Sequences' /\ TokensInText' /\ NoTextIsLost' /\ TreeOfNodes' /\ ReportsAreTokens'
    BY <2>1, <2>2 DEF Sequences, TokensInText, NoTextIsLost, Skipped, TreeOfNodes, ReportsAreTokens
  <2>4. GapsClosed'
    BY <2>1, <2>2 DEF GapsClosed, ClosedGap, Recorded, Unconvertible, EndOf
  <2>5. Between' /\ Skipping'
    BY <2>1, <2>2 DEF Between, Skipping, ClosedGap, Recorded, Unconvertible, EndOf, LastEnd, eof, peek
  <2>6. Declaring'
    <3>1. Fresh' <=> Fresh
      BY <2>2 DEF Fresh, Top, Item, peek, eof
    <3>2. stack # <<>> =>
            /\ OnItsRow(stack[1])' \/ (Len(stack') = 1 /\ HasItsNode(stack[1])')
            /\ ClosedGap(LastEnd, stack[1].first)'
      BY <2>1, <2>2 DEF Declaring, OnItsRow, IsFrame, HasItsNode, HoldsNode, ClosedGap, Recorded,
                        Unconvertible, EndOf, LastEnd
    <3> QED BY <2>1, <2>2, <3>1, <3>2 DEF Declaring
  <2> QED BY <2>3, <2>4, <2>5, <2>6 DEF ParserInv
<1>2. ParserInv /\ ParserStep => ParserInv'
  BY StepDeclaration, StepMustConsume, StepMustMatchFails, StepParsePackage, StepKeepKind,
     StepOptional, StepLoop, StepDelimiter, StepCallFunction, StepExpression, StepRightOperand,
     StepPrecendece, StepPrecendeceNoRule, StepPrecendeceNullPrefix, StepInfixLoop, StepMakeNode,
     StepTupleOrGroup, StepConvertLiteral, StepKids, StepReturnNode, StepRecover
  DEF ParserStep
<1> QED BY <1>1, <1>2

(* parse() begins with the first token of the text. *)
LEMMA StepBegin ==
  ASSUME NEW units, IsSeq(units), Begin(units)
  PROVE  ParserInv'
<1> DEFINE k == scan(units, 1)
<1>1. /\ text' = units /\ tokens' = <<k>> /\ mode' = "parse" /\ stack' = <<>> /\ nodes' = <<>>
      /\ tree' = <<>> /\ reports' = <<>>
  BY DEF Begin, Holds
<1>2. /\ k.lo \in 1 .. Len(units) + 1 /\ k.hi \in k.lo .. Len(units) + 1
      /\ \A j \in 1 .. k.lo - 1 : units[j] \in Blank
  <2>1. 1 \in 1 .. Len(units) + 1
    BY IsSeqFacts
  <2> QED BY <2>1, ScanFacts DEF Reads
<1> HIDE DEF k
<1>3. /\ IsSeq(<<>>) /\ IsSeq(tokens') /\ DOMAIN tokens' = {1} /\ Len(tokens') = 1
      /\ tokens'[1] = k /\ tokens' # <<>>
  <2>1. <<k>> \in Seq({k}) /\ DOMAIN <<k>> = {1} /\ Len(<<k>>) = 1 /\ <<k>>[1] = k /\ <<k>> # <<>>
    OBVIOUS
  <2> QED BY <1>1, <2>1, SeqIsSeq, NoItems DEF IsRow
<1>4. Sequences'
  BY <1>1, <1>3 DEF Sequences
<1>5. TokensInText'
  BY <1>1, <1>2, <1>3 DEF TokensInText
<1>6. NoTextIsLost'
  <2>1. \A j \in 1 .. tokens'[1].lo - 1 : text'[j] \in Blank
    BY <1>1, <1>2, <1>3
  <2> QED BY <1>3, <2>1 DEF NoTextIsLost, Skipped
<1>7. TreeOfNodes' /\ ReportsAreTokens'
  BY <1>1 DEF TreeOfNodes, ReportsAreTokens
<1>8. GapsClosed'
  BY <1>1 DEF GapsClosed
<1>9. Between'
  <2>1. LastEnd' = 1
    BY <1>1 DEF LastEnd, EndOf
  <2> QED BY <1>3, <2>1 DEF Between, ClosedGap
<1>10. Skipping' /\ Declaring'
  BY <1>1 DEF Skipping, Declaring
<1> QED BY <1>4, <1>5, <1>6, <1>7, <1>8, <1>9, <1>10 DEF ParserInv

(* At the end of the text every gap is closed or was given up. *)
LEMMA NothingIsLostInParsing == ParserInv => NoTextIsLost /\ NoDeclarationIsLost
<1> SUFFICES ASSUME ParserInv PROVE NoTextIsLost /\ NoDeclarationIsLost
  OBVIOUS
<1>1. NoTextIsLost /\ Sequences /\ TreeOfNodes /\ GapsClosed
  BY DEF ParserInv
<1>2. NoDeclarationIsLost
  <2> DEFINE n == Len(tree)
             l == Len(tokens)
             to(i) == IF i = n THEN l ELSE nodes[tree[i + 1]].lo
  <2> SUFFICES ASSUME Parsed, NEW i \in 0 .. n
               PROVE  EndOf(i) = to(i) \/ (EndOf(i) < to(i) /\ GivenUp(EndOf(i), to(i)))
    BY DEF NoDeclarationIsLost, EndOf
  <2>1. n \in Nat /\ l \in Nat
    BY <1>1, IsSeqFacts DEF Sequences
  <2>2. ASSUME NEW from, NEW end, ClosedGap(from, end)
        PROVE  from = end \/ (from < end /\ GivenUp(from, end))
    <3> SUFFICES ASSUME from # end PROVE from < end /\ GivenUp(from, end)
      OBVIOUS
    <3>1. from < end
      <4>1. from \in 1 .. l /\ end \in from .. l /\ from # end
        BY <2>2 DEF ClosedGap
      <4> HIDE DEF l
      <4> QED BY <2>1, <4>1
    <3> QED BY <2>2, <3>1 DEF ClosedGap, GivenUp, Recorded
  <2>3. CASE i # n
    <3>1. i + 1 \in 1 .. n /\ (i + 1) - 1 = i
      BY <2>1, <2>3
    <3>2. ClosedGap(EndOf((i + 1) - 1), nodes[tree[i + 1]].lo)
      BY <1>1, <3>1 DEF GapsClosed
    <3> QED BY <2>2, <2>3, <3>1, <3>2
  <2>4. CASE i = n
    <3>1. /\ LastEnd = EndOf(n) /\ LastEnd \in 1 .. l
          /\ \/ ClosedGap(LastEnd, l)
             \/ \E r \in DOMAIN reports : LastEnd <= reports[r]
             \/ \E j \in LastEnd .. l - 1 : Unconvertible(tokens[j])
      BY DEF ParserInv, Between, Parsed, LastEnd
    <3>2. CASE ClosedGap(LastEnd, l)
      BY <2>2, <2>4, <3>1, <3>2
    <3>3. CASE ~ClosedGap(LastEnd, l)
      <4> HIDE DEF l
      <4>1. LastEnd = l \/ LastEnd < l
        BY <2>1, <3>1
      <4>2. GivenUp(LastEnd, l)
        BY <2>1, <3>1, <3>3 DEF GivenUp, l
      <4> QED BY <2>4, <3>1, <4>1, <4>2
    <3> QED BY <3>2, <3>3
  <2> QED BY <2>3, <2>4
<1> QED BY <1>1, <1>2

-----------------------------------------------------------------------------
(* The pipeline: each source is parsed from the start of its text. *)

Parsing ==
  /\ texts \in Projects /\ file \in Source /\ left \subseteq Source
  /\ phase = "resolve" => file = Main
  /\ phase = "parse" => calls = <<>> /\ text = texts[file] /\ ParserInv

LEMMA TextsAreSequences == ASSUME texts \in Projects, NEW p \in Source PROVE IsSeq(texts[p])
<1>1. texts[p] \in Seq(STRING)
  BY PipelineAssumption
<1> QED BY <1>1, SeqIsSeq

(* The stream of no source has been read when no call is under way. *)
LEMMA StreamsAreFull ==
  ASSUME Resolution, calls = <<>>, NEW p \in Source
  PROVE  Stream(p) = texts[p]
<1>1. at[p] \in {"start", "end"} /\ at[p] # "end"
  BY DEF Resolution, IInv, ContextTypeOK, StreamsMatchCalls
<1> QED BY <1>1 DEF Stream

LEMMA InitParsing == PipelineInit => Parsing
  BY DEF PipelineInit, Parsing, Source

LEMMA NextParsing == Resolution /\ Parsing /\ [PipelineNext]_pipelineVars => Parsing'
<1> SUFFICES ASSUME Resolution, Parsing, [PipelineNext]_pipelineVars PROVE Parsing'
  OBVIOUS
<1>1. texts \in Projects /\ file \in Source /\ left \subseteq Source /\ texts' = texts
  BY DEF Parsing, PipelineNext, pipelineVars, ResolveImports, StartParsing, Parse, ParseNext,
         StartOptimizing, Optimize, OptimizeNext, Finish
<1>2. ASSUME NEW p \in Source, calls = <<>>, calls' = calls, Begin(Stream(p)), file' = p
      PROVE  calls' = <<>> /\ text' = texts'[file'] /\ ParserInv'
  <2>1. Stream(p) = texts[p] /\ IsSeq(texts[p])
    BY <1>1, <1>2, StreamsAreFull, TextsAreSequences
  <2>2. Begin(texts[p])
    BY <1>2, <2>1
  <2>3. ParserInv'
    BY <2>1, <2>2, StepBegin
  <2> QED BY <1>1, <1>2, <2>2, <2>3 DEF Begin, Holds
<1>3. CASE ResolveImports
  BY <1>1, <1>3 DEF ResolveImports, Parsing
<1>4. CASE StartParsing
  <2>1. /\ phase' = "parse" /\ left' = imports /\ calls = <<>> /\ calls' = calls
        /\ Begin(Stream(Main)) /\ file' = Main
    BY <1>4 DEF StartParsing, vars, Parsing
  <2>2. imports \subseteq Source /\ Main \in Source
    BY DEF Resolution, IInv, ContextTypeOK, Source
  <2> QED BY <1>1, <1>2, <2>1, <2>2 DEF Parsing
<1>5. CASE Parse
  <2>1. /\ phase = "parse" /\ phase' = "parse" /\ ParserStep /\ calls' = calls
        /\ UNCHANGED <<file, left>>
    BY <1>5 DEF Parse, vars
  <2>2. calls = <<>> /\ text = texts[file] /\ ParserInv
    BY <2>1 DEF Parsing
  <2>3. ParserInv'
    BY <2>1, <2>2, NextParserInv
  <2>4. text' = text
    BY <2>1 DEF ParserStep, Declaration, must_consume, must_match_fails, parse_package, KeepKind,
       Optional, Loop, Delimiter, CallFunction, expression, RightOperand, precendece,
       precendece_NoRule, precendece_NullPrefix, InfixLoop, make_node, TupleOrGroup, ConvertLiteral,
       NoChild, SetDefault, DropChild, ReturnNode, Recover, Consumes, Continue, Throw, Pushes, Makes
  <2> QED BY <1>1, <2>1, <2>2, <2>3, <2>4 DEF Parsing
<1>6. CASE \E p \in Source : ParseNext(p)
  <2>1. PICK p \in Source : ParseNext(p)
    BY <1>6
  <2>2. /\ phase = "parse" /\ phase' = "parse" /\ calls = <<>> /\ calls' = calls
        /\ Begin(Stream(p)) /\ file' = p /\ left' \subseteq left
    BY <2>1 DEF ParseNext, vars, Parsing
  <2> QED BY <1>1, <1>2, <2>2 DEF Parsing
<1>7. CASE StartOptimizing
  <2>1. phase' = "optimize" /\ file' = Main /\ left' = imports
    BY <1>7 DEF StartOptimizing
  <2>2. imports \subseteq Source /\ Main \in Source
    BY DEF Resolution, IInv, ContextTypeOK, Source
  <2> QED BY <1>1, <2>1, <2>2 DEF Parsing
<1>8. CASE Optimize
  BY <1>1, <1>8 DEF Optimize, Parsing
<1>9. CASE \E p \in Source : OptimizeNext(p)
  BY <1>1, <1>9 DEF OptimizeNext, Optimized, Parsing
<1>10. CASE Finish
  BY <1>1, <1>10 DEF Finish, Parsing
<1>11. CASE UNCHANGED pipelineVars
  <2>1. UNCHANGED parserVars /\ UNCHANGED <<phase, file, left, calls>> /\ text' = text
    BY <1>11 DEF pipelineVars, vars, parserVars
  <2>2. phase = "parse" => ParserInv'
    BY <2>1, NextParserInv DEF Parsing
  <2> QED BY <1>1, <2>1, <2>2 DEF Parsing
<1> QED BY <1>3, <1>4, <1>5, <1>6, <1>7, <1>8, <1>9, <1>10, <1>11 DEF PipelineNext

(* Every source of a package is parsed from its whole text, and of that    *)
(* nothing is left out of the tree without a report, but for a declaration *)
(* with a literal that has no value.                                       *)
THEOREM NothingIsLost == PipelineSpec => []NothingLostSilently
<1>1. Parsing => NothingLostSilently
  BY NothingIsLostInParsing DEF Parsing, NothingLostSilently
<1> QED BY <1>1, InitResolution, InitParsing, NextResolution, NextParsing, PTL DEF PipelineSpec

-----------------------------------------------------------------------------
(* A declaration of another kind: the last item of its row makes a node    *)
(* that is no ModuleImport, whichever way it goes.                         *)

Other(x) == x.do = "node" /\ x.kind \notin {"ModuleImport", "Literal"}
FinalItem(r) == r[Len(r)]
OtherEnd(x) ==
  \/ Other(x)
  \/ /\ x.do = "opt" /\ x.yes # <<>> /\ x.no # <<>>
     /\ Other(FinalItem(x.yes)) /\ Other(FinalItem(x.no))
EndsOther(r) == r # <<>> /\ OtherEnd(FinalItem(r))

LEMMA TuplesAreSequences ==
  /\ \A a : IsSeq(<<a>>)
  /\ \A a, b : <<a, b>> # <<>> /\ IsSeq(<<a, b>>)
  /\ \A a, b, c : <<a, b, c>> # <<>> /\ IsSeq(<<a, b, c>>)
  /\ \A a, b, c, d : IsSeq(<<a, b, c, d>>)
<1>1. ASSUME NEW a PROVE IsSeq(<<a>>)
  <2>1. <<a>> \in Seq({a})
    OBVIOUS
  <2> QED BY <2>1, SeqIsSeq
<1>2. ASSUME NEW a, NEW b PROVE <<a, b>> # <<>> /\ IsSeq(<<a, b>>)
  <2>1. <<a, b>> # <<>> /\ <<a, b>> \in Seq({a, b})
    OBVIOUS
  <2> QED BY <2>1, SeqIsSeq
<1>3. ASSUME NEW a, NEW b, NEW c PROVE <<a, b, c>> # <<>> /\ IsSeq(<<a, b, c>>)
  <2>1. <<a, b, c>> # <<>> /\ <<a, b, c>> \in Seq({a, b, c})
    OBVIOUS
  <2> QED BY <2>1, SeqIsSeq
<1>4. ASSUME NEW a, NEW b, NEW c, NEW d PROVE IsSeq(<<a, b, c, d>>)
  <2>1. <<a, b, c, d>> \in Seq({a, b, c, d})
    OBVIOUS
  <2> QED BY <2>1, SeqIsSeq
<1> QED BY <1>1, <1>2, <1>3, <1>4

LEMMA OtherOf2 ==
  ASSUME NEW a, NEW b, OtherEnd(b)
  PROVE  EndsOther(<<a, b>>)
<1>1. <<a, b>> # <<>> /\ <<a, b>>[Len(<<a, b>>)] = b
  OBVIOUS
<1> QED BY <1>1 DEF EndsOther, FinalItem

LEMMA OtherOf3 ==
  ASSUME NEW a, NEW b, NEW c, OtherEnd(c)
  PROVE  EndsOther(<<a, b, c>>)
<1>1. <<a, b, c>> # <<>> /\ <<a, b, c>>[Len(<<a, b, c>>)] = c
  OBVIOUS
<1> QED BY <1>1 DEF EndsOther, FinalItem

LEMMA OtherOf4 ==
  ASSUME NEW a, NEW b, NEW c, NEW d, OtherEnd(d)
  PROVE  EndsOther(<<a, b, c, d>>)
<1>1. <<a, b, c, d>> # <<>> /\ <<a, b, c, d>>[Len(<<a, b, c, d>>)] = d
  OBVIOUS
<1> QED BY <1>1 DEF EndsOther, FinalItem

LEMMA OtherOf5 ==
  ASSUME NEW a, NEW b, NEW c, NEW d, NEW e, OtherEnd(e)
  PROVE  EndsOther(<<a, b, c, d, e>>)
<1>1. <<a, b, c, d, e>> # <<>> /\ <<a, b, c, d, e>>[Len(<<a, b, c, d, e>>)] = e
  OBVIOUS
<1> QED BY <1>1 DEF EndsOther, FinalItem

LEMMA OtherOf6 ==
  ASSUME NEW a, NEW b, NEW c, NEW d, NEW e, NEW f, OtherEnd(f)
  PROVE  EndsOther(<<a, b, c, d, e, f>>)
<1>1. <<a, b, c, d, e, f>> # <<>> /\ <<a, b, c, d, e, f>>[Len(<<a, b, c, d, e, f>>)] = f
  OBVIOUS
<1> QED BY <1>1 DEF EndsOther, FinalItem

LEMMA OtherOf7 ==
  ASSUME NEW a, NEW b, NEW c, NEW d, NEW e, NEW f, NEW g, OtherEnd(g)
  PROVE  EndsOther(<<a, b, c, d, e, f, g>>)
<1>1. <<a, b, c, d, e, f, g>> # <<>> /\ <<a, b, c, d, e, f, g>>[Len(<<a, b, c, d, e, f, g>>)] = g
  OBVIOUS
<1> QED BY <1>1 DEF EndsOther, FinalItem

LEMMA OtherOf8 ==
  ASSUME NEW a, NEW b, NEW c, NEW d, NEW e, NEW f, NEW g, NEW h, OtherEnd(h)
  PROVE  EndsOther(<<a, b, c, d, e, f, g, h>>)
<1>1. <<a, b, c, d, e, f, g, h>> # <<>> /\ <<a, b, c, d, e, f, g, h>>[Len(<<a, b, c, d, e, f, g, h>>)] = h
  OBVIOUS
<1> QED BY <1>1 DEF EndsOther, FinalItem

LEMMA OtherOf9 ==
  ASSUME NEW a, NEW b, NEW c, NEW d, NEW e, NEW f, NEW g, NEW h, NEW i, OtherEnd(i)
  PROVE  EndsOther(<<a, b, c, d, e, f, g, h, i>>)
<1>1. <<a, b, c, d, e, f, g, h, i>> # <<>> /\ <<a, b, c, d, e, f, g, h, i>>[Len(<<a, b, c, d, e, f, g, h, i>>)] = i
  OBVIOUS
<1> QED BY <1>1 DEF EndsOther, FinalItem

LEMMA LastOfJoined ==
  ASSUME NEW r, IsSeq(r), NEW s, IsSeq(s), s # <<>>
  PROVE  r \o s # <<>> /\ FinalItem(r \o s) = FinalItem(s) /\ IsSeq(r \o s)
<1> DEFINE t == r \o s
<1>1. Len(r) \in Nat /\ Len(s) \in Nat \ {0}
  BY IsSeqFacts
<1>2. IsSeq(t) /\ Len(t) = Len(r) + Len(s) /\ t[Len(r) + Len(s)] = s[Len(s)]
  BY <1>1, ConcatFacts
<1> HIDE DEF t
<1>3. t # <<>> /\ FinalItem(t) = FinalItem(s)
  BY <1>1, <1>2, IsSeqFacts DEF FinalItem
<1> QED BY <1>2, <1>3 DEF t

(* Such a node ends a row. *)
LEMMA NodesEndOther ==
  ASSUME NEW kind, kind \notin {"ModuleImport", "Literal"}
  PROVE  Other(Node(kind)) /\ OtherEnd(Node(kind))
  BY DEF Other, OtherEnd, Node

LEMMA DeclarationsEndOther ==
  /\ EndsOther(declaration_main) /\ EndsOther(declaration_package) /\ EndsOther(declaration_function)
  /\ EndsOther(declaration_enum) /\ EndsOther(declaration_object) /\ EndsOther(declaration_library)
  /\ EndsOther(declaration_macro)
<1>1. EndsOther(declaration_main)
  BY OtherOf3, NodesEndOther DEF declaration_main
<1>2. EndsOther(declaration_package)
  <2> DEFINE s == <<Must(";"), Node("ModuleDeclaration")>>
  <2>1. IsSeq(s) /\ EndsOther(s)
    BY TuplesAreSequences, OtherOf2, OtherOf3, NodesEndOther
  <2>2. declaration_package = <<Must("pkg")>> \o Package \o s
    BY DEF declaration_package
  <2>3. IsSeq(<<Must("pkg")>>) /\ IsSeq(Package) /\ Package # <<>>
    BY TuplesAreSequences DEF Package
  <2> HIDE DEF s
  <2>4. IsSeq(<<Must("pkg")>> \o Package)
    BY <2>3, LastOfJoined
  <2> QED BY <2>1, <2>2, <2>4, LastOfJoined DEF EndsOther
<1>3. EndsOther(declaration_library)
  <2> DEFINE s == <<Must("{"), Until("}", <<Sub("extern_function")>>), Node("DeclarationExternLibrary")>>
  <2>1. IsSeq(s) /\ EndsOther(s)
    BY TuplesAreSequences, OtherOf2, OtherOf3, NodesEndOther
  <2>2. declaration_library = <<Must("dll")>> \o Package \o s
    BY DEF declaration_library
  <2>3. IsSeq(<<Must("dll")>>) /\ IsSeq(Package) /\ Package # <<>>
    BY TuplesAreSequences DEF Package
  <2> HIDE DEF s
  <2>4. IsSeq(<<Must("dll")>> \o Package)
    BY <2>3, LastOfJoined
  <2> QED BY <2>1, <2>2, <2>4, LastOfJoined DEF EndsOther
<1>4. EndsOther(declaration_function)
  <2> DEFINE s == <<Sub("parse_function_body"), Node("ExpressionLambda"), Node("DeclarationFunction")>>
  <2>1. IsSeq(s) /\ EndsOther(s)
    BY TuplesAreSequences, OtherOf2, OtherOf3, NodesEndOther
  <2>2. declaration_function = parse_named_function_header \o s
    BY DEF declaration_function
  <2>3. IsSeq(parse_named_function_header)
    BY TuplesAreSequences DEF parse_named_function_header
  <2> HIDE DEF s
  <2> QED BY <2>1, <2>2, <2>3, LastOfJoined DEF EndsOther
<1>5. EndsOther(declaration_enum)
  BY OtherOf5, NodesEndOther DEF declaration_enum
<1>6. EndsOther(declaration_object)
  BY OtherOf6, NodesEndOther DEF declaration_object
<1>7. EndsOther(declaration_macro)
  BY OtherOf5, NodesEndOther DEF declaration_macro
<1> QED BY <1>1, <1>2, <1>3, <1>4, <1>5, <1>6, <1>7

LEMMA StatementsEndOther ==
  /\ EndsOther(statement_empty) /\ EndsOther(statement_block) /\ EndsOther(statement_circuit)
  /\ EndsOther(statement_variable) /\ EndsOther(statement_constant) /\ EndsOther(statement_return)
  /\ EndsOther(statement_switch) /\ EndsOther(statement_itercontrol) /\ EndsOther(statement_if)
  /\ EndsOther(statement_while) /\ EndsOther(statement_loop) /\ EndsOther(statement_for)
  /\ EndsOther(statement_foreach) /\ EndsOther(statement_match) /\ EndsOther(statement_expression)
<1>1. /\ EndsOther(statement_empty) /\ EndsOther(statement_block) /\ EndsOther(statement_circuit)
      /\ EndsOther(statement_switch) /\ EndsOther(statement_itercontrol)
      /\ EndsOther(statement_loop) /\ EndsOther(statement_expression)
  BY OtherOf2, OtherOf3, OtherOf4, NodesEndOther
  DEF statement_empty, statement_block, statement_circuit, statement_switch,
      statement_itercontrol, statement_loop, statement_expression
<1>2. EndsOther(statement_while)
  <2>1. OtherEnd(Node("StatementWhile"))
    BY NodesEndOther
  <2> QED BY <2>1, OtherOf6 DEF statement_while
<1>3. EndsOther(statement_constant)
  <2>1. OtherEnd(Node("StatementConstant"))
    BY NodesEndOther
  <2> QED BY <2>1, OtherOf7 DEF statement_constant
<1>4. EndsOther(statement_variable)
  <2>1. OtherEnd(Node("StatementVariable"))
    BY NodesEndOther
  <2> QED BY <2>1, OtherOf7 DEF statement_variable
<1>5. EndsOther(statement_if)
  <2> DEFINE otherwise == Opt("else", <<Sub("statement")>>, <<NoNode>>)
  <2>1. statement_if = <<Must("if"), Must("("), Expression, Must(")"), Sub("statement"), otherwise,
                         Node("StatementIf")>>
    BY DEF statement_if
  <2>2. OtherEnd(Node("StatementIf"))
    BY NodesEndOther
  <2> HIDE DEF otherwise
  <2> QED BY <2>1, <2>2, OtherOf7
<1>6. EndsOther(statement_match)
  <2>1. OtherEnd(Node("StatementMatch"))
    BY NodesEndOther
  <2>2. EndsOther(<<Must("match"), Must("("), Expression, Discard, Must(")"), Must("{"), Must("}"),
                    Node("StatementMatch")>>)
    BY <2>1, OtherOf8
  <2> QED BY <2>2 DEF statement_match
<1>7. EndsOther(statement_for)
  <2>1. OtherEnd(Node("StatementFor"))
    BY NodesEndOther
  <2> QED BY <2>1, OtherOf9 DEF statement_for
<1>8. EndsOther(statement_foreach)
  <2>1. OtherEnd(Node("StatementForeach"))
    BY NodesEndOther
  <2> QED BY <2>1, OtherOf9 DEF statement_foreach
<1>9. EndsOther(statement_return)
  <2> DEFINE nothing == <<NoNode, Node("StatementReturn")>>
             value == <<Expression, Must(";"), Node("StatementReturn")>>
             where == Opt("[", <<Expression, Must("]")>>, <<NoNode>>)
             what == Opt(";", nothing, value)
  <2>1. nothing # <<>> /\ value # <<>> /\ Other(FinalItem(nothing)) /\ Other(FinalItem(value))
    <3>1. nothing # <<>> /\ nothing[Len(nothing)] = Node("StatementReturn")
      OBVIOUS
    <3>2. value # <<>> /\ value[Len(value)] = Node("StatementReturn")
      OBVIOUS
    <3> QED BY <3>1, <3>2, NodesEndOther DEF FinalItem
  <2> HIDE DEF nothing, value
  <2>2. OtherEnd(what)
    BY <2>1 DEF OtherEnd, Opt
  <2>3. statement_return = <<Must("return"), where, what>>
    BY DEF statement_return, nothing, value
  <2> HIDE DEF where, what
  <2> QED BY <2>2, <2>3, OtherOf3
<1> QED BY <1>1, <1>2, <1>3, <1>4, <1>5, <1>6, <1>7, <1>8, <1>9

(* Every row but that of an import ends in a node of another kind. *)
LEMMA OthersEndOther ==
  ASSUME NEW k, k # "use"
  PROVE  EndsOther(declaration(k))
<1>1. EndsOther(statement(k))
  BY StatementsEndOther, ZenonT(60) DEF statement
<1> QED BY <1>1, DeclarationsEndOther, ZenonT(60) DEF declaration

-----------------------------------------------------------------------------
(* Such a declaration stays what it is until its node is made.             *)

OtherRow(f, made) ==
  IF f.todo # <<>> THEN OtherEnd(FinalItem(f.todo)) ELSE made[f.kids[1]].kind # "ModuleImport"

Kept ==
  /\ stack' # <<>> /\ stack'[1].first = stack[1].first
  /\ OtherRow(stack[1], nodes) => OtherRow(stack'[1], nodes')

LEMMA LastOfTail ==
  ASSUME NEW r, IsSeq(r), r # <<>>
  PROVE  /\ Tail(r) # <<>> => FinalItem(Tail(r)) = FinalItem(r)
         /\ Tail(r) = <<>> => FinalItem(r) = Head(r)
<1>1. /\ IsSeq(Tail(r)) /\ Len(Tail(r)) = Len(r) - 1 /\ Len(r) \in Nat \ {0} /\ Head(r) = r[1]
      /\ \A i \in 1 .. Len(r) - 1 : Tail(r)[i] = r[i + 1]
  BY TailFacts
<1>2. CASE Tail(r) # <<>>
  <2>1. Len(Tail(r)) # 0
    BY <1>1, <1>2, IsSeqFacts
  <2>2. Len(r) - 1 \in 1 .. Len(r) - 1 /\ Len(r) - 1 + 1 = Len(r)
    BY <1>1, <2>1
  <2> QED BY <1>1, <1>2, <2>2 DEF FinalItem
<1>3. CASE Tail(r) = <<>>
  <2>1. Len(Tail(r)) = 0
    BY <1>1, <1>3, IsSeqFacts
  <2>2. Len(r) = 1
    <3>1. \A m, n : n \in Nat \ {0} /\ m = n - 1 /\ m = 0 => n = 1
      OBVIOUS
    <3> QED BY <1>1, <2>1, <3>1
  <2>3. FinalItem(r) = Head(r)
    BY <1>1, <2>2 DEF FinalItem
  <2> QED BY <1>3, <2>3
<1> QED BY <1>2, <1>3

LEMMA NothingJoined == ASSUME NEW r, IsSeq(r) PROVE <<>> \o r = r /\ r \o <<>> = r
<1>1. \A S : r \in Seq(S) => <<>> \o r = r /\ r \o <<>> = r
  OBVIOUS
<1> QED BY <1>1 DEF IsSeq

LEMMA KeepsOther ==
  ASSUME NEW r, IsSeq(r), r # <<>>, OtherEnd(FinalItem(r)), NEW items, IsSeq(items),
         Head(r).do # "node", Head(r).do = "opt" => items \in {Head(r).yes, Head(r).no}
  PROVE  items \o Tail(r) # <<>> /\ OtherEnd(FinalItem(items \o Tail(r)))
<1>1. IsSeq(Tail(r))
  BY TailFacts
<1>2. CASE Tail(r) # <<>>
  <2>1. FinalItem(Tail(r)) = FinalItem(r)
    BY <1>2, LastOfTail
  <2> QED BY <1>1, <1>2, <2>1, LastOfJoined
<1>3. CASE Tail(r) = <<>>
  <2>1. OtherEnd(Head(r))
    BY <1>3, LastOfTail
  <2>2. items # <<>> /\ Other(FinalItem(items))
    BY <2>1 DEF OtherEnd, Other
  <2>3. items \o Tail(r) = items
    BY <1>3, NothingJoined
  <2> QED BY <2>2, <2>3 DEF OtherEnd
<1> QED BY <1>2, <1>3

(* A step that puts items in the place of the first one of the innermost   *)
(* frame.                                                                  *)
LEMMA ItemsKeep ==
  ASSUME ParserInv, NEW what, Doing(what), what # "node", nodes' = nodes,
         NEW items, MayFollow(items), NEW f, IsFrame(Top) => ThenFrame(f, items), Replaces(stack', f)
  PROVE  Kept
<1>1. stack # <<>> /\ Top.todo # <<>> /\ Item.do = what
  BY DEF Doing
<1>2. stack' # <<>> /\ stack'[1] = IF Len(stack) = 1 THEN f ELSE stack[1]
  BY DEF Replaces
<1>3. CASE Len(stack) # 1
  BY <1>2, <1>3 DEF Kept
<1>4. CASE Len(stack) = 1
  <2>1. Top = stack[1] /\ OnItsRow(Top)
    BY <1>1, <1>4, TopFacts DEF HasItsNode, HoldsNode
  <2>2. f = [todo |-> items \o Tail(Top.todo), kids |-> f.kids, first |-> Top.first, op |-> f.op]
    BY <2>1 DEF OnItsRow, ThenFrame
  <2>3. f.todo = items \o Tail(Top.todo)
    BY <2>2
  <2>4. f.first = Top.first
    BY <2>2
  <2>5. IsSeq(Top.todo) /\ IsSeq(items) /\ (Item.do = "opt" => items \in {Item.yes, Item.no})
    BY <2>1 DEF OnItsRow, IsRow, MayFollow
  <2>6. OtherRow(Top, nodes) => OtherRow(f, nodes)
    <3> SUFFICES ASSUME OtherEnd(FinalItem(Top.todo)) PROVE OtherRow(f, nodes)
      BY <1>1 DEF OtherRow
    <3>1. items \o Tail(Top.todo) # <<>> /\ OtherEnd(FinalItem(items \o Tail(Top.todo)))
      BY <1>1, <2>5, KeepsOther DEF Item
    <3> QED BY <2>3, <3>1 DEF OtherRow
  <2> QED BY <1>2, <1>4, <2>1, <2>4, <2>6 DEF Kept
<1> QED BY <1>3, <1>4

(* A step that only replaces what is left of the row of the top frame. *)
LEMMA FrameKeeps ==
  ASSUME ParserInv, NEW what, Doing(what), what # "node", NEW items, MayFollow(items),
         NEW f, IsFrame(Top) => ThenFrame(f, items), Consumes(f) \/ Continue(f)
  PROVE  Kept
<1>1. nodes' = nodes /\ stack' = Set(f) /\ stack # <<>>
  BY DEF Consumes, Continue, Doing
<1>2. Replaces(stack', f)
  BY <1>1, TopFacts, SetFacts
<1> QED BY <1>1, <1>2, ItemsKeep

LEMMA PushesKeep ==
  ASSUME ParserInv, NEW what, Doing(what), what \notin {"node", "opt"}, NEW frames, IsSeq(frames),
         Pushes(frames)
  PROVE  Kept
<1>1. nodes' = nodes /\ stack' = Set(Then(<<>>)) \o frames /\ stack # <<>>
  BY DEF Pushes, Doing
<1>2. MayFollow(<<>>)
  BY NothingFollows DEF Doing
<1>3. IsSeq(stack)
  BY <1>1, TopFacts
<1>4. Replaces(stack', Then(<<>>))
  BY <1>1, <1>3, SetFacts
<1> QED BY <1>1, <1>2, <1>4, ThenFrames, ItemsKeep

(* An operator or a tuple is not the declaration. *)
LEMMA NestedItem ==
  ASSUME ParserInv, NEW what \in {"above", "infix", "single"}, Doing(what)
  PROVE  Len(stack) # 1
<1> SUFFICES ASSUME Len(stack) = 1 PROVE FALSE
  OBVIOUS
<1>1. stack # <<>> /\ Top.todo # <<>> /\ Item.do = what
  BY DEF Doing
<1>2. OnItsRow(Top)
  BY <1>1, TopFacts DEF HasItsNode, HoldsNode
<1> QED BY <1>1, <1>2, RestOfRow, ItemHasRows DEF OnItsRow, Item, Plain

(* A made node is of another kind, or the row had nothing else left. *)
LEMMA MakesKeeps ==
  ASSUME ParserInv, NEW what \in {"node", "single"}, Doing(what), NEW kind, Makes(kind),
         what = "node" /\ Other(Item) => kind = Item.kind
  PROVE  Kept
<1> DEFINE n == Len(nodes)
           f == [Then(<<>>) EXCEPT !.kids = <<n + 1>>]
           node == NewNode(kind, Top.kids)
<1>1. stack # <<>> /\ Top.todo # <<>> /\ Item.do = what
  BY DEF Doing
<1>2. nodes' = Append(nodes, node) /\ stack' = Set(f) /\ node.kind = kind
  BY DEF Makes, NewNode
<1> HIDE DEF node
<1>3. stack' # <<>> /\ stack'[1] = IF Len(stack) = 1 THEN f ELSE stack[1]
  <2> HIDE DEF f
  <2> QED BY <1>1, <1>2, TopFacts, SetFacts DEF Replaces
<1>4. CASE Len(stack) # 1
  <2>1. stack[1].todo # <<>>
    BY <1>1, <1>4, TopFacts DEF OnItsRow
  <2> QED BY <1>3, <1>4, <2>1 DEF Kept, OtherRow
<1>5. CASE Len(stack) = 1
  <2>1. Top = stack[1] /\ OnItsRow(Top)
    BY <1>1, <1>5, TopFacts DEF HasItsNode, HoldsNode
  <2>2. ThenFrame(f, <<>>)
    BY <2>1, ThenFrames DEF OnItsRow
  <2>3. f.kids = <<n + 1>> /\ f.first = Top.first /\ f.todo = <<>> \o Tail(Top.todo)
    <3>1. f = [todo |-> <<>> \o Tail(Top.todo), kids |-> f.kids, first |-> Top.first, op |-> f.op]
      BY <2>2 DEF ThenFrame
    <3>2. \A x, a, b, c, d : x = [todo |-> a, kids |-> b, first |-> c, op |-> d] =>
            [x EXCEPT !.kids = <<n + 1>>].kids = <<n + 1>>
      OBVIOUS
    <3>3. f.kids = <<n + 1>>
      <4>1. ThenFrame(Then(<<>>), <<>>)
        BY <2>1, ThenFrames DEF OnItsRow
      <4> QED BY <3>2, <4>1 DEF ThenFrame
    <3> HIDE DEF f
    <3> QED BY <3>1, <3>3
  <2> HIDE DEF f
  <2>4. IsSeq(Top.todo) /\ f.todo = Tail(Top.todo)
    <3>1. IsSeq(Top.todo) /\ IsSeq(Tail(Top.todo))
      BY <1>1, <2>1, TailFacts DEF OnItsRow, IsRow
    <3> QED BY <2>3, <3>1, NothingJoined
  <2>5. ASSUME OtherEnd(FinalItem(Top.todo)) PROVE OtherRow(f, nodes')
    <3>1. CASE f.todo # <<>>
      BY <1>1, <2>4, <2>5, <3>1, LastOfTail DEF OtherRow
    <3>2. CASE f.todo = <<>>
      <4>1. OtherEnd(Item)
        BY <1>1, <2>4, <2>5, <3>2, LastOfTail DEF Item
      <4>2. what = "node"
        BY <1>1, <1>5, NestedItem DEF Doing
      <4>3. kind # "ModuleImport"
        BY <1>1, <4>1, <4>2 DEF OtherEnd, Other
      <4>4. nodes'[f.kids[1]] = node
        <5>1. IsSeq(nodes)
          BY DEF ParserInv, Sequences
        <5> QED BY <1>2, <2>3, <5>1, AppendFacts
      <4> QED BY <1>2, <3>2, <4>3, <4>4 DEF OtherRow
    <3> QED BY <3>1, <3>2
  <2> QED BY <1>1, <1>3, <1>5, <2>1, <2>3, <2>5 DEF Kept, OtherRow
<1> QED BY <1>4, <1>5

-----------------------------------------------------------------------------
(* What the tokens of an import were read from.                            *)

Spelt(t, k) ==
  /\ k.kind \in {"use", "LITERAL_STRING"} => k.lo \in DOMAIN t
  /\ k.kind = "use" => t[k.lo] = "use" /\ k.hi = k.lo + 1
  /\ k.kind = "LITERAL_STRING" => t[k.lo] = "'"

(* A scanned token is spelt as in the text it was scanned from. *)
LEMMA SymbolIsSpelt ==
  ASSUME NEW t, IsSeq(t), NEW i \in 1 .. Len(t), t[i] \in Simple
  PROVE  Spelt(t, scan_symbol(t, i))
<1> DEFINE s == Spelling(t, i)
           T == {n \in 1 .. 4 : \A m \in 2 .. n : i + m <= Len(t) + 1 /\ s[m] \in Compound}
           n == Max(T)
<1>1. n \in T
  <2>1. T \in SUBSET (1 .. 4) /\ 1 \in T
    OBVIOUS
  <2> HIDE DEF T
  <2> QED BY <2>1, MaxFacts
<1>2. scan_symbol(t, i).kind = s[n]
  BY DEF scan_symbol, Token
<1>3. s[1] = t[i]
  BY DEF Spelling
<1> HIDE DEF n, s
<1>4. s[n] \in Simple \cup Compound
  <2>1. CASE n = 1
    BY <1>3, <2>1
  <2>2. CASE n # 1
    BY <1>1, <2>2
  <2> QED BY <2>1, <2>2
<1>5. scan_symbol(t, i).kind \notin {"use", "LITERAL_STRING"}
  BY <1>2, <1>4 DEF Simple, Compound
<1> QED BY <1>5 DEF Spelt

LEMMA ScanIsSpelt ==
  ASSUME NEW t, IsSeq(t), NEW from \in 1 .. Len(t) + 1
  PROVE  Spelt(t, scan(t, from))
<1> DEFINE i == RunEnd(t, from, Blank)
           c == Unit(t, i)
           k == scan(t, from)
<1>1. Len(t) \in Nat /\ DOMAIN t = 1 .. Len(t) /\ i \in from .. Len(t) + 1
  <2>1. Len(t) \in Nat /\ DOMAIN t = 1 .. Len(t)
    BY IsSeqFacts
  <2> QED BY <2>1, RunEndFacts DEF Blank, EOF
<1>2. c # EOF => i \in 1 .. Len(t) /\ c = t[i]
  BY <1>1 DEF Unit
<1>3. \/ c = EOF /\ k = Token("TOK_END", i, i)
      \/ c = CharQuote /\ k = scan_char(t, i)
      \/ c = "'" /\ k = scan_string(t, i)
      \/ c = "#" /\ Unit(t, i + 1) = "{" /\ k = Token("#{", i, i + 2)
      \/ c = "#" /\ k = scan_comment(t, i)
      \/ c # EOF /\ k = scan_number(t, i)
      \/ c \in Simple /\ k = scan_symbol(t, i)
      \/ c # EOF /\ k = scan_identifier(t, i)
  BY ScanCases
<1> SUFFICES Spelt(t, k)
  OBVIOUS
<1> HIDE DEF i, c, k
<1>4. k.kind \notin {"use", "LITERAL_STRING"} => Spelt(t, k)
  BY DEF Spelt
<1>5. CASE k \in {Token("TOK_END", i, i), scan_char(t, i), Token("#{", i, i + 2), scan_comment(t, i),
                  scan_number(t, i)}
  <2>1. Token("TOK_END", i, i).kind = "TOK_END" /\ Token("#{", i, i + 2).kind = "#{"
    BY DEF Token
  <2>2. scan_char(t, i).kind = "LITERAL_CHAR"
    BY DEF scan_char, Token
  <2>3. scan_comment(t, i).kind = "COMMENT"
    BY DEF scan_comment, Token
  <2>4. scan_number(t, i).kind \in {"LITERAL_NAT", "LITERAL_INT", "LITERAL_REAL"}
    BY DEF scan_number, Token
  <2>5. k.kind \notin {"use", "LITERAL_STRING"}
    BY <1>5, <2>1, <2>2, <2>3, <2>4
  <2> QED BY <1>4, <2>5
<1>6. CASE c = "'" /\ k = scan_string(t, i)
  <2>1. k.lo = i /\ k.kind = "LITERAL_STRING"
    BY <1>6 DEF scan_string, Token
  <2>2. i \in 1 .. Len(t) /\ t[i] = "'"
    BY <1>2, <1>6 DEF EOF
  <2> QED BY <1>1, <2>1, <2>2 DEF Spelt
<1>7. CASE c \in Simple /\ k = scan_symbol(t, i)
  <2>1. i \in 1 .. Len(t) /\ t[i] \in Simple
    BY <1>2, <1>7 DEF EOF, Simple
  <2> QED BY <1>7, <2>1, SymbolIsSpelt
<1>8. CASE c # EOF /\ k = scan_identifier(t, i)
  <2> DEFINE end == RunEnd(t, i + 1, Alnum)
  <2>1. k = Token(IF end = i + 1 /\ t[i] \in keywords THEN t[i] ELSE "IDENTIFIER", i, end)
    BY <1>8 DEF scan_identifier
  <2> HIDE DEF end
  <2>2. k.lo = i /\ k.hi = end /\ k.kind = IF end = i + 1 /\ t[i] \in keywords THEN t[i] ELSE "IDENTIFIER"
    BY <2>1 DEF Token
  <2>3. "LITERAL_STRING" \notin keywords
    BY DEF keywords
  <2> QED BY <1>1, <1>2, <1>8, <2>2, <2>3 DEF Spelt
<1> QED BY <1>3, <1>5, <1>6, <1>7, <1>8

(* So is the token that follows the comments. *)
LEMMA UncommentedIsSpelt ==
  ASSUME IsSeq(text), NEW from \in 1 .. Len(text) + 1
  PROVE  Spelt(text, Uncommented(from))
<1>1. PICK i \in from .. Len(text) + 1 : Uncommented(from) = scan(text, i)
  BY UncommentedIsScanned
<1>2. i \in 1 .. Len(text) + 1
  BY IsSeqFacts
<1> QED BY <1>1, <1>2, ScanIsSpelt

-----------------------------------------------------------------------------
(* The steps of a call, one by one. *)

LEMMA ConsumingKeeps ==
  ASSUME ParserInv, must_consume \/ KeepKind
  PROVE  Kept
<1>1. PICK what \in {"must", "oneof", "keep"} : Doing(what)
  BY DEF must_consume, KeepKind
<1>2. PICK f : Consumes(f) /\ (IsFrame(Top) => ThenFrame(f, <<>>))
  <2>1. PICK op : Consumes([Then(<<>>) EXCEPT !.op = op])
    BY DEF must_consume, KeepKind
  <2> QED BY <2>1, ThenFrames
<1>3. MayFollow(<<>>)
  BY <1>1, NothingFollows DEF Doing
<1> QED BY <1>1, <1>2, <1>3, FrameKeeps

LEMMA OptionalKeeps == ASSUME ParserInv, Optional PROVE Kept
<1>1. Doing("opt") /\ MayFollow(Item.yes) /\ MayFollow(Item.no)
  BY ItsRowsFollow DEF Optional
<1>2. PICK items : MayFollow(items) /\ (Consumes(Then(items)) \/ Continue(Then(items)))
  BY <1>1 DEF Optional
<1> QED BY <1>1, <1>2, ThenFrames, FrameKeeps

LEMMA LoopKeeps == ASSUME ParserInv, Loop PROVE Kept
<1>1. PICK what \in {"until", "while"} : Doing(what)
  BY DEF Loop
<1>2. MayFollow(<<>>) /\ MayFollow(Item.body \o <<Item>>)
  BY <1>1, NothingFollows, ItsRowsFollow DEF Doing
<1>3. PICK items : MayFollow(items) /\ (Consumes(Then(items)) \/ Continue(Then(items)))
  BY <1>2 DEF Loop
<1> QED BY <1>1, <1>3, ThenFrames, FrameKeeps

LEMMA DelimiterKeeps == ASSUME ParserInv, Delimiter PROVE Kept
<1> DEFINE must == [do |-> "must", kinds |-> Item.kinds]
<1>1. Doing("delim")
  BY DEF Delimiter
<1>2. MayFollow(<<>>) /\ MayFollow(<<must>>)
  <2>1. IsItem(must)
    BY FlatIsItem DEF Plain
  <2> HIDE DEF must
  <2> QED BY <1>1, <2>1, NothingFollows, OneFollows DEF Doing
<1>3. PICK items : MayFollow(items) /\ Continue(Then(items))
  BY <1>2 DEF Delimiter
<1> QED BY <1>1, <1>3, ThenFrames, FrameKeeps

LEMMA PrecedencesKeep ==
  ASSUME ParserInv, RightOperand \/ (expression /\ ~eof)
  PROVE  Kept
<1>1. CASE RightOperand
  <2>1. Doing("above")
    BY <1>1 DEF RightOperand
  <2>2. PICK p : Continue(Then(<<Prec(p)>>))
    BY <1>1 DEF RightOperand
  <2>3. MayFollow(<<Prec(p)>>)
    <3>1. ~OnItsRow(Top)
      BY <2>1, RestOfRow, ItemHasRows DEF OnItsRow, Doing, Item, Plain
    <3> QED BY <3>1 DEF MayFollow
  <2> QED BY <2>1, <2>2, <2>3, ThenFrames, FrameKeeps
<1>2. CASE expression /\ ~eof
  <2> DEFINE x == Prec(ASSIGNMENT)
  <2>1. Doing("expression") /\ Continue(Then(<<x>>))
    BY <1>2 DEF expression
  <2>2. IsItem(x)
    BY FlatIsItem DEF Prec, Plain
  <2> HIDE DEF x
  <2>3. MayFollow(<<x>>)
    BY <2>1, <2>2, OneFollows DEF Doing
  <2> QED BY <2>1, <2>3, ThenFrames, FrameKeeps
<1> QED BY <1>1, <1>2

LEMMA KidsKeep ==
  ASSUME ParserInv, NoChild \/ SetDefault \/ DropChild
  PROVE  Kept
<1>1. PICK what \in {"nonode", "default", "discard"} : Doing(what)
  BY DEF NoChild, SetDefault, DropChild
<1>2. PICK kids : Continue([Then(<<>>) EXCEPT !.kids = kids])
  BY DEF NoChild, SetDefault, DropChild, With
<1>3. MayFollow(<<>>)
  BY <1>1, NothingFollows DEF Doing
<1>4. PICK f : Continue(f) /\ (IsFrame(Top) => ThenFrame(f, <<>>))
  BY <1>2, ThenFrames
<1> QED BY <1>1, <1>3, <1>4, FrameKeeps

LEMMA CallsKeep == ASSUME ParserInv, CallFunction \/ precendece PROVE Kept
<1>1. CASE CallFunction
  <2>1. Doing("sub")
    BY <1>1 DEF CallFunction
  <2>2. PICK g : Pushes(<<g>>)
    BY <1>1 DEF CallFunction
  <2> QED BY <2>1, <2>2, TuplesAreSequences, PushesKeep
<1>2. CASE precendece
  <2>1. Doing("precedence")
    BY <1>2 DEF precendece
  <2>2. PICK g, h : Pushes(<<g, h>>)
    BY <1>2 DEF precendece
  <2> QED BY <2>1, <2>2, TuplesAreSequences, PushesKeep
<1> QED BY <1>1, <1>2

(* A call that ends in an error leaves no frame. *)
LEMMA StopsOrKeeps ==
  ASSUME ParserInv, parse_package \/ ConvertLiteral
  PROVE  Kept \/ stack' = <<>>
<1>1. PICK what \in {"notempty", "convert"} : Doing(what)
  BY DEF parse_package, ConvertLiteral
<1>2. MayFollow(<<>>)
  BY <1>1, NothingFollows DEF Doing
<1>3. CASE Continue(Then(<<>>))
  BY <1>1, <1>2, <1>3, ThenFrames, FrameKeeps
<1>4. Continue(Then(<<>>)) \/ stack' = <<>>
  BY DEF parse_package, ConvertLiteral, Throw
<1> QED BY <1>3, <1>4

LEMMA InfixKeeps == ASSUME ParserInv, InfixLoop PROVE Kept
<1>1. Doing("infix") /\ stack # <<>> /\ Top.todo # <<>>
  BY DEF InfixLoop, Doing
<1>2. CASE Continues(Item.prec)
  <2> DEFINE f == [Top EXCEPT !.kids = <<>>]
  <2>1. PICK g : stack' = Append(Set(f), g) /\ nodes' = nodes
    BY <1>2 DEF InfixLoop
  <2> HIDE DEF f
  <2>2. Len(stack) # 1
    BY <1>1, NestedItem
  <2>3. stack' # <<>> /\ stack'[1] = stack[1]
    BY <1>1, <2>1, <2>2, TopFacts, SetFacts DEF Replaces
  <2> QED BY <2>1, <2>3 DEF Kept
<1>3. CASE ~Continues(Item.prec)
  <2>1. Continue(Then(<<>>))
    BY <1>3 DEF InfixLoop
  <2>2. MayFollow(<<>>)
    BY <1>1, NothingFollows DEF Doing
  <2> QED BY <1>1, <2>1, <2>2, ThenFrames, FrameKeeps
<1> QED BY <1>2, <1>3

LEMMA MakingKeeps == ASSUME ParserInv, make_node \/ TupleOrGroup PROVE Kept
<1>1. CASE make_node
  <2>1. Doing("node")
    BY <1>1 DEF make_node
  <2>2. PICK kind : Makes(kind) /\ (Other(Item) => kind = Item.kind)
    BY <1>1 DEF make_node, Other
  <2> QED BY <2>1, <2>2, MakesKeeps
<1>2. CASE TupleOrGroup
  <2>1. Doing("single")
    BY <1>2 DEF TupleOrGroup
  <2>2. CASE Continue(Then(<<>>))
    <3>1. MayFollow(<<>>)
      BY <2>1, NothingFollows DEF Doing
    <3> QED BY <2>1, <2>2, <3>1, ThenFrames, FrameKeeps
  <2>3. CASE Makes("ExpressionTuple")
    BY <2>1, <2>3, MakesKeeps
  <2> QED BY <1>2, <2>2, <2>3 DEF TupleOrGroup
<1> QED BY <1>1, <1>2

LEMMA Replaced ==
  ASSUME NEW s, IsSeq(s), NEW k \in DOMAIN s, NEW e, NEW t, t = [s EXCEPT ![k] = e]
  PROVE  /\ IsSeq(t) /\ Len(t) = Len(s) /\ t[k] = e
         /\ \A i \in DOMAIN s : i # k => t[i] = s[i]
<1>1. /\ IsSeq([s EXCEPT ![k] = e]) /\ Len([s EXCEPT ![k] = e]) = Len(s)
      /\ [s EXCEPT ![k] = e][k] = e
      /\ \A i \in DOMAIN s : i # k => [s EXCEPT ![k] = e][i] = s[i]
  BY ExceptFacts, Zenon
<1> QED BY <1>1

(* The caller gets a node as a child and keeps its row. *)
LEMMA ReturnKeepsCaller == ASSUME ParserInv, ReturnNode, Len(stack) # 1 PROVE Kept
<1> DEFINE rest == SubSeq(stack, 1, Len(stack) - 1)
           node == Top.kids[1]
           m == Len(rest)
           caller == With(rest[m], node)
<1>1. stack # <<>> /\ Top.todo = <<>> /\ nodes' = nodes
  BY DEF ReturnNode
<1>2. IsSeq(stack) /\ Len(stack) \in Nat \ {0} /\ OnItsRow(stack[1])
  BY <1>1, TopFacts
<1>3. /\ IsSeq(rest) /\ Len(rest) = Len(stack) - 1 /\ DOMAIN rest = 1 .. Len(stack) - 1
      /\ \A i \in 1 .. Len(stack) - 1 : rest[i] = stack[i]
  BY <1>1, <1>2, FrontFacts
<1>4. rest # <<>> /\ m \in DOMAIN rest
  <2> HIDE DEF rest
  <2>1. m \in 1 .. Len(stack) - 1 /\ m # 0
    BY <1>2, <1>3
  <2> QED BY <1>3, <2>1, IsSeqFacts
<1>5. stack' = [rest EXCEPT ![m] = caller]
  BY <1>4 DEF ReturnNode
<1>6. m = 1 => caller.first = stack[1].first /\ caller.todo = stack[1].todo
  <2> SUFFICES ASSUME m = 1 PROVE caller.first = stack[1].first /\ caller.todo = stack[1].todo
    OBVIOUS
  <2>1. rest[m] = stack[1]
    <3> HIDE DEF rest
    <3> QED BY <1>2, <1>3
  <2>2. PICK t, k, i, o : stack[1] = [todo |-> t, kids |-> k, first |-> i, op |-> o]
    BY <1>2 DEF OnItsRow, IsFrame
  <2>3. ASSUME NEW x, NEW kids, x = [todo |-> t, kids |-> k, first |-> i, op |-> o]
        PROVE  LET y == [x EXCEPT !.kids = kids] IN y.todo = x.todo /\ y.first = x.first
    BY <2>3
  <2>4. PICK kids : caller = [stack[1] EXCEPT !.kids = kids]
    BY <2>1 DEF With
  <2> HIDE DEF caller
  <2>5. \A x, new : x = stack[1] =>
          [x EXCEPT !.kids = new].todo = x.todo /\ [x EXCEPT !.kids = new].first = x.first
    BY <2>2, <2>3
  <2> QED BY <2>4, <2>5
<1> HIDE DEF caller
<1>7. /\ IsSeq(stack') /\ Len(stack') = m /\ stack'[m] = caller
      /\ \A i \in DOMAIN rest : i # m => stack'[i] = rest[i]
  <2>1. m = Len(rest) /\ IsSeq(rest) /\ m \in DOMAIN rest
    BY <1>3, <1>4
  <2> HIDE DEF rest, m
  <2>2. stack' = [rest EXCEPT ![m] = caller]
    BY <1>5
  <2>3. IsSeq(stack')
    BY <2>1, <2>2, Replaced
  <2>4. Len(stack') = Len(rest)
    BY <2>1, <2>2, Replaced
  <2>5. stack'[m] = caller
    BY <2>1, <2>2, Replaced
  <2>6. ASSUME NEW i \in DOMAIN rest, i # m PROVE stack'[i] = rest[i]
    BY <2>1, <2>2, <2>6, Replaced
  <2> QED BY <2>1, <2>3, <2>4, <2>5, <2>6
<1>8. stack' # <<>> /\ stack'[1].first = stack[1].first /\ stack'[1].todo = stack[1].todo
  <2>1. stack' # <<>>
    BY <1>2, <1>3, <1>7, IsSeqFacts
  <2>2. CASE m = 1
    BY <1>6, <1>7, <2>1, <2>2
  <2>3. CASE m # 1
    <3>1. 1 \in DOMAIN rest /\ rest[1] = stack[1]
      BY <1>2, <1>3
    <3> QED BY <1>7, <2>1, <2>3, <3>1
  <2> QED BY <2>2, <2>3
<1>9. stack[1].todo # <<>>
  BY <1>2 DEF OnItsRow
<1> QED BY <1>1, <1>8, <1>9 DEF Kept, OtherRow

(* Until the call of the declaration returns, it is on its row. *)
LEMMA CallKeeps ==
  ASSUME ParserInv, stack # <<>>, ParserStep, ~(ReturnNode /\ Len(stack) = 1)
  PROVE  Kept \/ stack' = <<>>
<1>1. ~Declaration /\ ~Recover
  BY DEF Declaration, Recover, ParserInv, Skipping
<1>2. must_match_fails \/ precendece_NoRule => stack' = <<>>
  BY DEF must_match_fails, precendece_NoRule, Throw
<1>3. expression => (expression /\ ~eof) \/ stack' = <<>>
  BY DEF expression, Throw
<1>4. precendece_NullPrefix => Kept
  BY DEF precendece_NullPrefix, Kept
<1> QED
  BY <1>1, <1>2, <1>3, <1>4, ConsumingKeeps, OptionalKeeps, LoopKeeps, DelimiterKeeps,
     PrecedencesKeep, KidsKeep, CallsKeep, StopsOrKeeps, InfixKeeps, MakingKeeps, ReturnKeepsCaller
  DEF ParserStep

-----------------------------------------------------------------------------
(* What the parser takes for an import begins with `use` and a string that *)
(* is not empty.                                                           *)

NamesImport(k) ==
  /\ k \in DOMAIN tokens /\ k + 1 \in DOMAIN tokens
  /\ tokens[k].kind = "use" /\ tokens[k + 1].kind = "LITERAL_STRING"
  /\ Content(tokens[k + 1]) # <<>>

OnImport(f) ==
  LET r == declaration_import IN
    \/ f.todo = r /\ f.first = Len(tokens)
    \/ f.todo = Tail(r) /\ f.first + 1 = Len(tokens) /\ tokens[f.first].kind = "use"
    \/ /\ f.todo = Tail(Tail(r)) /\ f.first + 2 = Len(tokens)
       /\ tokens[f.first].kind = "use" /\ tokens[f.first + 1].kind = "LITERAL_STRING"

TreeNamed ==
  \A i \in DOMAIN tree : nodes[tree[i]].kind = "ModuleImport" => NamesImport(nodes[tree[i]].lo)
CallNamed ==
  stack # <<>> =>
    \/ OtherRow(stack[1], nodes)
    \/ NamesImport(stack[1].first)
    \/ Len(stack) = 1 /\ OnImport(stack[1])
TokensSpelt == \A i \in DOMAIN tokens : Spelt(text, tokens[i])

ImportsNamed == TreeNamed /\ CallNamed /\ TokensSpelt

LEMMA JoinedHead ==
  ASSUME NEW r, IsSeq(r), r # <<>>, NEW s, IsSeq(s)
  PROVE  /\ IsSeq(r \o s) /\ r \o s # <<>>
         /\ Head(r \o s) = Head(r) /\ Tail(r \o s) = Tail(r) \o s
<1> DEFINE S == {s[i] : i \in DOMAIN s} \cup {r[i] : i \in DOMAIN r}
<1>1. r \in Seq(S) /\ s \in Seq(S)
  <2>1. s \in [1 .. Len(s) -> S] /\ Len(s) \in Nat
    BY IsSeqFacts, s \in Seq({s[i] : i \in DOMAIN s}) DEF IsSeq
  <2>2. r \in [1 .. Len(r) -> S] /\ Len(r) \in Nat
    BY IsSeqFacts, r \in Seq({r[i] : i \in DOMAIN r}) DEF IsSeq
  <2> QED BY <2>1, <2>2
<1> HIDE DEF S
<1>2. r \o s # <<>> /\ Head(r \o s) = Head(r) /\ Tail(r \o s) = Tail(r) \o s
  BY <1>1
<1>3. IsSeq(r \o s)
  BY ConcatFacts
<1> QED BY <1>2, <1>3

(* The row of an import. *)
LEMMA ImportRow ==
  LET r == declaration_import IN
  /\ IsSeq(r) /\ r # <<>> /\ Head(r) = Must("use")
  /\ IsSeq(Tail(r)) /\ Tail(r) # <<>> /\ Head(Tail(r)) = Must("LITERAL_STRING")
  /\ IsSeq(Tail(Tail(r))) /\ Tail(Tail(r)) # <<>> /\ Head(Tail(Tail(r))) = NotEmpty
<1> DEFINE x == Opt("/", <<Identifier, While(",", <<Identifier>>)>>, <<>>)
           y == Must(";")
           z == Node("ModuleImport")
           s == <<x, y, z>>
           a == <<Must("use")>>
           p == a \o Package
<1>1. declaration_import = p \o s
  BY DEF declaration_import
<1>2. IsSeq(s)
  <2> HIDE DEF x, y, z
  <2> QED BY TuplesAreSequences
<1>3. /\ IsSeq(a) /\ a # <<>> /\ Head(a) = Must("use") /\ Tail(a) = <<>>
      /\ \A b, c : Head(<<b, c>>) = b /\ Tail(<<b, c>>) = <<c>>
      /\ \A c : <<c>> # <<>> /\ Head(<<c>>) = c
  <2>1. \A u : <<u>> # <<>> /\ Head(<<u>>) = u /\ Tail(<<u>>) = <<>>
    OBVIOUS
  <2>2. \A b, c : Head(<<b, c>>) = b /\ Tail(<<b, c>>) = <<c>>
    OBVIOUS
  <2> QED BY <2>1, <2>2, TuplesAreSequences
<1>4. /\ IsSeq(Package) /\ Package # <<>> /\ Head(Package) = Must("LITERAL_STRING")
      /\ Tail(Package) = <<NotEmpty>>
  BY <1>3, TuplesAreSequences DEF Package
<1> HIDE DEF s, a
<1>5. IsSeq(p) /\ p # <<>> /\ Head(p) = Must("use") /\ Tail(p) = Package
  <2>1. /\ IsSeq(p) /\ p # <<>> /\ Head(p) = Head(a) /\ Tail(p) = Tail(a) \o Package
    BY <1>3, <1>4, JoinedHead
  <2> QED BY <1>3, <1>4, <2>1, NothingJoined
<1> HIDE DEF p
<1>6. /\ IsSeq(p \o s) /\ p \o s # <<>> /\ Head(p \o s) = Must("use")
      /\ Tail(p \o s) = Package \o s
  BY <1>2, <1>5, JoinedHead
<1>7. /\ IsSeq(Package \o s) /\ Package \o s # <<>> /\ Head(Package \o s) = Must("LITERAL_STRING")
      /\ Tail(Package \o s) = <<NotEmpty>> \o s
  BY <1>2, <1>4, JoinedHead
<1>8. LET t == <<NotEmpty>> \o s IN IsSeq(t) /\ t # <<>> /\ Head(t) = NotEmpty
  BY <1>2, <1>3, TuplesAreSequences, JoinedHead
<1> QED BY <1>1, <1>6, <1>7, <1>8

(* Tokens are only appended. *)
LEMMA NamesImportStays ==
  ASSUME text' = text, Extends(tokens, tokens'), NEW k, NamesImport(k)
  PROVE  NamesImport(k)'
<1>1. \A i \in DOMAIN tokens : i \in DOMAIN tokens' /\ tokens'[i] = tokens[i]
  BY DEF Extends
<1>2. \A t : Content(t)' = Content(t)
  BY DEF Content
<1> QED BY <1>1, <1>2 DEF NamesImport

(* What a step of the parser leaves, and what it adds. *)
LEMMA StepGrows ==
  ASSUME ParserInv, ParserStep
  PROVE  /\ text' = text /\ (tokens' = tokens \/ advance) /\ Extends(tokens, tokens')
         /\ Extends(nodes, nodes') /\ (tree' = tree \/ ReturnNode)
<1>1. IsSeq(tokens) /\ IsSeq(nodes) /\ TokensInText /\ NoTextIsLost
  BY DEF ParserInv, Sequences
<1>2. /\ text' = text /\ (tokens' = tokens \/ advance) /\ (tree' = tree \/ ReturnNode)
      /\ nodes' = nodes \/ \E kind : nodes' = Append(nodes, NewNode(kind, Top.kids))
  BY DEF ParserStep, Declaration, must_consume, must_match_fails, parse_package, KeepKind,
     Optional, Loop, Delimiter, CallFunction, expression, RightOperand, precendece,
     precendece_NoRule, precendece_NullPrefix, InfixLoop, make_node, TupleOrGroup, ConvertLiteral,
     NoChild, SetDefault, DropChild, ReturnNode, Recover, Consumes, Continue, Throw, Pushes, Makes
<1>3. Extends(tokens, tokens')
  BY <1>1, <1>2, TextStays
<1>4. Extends(nodes, nodes')
  BY <1>1, <1>2, SameExtends, AppendExtends
<1> QED BY <1>2, <1>3, <1>4

LEMMA AppendedAt ==
  ASSUME NEW s, IsSeq(s), NEW e, NEW t, t = Append(s, e)
  PROVE  /\ IsSeq(t) /\ Len(t) = Len(s) + 1 /\ DOMAIN t = 1 .. Len(s) + 1
         /\ t[Len(s) + 1] = e /\ \A i \in DOMAIN s : t[i] = s[i]
  BY AppendFacts

LEMMA TokensStaySpelt ==
  ASSUME ParserInv, TokensSpelt, text' = text, tokens' = tokens \/ advance
  PROVE  TokensSpelt'
<1>1. CASE tokens' = tokens
  BY <1>1 DEF TokensSpelt, Spelt
<1>2. CASE advance
  <2> DEFINE k == Uncommented(peek.hi)
  <2>1. /\ IsSeq(tokens) /\ Len(tokens) \in Nat /\ DOMAIN tokens = 1 .. Len(tokens)
        /\ IsSeq(text) /\ Len(text) \in Nat /\ Len(tokens) # 0
    BY IsSeqFacts DEF ParserInv, Sequences, TokensInText
  <2>2. peek.hi \in 1 .. Len(text) + 1
    <3>1. Len(tokens) \in DOMAIN tokens
      BY <2>1
    <3> QED BY <2>1, <3>1 DEF ParserInv, TokensInText, peek
  <2>3. Spelt(text, k)
    BY <2>1, <2>2, UncommentedIsSpelt
  <2>4. tokens' = Append(tokens, k)
    BY <1>2 DEF advance
  <2> HIDE DEF k
  <2>5. /\ DOMAIN tokens' = 1 .. Len(tokens) + 1 /\ tokens'[Len(tokens) + 1] = k
        /\ \A i \in DOMAIN tokens : tokens'[i] = tokens[i]
    <3>1. DOMAIN tokens' = 1 .. Len(tokens) + 1
      BY <2>1, <2>4, AppendedAt
    <3>2. tokens'[Len(tokens) + 1] = k
      BY <2>1, <2>4, AppendedAt
    <3>3. ASSUME NEW i \in DOMAIN tokens PROVE tokens'[i] = tokens[i]
      <4>1. IsSeq(tokens)
        BY <2>1
      <4> QED BY <2>4, <4>1, AppendedAt
    <3> QED BY <3>1, <3>2, <3>3
  <2>6. ASSUME NEW i \in 1 .. Len(tokens) + 1 PROVE Spelt(text, tokens'[i])
    <3>1. CASE i = Len(tokens) + 1
      BY <2>3, <2>5, <3>1
    <3>2. CASE i # Len(tokens) + 1
      BY <2>1, <2>5, <3>2 DEF TokensSpelt
    <3> QED BY <3>1, <3>2
  <2> QED BY <2>5, <2>6 DEF TokensSpelt, Spelt
<1> QED BY <1>1, <1>2

(* A declaration that begins with `use` is on the row of an import. *)
LEMMA DeclarationNamed ==
  ASSUME ParserInv, Declaration
  PROVE  CallNamed'
<1> DEFINE k == peek.kind
           g == Called(declaration(k))
<1>1. stack' = <<g>> /\ tokens' = tokens /\ nodes' = nodes
  BY DEF Declaration
<1>2. g.todo = declaration(k) /\ g.first = Len(tokens)
  BY DEF Called, Frame
<1> HIDE DEF g
<1>3. Len(stack') = 1 /\ stack'[1] = g
  BY <1>1
<1>4. CASE k = "use"
  <2>1. declaration(k) = declaration_import
    BY <1>4 DEF declaration
  <2> QED BY <1>1, <1>2, <1>3, <2>1 DEF CallNamed, OnImport
<1>5. CASE k # "use"
  <2>1. OtherRow(g, nodes)
    BY <1>2, <1>5, OthersEndOther DEF OtherRow, EndsOther
  <2> QED BY <1>1, <1>3, <2>1 DEF CallNamed
<1> QED BY <1>4, <1>5

(* The first three items of an import. *)
LEMMA ImportGoesOn ==
  ASSUME ParserInv, Len(stack) = 1, stack # <<>>, OnImport(stack[1]), ParserStep
  PROVE  \/ stack' = <<>>
         \/ NamesImport(stack[1].first)'
         \/ Len(stack') = 1 /\ OnImport(stack[1])'
<1> DEFINE r == declaration_import
           k == stack[1].first
           n == Len(tokens)
<1>1. Top = stack[1] /\ OnItsRow(Top) /\ Top.todo # <<>>
  <2>1. stack[1].todo # <<>>
    BY ImportRow DEF OnImport
  <2> QED BY <2>1, TopFacts DEF HasItsNode, HoldsNode
<1>2. n \in Nat /\ DOMAIN tokens = 1 .. n /\ k \in 1 .. n /\ IsSeq(tokens)
  <2>1. n \in Nat /\ DOMAIN tokens = 1 .. n /\ IsSeq(tokens)
    BY IsSeqFacts DEF ParserInv, Sequences
  <2>2. LastEnd \in 1 .. n /\ k \in LastEnd .. n
    BY DEF ParserInv, Declaring, ClosedGap
  <2> QED BY <2>1, <2>2
<1>3. Item.do = "must" => must_consume \/ stack' = <<>>
  BY <1>1 DEF ParserStep, Declaration, must_consume, must_match_fails, parse_package, KeepKind,
     Optional, Loop, Delimiter, CallFunction, expression, RightOperand, precendece,
     precendece_NoRule, precendece_NullPrefix, InfixLoop, make_node, TupleOrGroup, ConvertLiteral,
     NoChild, SetDefault, DropChild, ReturnNode, Recover, Throw, Doing, ParserInv, Skipping
<1>4. Item.do = "notempty" => parse_package
  BY <1>1 DEF ParserStep, Declaration, must_consume, must_match_fails, parse_package, KeepKind,
     Optional, Loop, Delimiter, CallFunction, expression, RightOperand, precendece,
     precendece_NoRule, precendece_NullPrefix, InfixLoop, make_node, TupleOrGroup, ConvertLiteral,
     NoChild, SetDefault, DropChild, ReturnNode, Recover, Throw, Doing, ParserInv, Skipping
<1>5. ASSUME must_consume
      PROVE  /\ Len(stack') = 1 /\ stack'[1].todo = Tail(Top.todo) /\ stack'[1].first = k
             /\ Len(tokens') = n + 1 /\ \A i \in 1 .. n : tokens'[i] = tokens[i]
             /\ tokens[n].kind \in Item.kinds
  <2>1. PICK f : Consumes(f) /\ ThenFrame(f, <<>>)
    <3>1. PICK op : Consumes([Then(<<>>) EXCEPT !.op = op])
      BY <1>5 DEF must_consume
    <3> QED BY <1>1, <3>1, ThenFrames DEF OnItsRow
  <2>2. stack' = Set(f) /\ advance
    BY <2>1 DEF Consumes
  <2>3. f.todo = Tail(Top.todo) /\ f.first = k
    <3>1. f.todo = <<>> \o Tail(Top.todo) /\ f.first = Top.first
      BY <2>1 DEF ThenFrame
    <3>2. IsSeq(Tail(Top.todo))
      BY <1>1, TailFacts DEF OnItsRow, IsRow
    <3> QED BY <1>1, <3>1, <3>2, NothingJoined
  <2>4. Len(stack') = 1 /\ stack'[1] = f
    BY <2>2, TopFacts, SetFacts DEF Replaces
  <2>5. Len(tokens') = n + 1 /\ \A i \in 1 .. n : tokens'[i] = tokens[i]
    BY <1>2, <2>2, AppendFacts DEF advance
  <2>6. tokens[n].kind \in Item.kinds
    BY <1>5 DEF must_consume, peek
  <2> QED BY <2>3, <2>4, <2>5, <2>6
<1>6. CASE stack[1].todo = r /\ k = n
  <2>1. Item.do = "must" /\ Item.kinds = {"use"}
    BY <1>1, <1>6, ImportRow DEF Item, Must
  <2>2. CASE must_consume
    BY <1>1, <1>2, <1>5, <1>6, <2>1, <2>2 DEF OnImport
  <2> QED BY <1>3, <2>1, <2>2
<1>7. CASE stack[1].todo = Tail(r) /\ k + 1 = n /\ tokens[k].kind = "use"
  <2>1. Item.do = "must" /\ Item.kinds = {"LITERAL_STRING"}
    <3>1. Item = Must("LITERAL_STRING")
      BY <1>1, <1>7, ImportRow DEF Item
    <3> QED BY <3>1 DEF Must
  <2>2. CASE must_consume
    BY <1>1, <1>2, <1>5, <1>7, <2>1, <2>2 DEF OnImport
  <2> QED BY <1>3, <2>1, <2>2
<1>8. CASE /\ stack[1].todo = Tail(Tail(r)) /\ k + 2 = n
           /\ tokens[k].kind = "use" /\ tokens[k + 1].kind = "LITERAL_STRING"
  <2>1. parse_package
    BY <1>1, <1>4, <1>8, ImportRow DEF Item, NotEmpty
  <2>2. previous = tokens[k + 1]
    <3>1. n - 1 = k + 1
      BY <1>2, <1>8
    <3> QED BY <3>1 DEF previous
  <2>3. CASE Content(previous) # <<>>
    <3>1. NamesImport(k) /\ Continue(Then(<<>>))
      BY <1>2, <1>8, <2>1, <2>2, <2>3 DEF NamesImport, parse_package
    <3>2. stack' = <<>> \/ stack'[1].first = k
      BY <2>1, StopsOrKeeps DEF Kept
    <3>3. ASSUME NEW first, first = k PROVE NamesImport(first)'
      <4>1. text' = text /\ tokens' = tokens
        BY <3>1 DEF Continue
      <4>2. Extends(tokens, tokens')
        BY <1>2, <4>1, SameExtends
      <4>3. NamesImport(first)
        BY <3>1, <3>3
      <4> QED BY <4>1, <4>2, <4>3, NamesImportStays
    <3>4. \A first : first = k => NamesImport(first)'
      BY <3>3
    <3>5. stack'[1].first = k => NamesImport(stack[1].first)'
      <4> HIDE DEF k
      <4> QED BY <3>4 DEF NamesImport, Content
    <3> QED BY <3>2, <3>5
  <2>4. CASE ~(Content(previous) # <<>>)
    BY <2>1, <2>4 DEF parse_package, Throw
  <2> QED BY <2>3, <2>4
<1> QED BY <1>6, <1>7, <1>8 DEF OnImport

LEMMA TreeStaysNamed ==
  ASSUME TreeOfNodes, TreeNamed, text' = text, Extends(tokens, tokens'), Extends(nodes, nodes'),
         tree' = tree
  PROVE  TreeNamed'
<1> SUFFICES ASSUME NEW i \in DOMAIN tree', nodes'[tree'[i]].kind = "ModuleImport"
             PROVE  \A k : k = nodes'[tree'[i]].lo => NamesImport(k)'
  BY DEF TreeNamed, NamesImport, Content
<1>1. tree'[i] = tree[i] /\ tree[i] \in DOMAIN nodes /\ i \in DOMAIN tree
  BY DEF TreeOfNodes
<1>2. nodes'[tree'[i]] = nodes[tree[i]]
  BY <1>1 DEF Extends
<1>3. NamesImport(nodes[tree[i]].lo)
  BY <1>1, <1>2 DEF TreeNamed
<1>4. ASSUME NEW k, k = nodes[tree[i]].lo PROVE NamesImport(k)'
  <2>1. NamesImport(k)
    BY <1>3, <1>4
  <2> QED BY <2>1, NamesImportStays
<1> QED BY <1>2, <1>4

LEMMA CallStaysNamed ==
  ASSUME ParserInv, CallNamed, ParserStep, text' = text, Extends(tokens, tokens'), stack # <<>>,
         ~(ReturnNode /\ Len(stack) = 1)
  PROVE  CallNamed'
<1>1. Kept \/ stack' = <<>>
  BY CallKeeps
<1>2. CASE stack' = <<>>
  BY <1>2 DEF CallNamed
<1>3. CASE Kept /\ OtherRow(stack[1], nodes)
  <2>1. OtherRow(stack'[1], nodes')
    BY <1>3 DEF Kept
  <2> QED BY <2>1 DEF CallNamed
<1>4. CASE Kept /\ NamesImport(stack[1].first)
  <2>1. ASSUME NEW k, k = stack[1].first PROVE NamesImport(k)'
    <3>1. NamesImport(k)
      BY <1>4, <2>1
    <3> QED BY <3>1, NamesImportStays
  <2>2. \A k : k = stack'[1].first => NamesImport(k)'
    BY <1>4, <2>1 DEF Kept
  <2>3. NamesImport(stack[1].first)'
    BY <2>2 DEF NamesImport, Content
  <2> QED BY <2>3 DEF CallNamed
<1>5. CASE Len(stack) = 1 /\ OnImport(stack[1])
  BY <1>5, ImportGoesOn DEF CallNamed
<1> QED BY <1>1, <1>2, <1>3, <1>4, <1>5 DEF CallNamed

(* A ModuleImport that a declaration returns names its import. *)
LEMMA ReturnsNamed ==
  ASSUME ParserInv, TreeNamed, CallNamed, ReturnNode, Len(stack) = 1
  PROVE  TreeNamed' /\ CallNamed'
<1> DEFINE node == Top.kids[1]
           rest == SubSeq(stack, 1, Len(stack) - 1)
<1>1. stack # <<>> /\ Top.todo = <<>> /\ text' = text /\ tokens' = tokens /\ nodes' = nodes
  BY DEF ReturnNode
<1>2. IsSeq(stack) /\ Top = stack[1] /\ HasItsNode(Top)
  BY <1>1, TopFacts DEF OnItsRow
<1>3. stack' = <<>> /\ tree' = Append(tree, node)
  <2>1. Len(rest) = 0 /\ IsSeq(rest)
    <3>1. IsSeq(rest) /\ Len(rest) = Len(stack) - 1
      BY <1>1, <1>2, FrontFacts
    <3> QED BY <3>1
  <2>2. rest = <<>>
    <3> HIDE DEF rest
    <3> QED BY <2>1, IsSeqFacts
  <2> QED BY <2>2 DEF ReturnNode
<1>4. nodes[node].lo = Top.first
  BY <1>2 DEF HasItsNode, HoldsNode
<1>5. nodes[node].kind = "ModuleImport" => NamesImport(nodes[node].lo)
  <2>1. ~OnImport(stack[1])
    BY <1>1, <1>2, ImportRow DEF OnImport
  <2>2. OtherRow(stack[1], nodes) => nodes[node].kind # "ModuleImport"
    BY <1>1, <1>2 DEF OtherRow
  <2> QED BY <1>1, <1>2, <1>4, <2>1, <2>2 DEF CallNamed
<1> HIDE DEF node
<1>6. IsSeq(tree)
  BY DEF ParserInv, Sequences
<1>7. Len(tree) \in Nat /\ DOMAIN tree = 1 .. Len(tree)
  BY <1>6, IsSeqFacts
<1>8. DOMAIN tree' = 1 .. Len(tree) + 1
  BY <1>3, <1>6, AppendedAt
<1>9. ASSUME NEW i \in 1 .. Len(tree) + 1 PROVE tree'[i] = node \/ (i \in DOMAIN tree /\ tree'[i] = tree[i])
  <2>1. CASE i = Len(tree) + 1
    <3>1. tree'[Len(tree) + 1] = node
      BY <1>3, <1>6, AppendedAt
    <3> QED BY <2>1, <3>1
  <2>2. CASE i # Len(tree) + 1
    <3>1. i \in DOMAIN tree
      BY <1>7, <2>2
    <3> QED BY <1>3, <1>6, <3>1, AppendedAt
  <2> QED BY <2>1, <2>2
<1>10. TreeNamed'
  <2>1. \A i \in DOMAIN tree' :
          nodes[tree'[i]].kind = "ModuleImport" => NamesImport(nodes[tree'[i]].lo)
    BY <1>5, <1>8, <1>9 DEF TreeNamed
  <2> QED BY <1>1, <2>1 DEF TreeNamed, NamesImport, Content
<1> QED BY <1>3, <1>10 DEF CallNamed

(* No step of the parser changes that. *)
LEMMA StepNamed ==
  ASSUME ParserInv, ImportsNamed, ParserStep \/ UNCHANGED parserVars
  PROVE  ImportsNamed'
<1>1. CASE UNCHANGED parserVars
  <2>1. UNCHANGED <<text, tokens, stack, nodes, tree>>
    BY <1>1 DEF parserVars
  <2>2. TreeNamed'
    BY <2>1 DEF ImportsNamed, TreeNamed, NamesImport, Content
  <2>3. CallNamed'
    BY <2>1 DEF ImportsNamed, CallNamed, NamesImport, Content, OtherRow, OnImport
  <2>4. TokensSpelt'
    BY <2>1 DEF ImportsNamed, TokensSpelt, Spelt
  <2> QED BY <2>2, <2>3, <2>4 DEF ImportsNamed
<1>2. CASE ParserStep
  <2>1. TreeNamed /\ CallNamed /\ TokensSpelt /\ TreeOfNodes
    BY DEF ImportsNamed, ParserInv
  <2>2. /\ text' = text /\ (tokens' = tokens \/ advance) /\ Extends(tokens, tokens')
        /\ Extends(nodes, nodes') /\ (tree' = tree \/ ReturnNode)
    BY <1>2, StepGrows
  <2>3. TokensSpelt'
    BY <2>1, <2>2, TokensStaySpelt
  <2>4. CASE ReturnNode /\ Len(stack) = 1
    BY <2>1, <2>3, <2>4, ReturnsNamed DEF ImportsNamed
  <2>5. CASE ~(ReturnNode /\ Len(stack) = 1)
    <3>1. tree' = tree
      <4>1. ASSUME ReturnNode PROVE tree' = tree
        <5> DEFINE rest == SubSeq(stack, 1, Len(stack) - 1)
        <5>1. stack # <<>>
          BY <4>1 DEF ReturnNode
        <5>2. Len(rest) = Len(stack) - 1 /\ Len(stack) \in Nat \ {0}
          BY <5>1, TopFacts, FrontFacts
        <5>3. rest # <<>>
          BY <2>5, <4>1, <5>2
        <5> QED BY <4>1, <5>3 DEF ReturnNode
      <4> QED BY <2>2, <4>1
    <3>2. TreeNamed'
      BY <2>1, <2>2, <3>1, TreeStaysNamed
    <3>3. CASE stack # <<>>
      <4>1. CallNamed'
        BY <1>2, <2>1, <2>2, <2>5, <3>3, CallStaysNamed
      <4> QED BY <2>3, <3>2, <4>1 DEF ImportsNamed
    <3>4. CASE stack = <<>>
      <4>1. Declaration \/ stack' = <<>>
        BY <1>2, <3>4 DEF ParserStep, must_consume, must_match_fails, parse_package, KeepKind,
           Optional, Loop, Delimiter, CallFunction, expression, RightOperand, precendece,
           precendece_NoRule, precendece_NullPrefix, InfixLoop, make_node, TupleOrGroup,
           ConvertLiteral, NoChild, SetDefault, DropChild, ReturnNode, Recover, Doing
      <4>2. CallNamed'
        BY <4>1, DeclarationNamed DEF CallNamed
      <4> QED BY <2>3, <3>2, <4>2 DEF ImportsNamed
    <3> QED BY <3>3, <3>4
  <2> QED BY <2>4, <2>5
<1> QED BY <1>1, <1>2

(* It holds when a source is begun. *)
LEMMA BeginNamed ==
  ASSUME NEW units, IsSeq(units), Begin(units)
  PROVE  ImportsNamed'
<1> DEFINE k == scan(units, 1)
<1>1. text' = units /\ tokens' = <<k>> /\ stack' = <<>> /\ nodes' = <<>> /\ tree' = <<>>
  BY DEF Begin, Holds
<1>2. Spelt(units, k)
  <2>1. 1 \in 1 .. Len(units) + 1
    BY IsSeqFacts
  <2> QED BY <2>1, ScanIsSpelt
<1> HIDE DEF k
<1>3. \A i \in DOMAIN <<k>> : Spelt(units, <<k>>[i])
  <2>1. DOMAIN <<k>> = {1} /\ <<k>>[1] = k
    OBVIOUS
  <2> QED BY <1>2, <2>1
<1>4. TokensSpelt'
  BY <1>1, <1>3 DEF TokensSpelt, Spelt
<1>5. TreeNamed' /\ CallNamed'
  BY <1>1 DEF TreeNamed, CallNamed
<1> QED BY <1>4, <1>5 DEF ImportsNamed

-----------------------------------------------------------------------------
(* The regular expression on a text.                                       *)

LEMMA RunEndIs ==
  ASSUME NEW t, IsSeq(t), NEW i \in 1 .. Len(t) + 1, NEW e \in i .. Len(t) + 1, NEW S,
         Unit(t, e) \notin S, \A j \in i .. e - 1 : Unit(t, j) \in S
  PROVE  RunEnd(t, i, S) = e
<1> DEFINE T == {j \in i .. Len(t) + 1 : Unit(t, j) \notin S}
           m == Min(T)
<1>1. Len(t) \in Nat
  BY IsSeqFacts
<1>2. T \in SUBSET Nat /\ e \in T
  BY <1>1
<1>3. m \in T /\ \A y \in T : m <= y
  <2> HIDE DEF T
  <2> QED BY <1>2, MinFacts
<1>4. m \in i .. Len(t) + 1 /\ m <= e /\ Unit(t, m) \notin S
  BY <1>2, <1>3
<1> HIDE DEF m, T
<1>5. ~(m < e)
  <2> SUFFICES ASSUME m < e PROVE FALSE
    OBVIOUS
  <2>1. m \in i .. e - 1
    BY <1>1, <1>4
  <2> QED BY <1>4, <2>1
<1>6. m = e
  BY <1>1, <1>4, <1>5
<1> QED BY <1>6 DEF RunEnd, m, T

LEMMA FindEnds ==
  ASSUME NEW t, IsSeq(t), NEW i \in 1 .. Len(t) + 1, NEW u
  PROVE  /\ Find(t, i, u) \in i .. Len(t) + 1 /\ Unit(t, Find(t, i, u)) \in {u, EOF}
         /\ \A j \in i .. Len(t) + 1 : Unit(t, j) \in {u, EOF} => Find(t, i, u) <= j
<1> DEFINE T == {j \in i .. Len(t) + 1 : Unit(t, j) \in {u, EOF}}
           m == Min(T)
<1>1. Len(t) \in Nat
  BY IsSeqFacts
<1>2. T \in SUBSET Nat /\ Len(t) + 1 \in T
  BY <1>1 DEF Unit
<1>3. m \in T /\ \A y \in T : m <= y
  <2> HIDE DEF T
  <2> QED BY <1>2, MinFacts
<1>4. Find(t, i, u) = m
  BY DEF Find
<1> HIDE DEF m
<1> QED BY <1>3, <1>4

(* Looked for from further on, the end of the line is the same. *)
LEMMA FindMoves ==
  ASSUME NEW t, IsSeq(t), NEW i \in 1 .. Len(t) + 1, NEW u, NEW j \in i .. Find(t, i, u)
  PROVE  Find(t, j, u) = Find(t, i, u)
<1> DEFINE e == Find(t, i, u)
           f == Find(t, j, u)
<1>1. Len(t) \in Nat
  BY IsSeqFacts
<1>2. /\ e \in i .. Len(t) + 1 /\ Unit(t, e) \in {u, EOF}
      /\ \A k \in i .. Len(t) + 1 : Unit(t, k) \in {u, EOF} => e <= k
  BY FindEnds
<1>3. j \in 1 .. Len(t) + 1
  <2> HIDE DEF e
  <2>1. j \in i .. e
    BY DEF e
  <2> QED BY <1>1, <1>2, <2>1
<1>4. /\ f \in j .. Len(t) + 1 /\ Unit(t, f) \in {u, EOF}
      /\ \A k \in j .. Len(t) + 1 : Unit(t, k) \in {u, EOF} => f <= k
  BY <1>3, FindEnds
<1>5. j \in i .. e
  OBVIOUS
<1> HIDE DEF e, f
<1>6. f \in i .. Len(t) + 1 /\ e \in j .. Len(t) + 1
  BY <1>1, <1>2, <1>3, <1>4, <1>5
<1>7. e <= f /\ f <= e
  BY <1>2, <1>4, <1>6
<1>8. e = f
  BY <1>1, <1>6, <1>7
<1> QED BY <1>8 DEF e, f

LEMMA PairFacts ==
  ASSUME NEW a \in Nat, NEW b \in Nat, a < b
  PROVE  Min({a, b}) = a /\ Max({a, b}) = b
<1>1. Min({a, b}) = a
  <2>1. {a, b} \in SUBSET Nat /\ {a, b} # {}
    OBVIOUS
  <2>2. Min({a, b}) \in {a, b} /\ \A y \in {a, b} : Min({a, b}) <= y
    BY <2>1, MinFacts
  <2> QED BY <2>2
<1>2. Max({a, b}) = b
  <2>1. \E x \in {a, b} : \A y \in {a, b} : x >= y
    OBVIOUS
  <2>2. Max({a, b}) \in {a, b} /\ \A y \in {a, b} : Max({a, b}) >= y
    BY <2>1 DEF Max
  <2> QED BY <2>2
<1> QED BY <1>1, <1>2

(* A `use` that begins its line and has two quotes behind it. *)
Spaces(t, from, to) == \A j \in from .. to - 1 : t[j] = " "

LEMMA SpacesFacts ==
  ASSUME NEW t, NEW from, NEW to, Spaces(t, from, to), NEW j \in from .. to - 1
  PROVE  t[j] = " "
  BY DEF Spaces

(* A `use` that stands alone on its line matches, and what is found is     *)
(* what stands between its quotes.                                         *)
LEMMA PlainUseMatches ==
  ASSUME NEW t, IsSeq(t), NEW use \in 1 .. Len(t), t[use] = "use",
         NEW open \in 1 .. Len(t), t[open] = "'", NEW close \in Nat, open < close,
         NEW line \in 1 .. use, LineStart(t, line),
         Spaces(t, line, use), Spaces(t, use + 1, open), Quotes(t, use) = {open, close}
  PROVE  MatchesAt(t, line) /\ FirstMatch(t, line) = SubSeq(t, open + 1, close - 1)
<1>1. Len(t) \in Nat /\ DOMAIN t = 1 .. Len(t) /\ use \in 1 .. Len(t) /\ open \in 1 .. Len(t)
  BY IsSeqFacts
<1>2. \A j \in 1 .. Len(t) : Unit(t, j) = t[j]
  BY <1>1 DEF Unit
<1> DEFINE end == LineEnd(t, use)
<1>3. /\ end \in use .. Len(t) + 1 /\ open \in use .. end - 1 /\ close \in use .. end - 1
      /\ t[close] = "'"
  <2>1. end \in use .. Len(t) + 1
    <3>1. use \in 1 .. Len(t) + 1
      BY <1>1
    <3>2. Find(t, use, "\n") \in use .. Len(t) + 1
      BY <3>1, FindEnds
    <3> QED BY <3>2 DEF LineEnd
  <2>2. open \in Quotes(t, use) /\ close \in Quotes(t, use)
    OBVIOUS
  <2> QED BY <2>1, <2>2 DEF Quotes
<1>4. open # use /\ open \in use + 1 .. Len(t)
  BY <1>1, <1>3
<1>5. RunEnd(t, line, {" "}) = use
  <2>1. ASSUME NEW j \in line .. use - 1 PROVE Unit(t, j) \in {" "}
    <3>1. t[j] = " "
      BY SpacesFacts
    <3>2. j \in 1 .. Len(t)
      BY <1>1
    <3> QED BY <1>2, <3>1, <3>2
  <2>2. Unit(t, use) \notin {" "}
    BY <1>1, <1>2
  <2>3. line \in 1 .. Len(t) + 1 /\ use \in line .. Len(t) + 1
    BY <1>1
  <2> QED BY <2>1, <2>2, <2>3, RunEndIs
<1>6. RunEnd(t, use + 1, {" "}) = open
  <2>1. ASSUME NEW j \in use + 1 .. open - 1 PROVE Unit(t, j) \in {" "}
    <3>1. t[j] = " "
      BY SpacesFacts
    <3>2. j \in 1 .. Len(t)
      BY <1>1
    <3> QED BY <1>2, <3>1, <3>2
  <2>2. Unit(t, open) \notin {" "}
    BY <1>1, <1>2
  <2>3. use + 1 \in 1 .. Len(t) + 1 /\ open \in use + 1 .. Len(t) + 1
    BY <1>1, <1>4
  <2> QED BY <2>1, <2>2, <2>3, RunEndIs
<1>7. LineEnd(t, open + 1) = end
  <2>1. use \in 1 .. Len(t) + 1 /\ open + 1 \in use .. end
    BY <1>1, <1>3
  <2> QED BY <2>1, FindMoves DEF LineEnd
<1>8. close \in Quotes(t, open + 1)
  <2>1. close \in open + 1 .. end - 1
    BY <1>1, <1>3
  <2> QED BY <1>3, <1>7, <2>1 DEF Quotes
<1>9. MatchesAt(t, line)
  BY <1>1, <1>2, <1>5, <1>6, <1>8 DEF MatchesAt
<1>10. LineEnd(t, line) = end
  <2>1. line \in 1 .. Len(t) + 1
    BY <1>1
  <2>2. /\ Find(t, line, "\n") \in line .. Len(t) + 1
        /\ Unit(t, Find(t, line, "\n")) \in {"\n", EOF}
    BY <2>1, FindEnds
  <2> DEFINE e == Find(t, line, "\n")
  <2>3. ~(e < use)
    <3> SUFFICES ASSUME e < use PROVE FALSE
      OBVIOUS
    <3> HIDE DEF e
    <3>1. e \in line .. use - 1 /\ e \in 1 .. Len(t) /\ Unit(t, e) \in {"\n", EOF}
      BY <1>1, <2>2 DEF e
    <3>2. Unit(t, e) = " "
      <4>1. t[e] = " "
        BY <3>1, SpacesFacts
      <4> QED BY <1>2, <3>1, <4>1
    <3> QED BY <3>1, <3>2 DEF EOF
  <2>4. use \in line .. e
    <3> HIDE DEF e
    <3> QED BY <1>1, <2>2, <2>3 DEF e
  <2> QED BY <2>1, <2>4, FindMoves DEF LineEnd
<1>11. Quotes(t, line) = Quotes(t, use)
  <2>1. ASSUME NEW q \in Quotes(t, line) PROVE q \in Quotes(t, use)
    <3>1. q \in line .. end - 1 /\ t[q] = "'"
      BY <1>10 DEF Quotes
    <3>2. q \notin line .. use - 1
      <4>1. q \in line .. use - 1 => t[q] = " "
        BY SpacesFacts
      <4> QED BY <3>1, <4>1
    <3> HIDE DEF end
    <3>3. q \in use .. end - 1
      BY <1>1, <1>3, <3>1, <3>2
    <3> QED BY <3>1, <3>3 DEF Quotes, end
  <2>2. ASSUME NEW q \in Quotes(t, use) PROVE q \in Quotes(t, line)
    <3>1. q \in use .. end - 1 /\ t[q] = "'"
      BY DEF Quotes
    <3> HIDE DEF end
    <3>2. q \in line .. end - 1
      BY <1>1, <1>3, <3>1
    <3> QED BY <1>10, <3>1, <3>2 DEF Quotes
  <2> QED BY <2>1, <2>2
<1>12. open \in Nat
  BY <1>1
<1>13. FirstMatch(t, line) = SubSeq(t, open + 1, close - 1)
  <2>1. Min({open, close}) = open /\ Max({open, close}) = close
    BY <1>12, PairFacts
  <2> QED BY <1>11, <2>1 DEF FirstMatch
<1> QED BY <1>9, <1>13

(* What the regular expression finds is what it finds at some position. *)
FindsImports(t, found, n) ==
  found = [i \in 0 .. n |->
             IF i = 0 THEN <<>>
             ELSE IF MatchesAt(t, i) THEN Append(found[i - 1], FirstMatch(t, i)) ELSE found[i - 1]]

(* The recursive function that finds is defined at every position. *)
LEMMA FindingEnds ==
  ASSUME NEW t, NEW n \in Nat
  PROVE  \E found : FindsImports(t, found, n)
<1> DEFINE T == {m \in Nat : ~\E found : FindsImports(t, found, m)}
<1> SUFFICES ASSUME T # {} PROVE FALSE
  OBVIOUS
<1>1. PICK m \in T : \A i \in T : m <= i
  <2> HIDE DEF T
  <2> QED BY LeastOfNaturals, T \in SUBSET Nat DEF T
<1>2. CASE m = 0
  <2> DEFINE f == [i \in 0 .. 0 |-> <<>>]
  <2>1. f = [i \in 0 .. 0 |->
             IF i = 0 THEN <<>>
             ELSE IF MatchesAt(t, i) THEN Append(f[i - 1], FirstMatch(t, i)) ELSE f[i - 1]]
    OBVIOUS
  <2> HIDE DEF f
  <2> QED BY <1>1, <1>2, <2>1 DEF FindsImports
<1>3. CASE m # 0
  <2>1. m - 1 \in Nat /\ m \in Nat /\ m - 1 \notin T
    BY <1>1, <1>3
  <2>2. PICK g : FindsImports(t, g, m - 1)
    BY <2>1
  <2> DEFINE Next1(h, i) ==
               IF i = 0 THEN <<>>
               ELSE IF MatchesAt(t, i) THEN Append(h[i - 1], FirstMatch(t, i)) ELSE h[i - 1]
             f == [i \in 0 .. m |-> IF i = m THEN Next1(g, m) ELSE g[i]]
  <2>3. ASSUME NEW i \in 0 .. m PROVE f[i] = Next1(f, i)
    <3>1. i # 0 => f[i - 1] = g[i - 1]
      BY <2>1
    <3>2. Next1(f, i) = Next1(g, i)
      <4> HIDE DEF f
      <4> QED BY <3>1
    <3>3. CASE i = m
      BY <3>2, <3>3
    <3>4. CASE i # m
      <4>1. i \in 0 .. m - 1
        BY <2>1, <3>4
      <4>2. g[i] = Next1(g, i)
        BY <2>2, <4>1 DEF FindsImports
      <4> HIDE DEF Next1
      <4> QED BY <3>2, <3>4, <4>2
    <3> QED BY <3>3, <3>4
  <2>4. f = [i \in 0 .. m |-> Next1(f, i)]
    <3>1. f = [i \in 0 .. m |-> f[i]]
      OBVIOUS
    <3> HIDE DEF f, Next1
    <3> QED BY <2>3, <3>1
  <2> HIDE DEF f
  <2>5. FindsImports(t, f, m)
    BY <2>4 DEF FindsImports
  <2> QED BY <1>1, <2>5
<1> QED BY <1>2, <1>3

(* What matches at a position up to n is found. *)
AllFound(t, s, n) ==
  IsSeq(s) /\ \A i \in 1 .. n : MatchesAt(t, i) => \E k \in DOMAIN s : s[k] = FirstMatch(t, i)

(* The regular expression finds what matches anywhere in a text. *)
LEMMA RegexFinds ==
  ASSUME NEW t, IsSeq(t)
  PROVE  AllFound(t, import_regex(t), Len(t))
<1> DEFINE l == Len(t)
           found == CHOOSE found : FindsImports(t, found, l)
           T == {n \in 0 .. l : ~AllFound(t, found[n], n)}
<1>1. l \in Nat
  BY IsSeqFacts
<1>2. FindsImports(t, found, l)
  BY <1>1, FindingEnds
<1>3. import_regex(t) = found[l]
  BY DEF import_regex, FindsImports
<1> HIDE DEF found
<1>4. found[0] = <<>> /\ \A n \in 1 .. l :
        found[n] = IF MatchesAt(t, n) THEN Append(found[n - 1], FirstMatch(t, n)) ELSE found[n - 1]
  <2>1. found[0] = <<>>
    BY <1>1, <1>2 DEF FindsImports
  <2>2. ASSUME NEW n \in 1 .. l
        PROVE found[n] = IF MatchesAt(t, n) THEN Append(found[n - 1], FirstMatch(t, n)) ELSE found[n - 1]
    <3>1. n \in 0 .. l /\ n # 0
      BY <1>1
    <3> QED BY <1>2, <3>1 DEF FindsImports
  <2> QED BY <2>1, <2>2
<1>5. T = {}
  <2> SUFFICES ASSUME T # {} PROVE FALSE
    OBVIOUS
  <2>1. PICK n \in T : \A j \in T : n <= j
    <3>1. T \in SUBSET Nat
      BY <1>1
    <3> HIDE DEF T
    <3> QED BY <3>1, LeastOfNaturals
  <2>2. n \in 0 .. l /\ ~AllFound(t, found[n], n)
    BY <2>1
  <2>3. CASE n = 0
    <3>1. IsSeq(<<>>)
      BY NoItems DEF IsRow
    <3>2. found[n] = <<>> /\ \A i \in 1 .. n : FALSE
      BY <1>4, <2>3
    <3> QED BY <2>2, <3>1, <3>2 DEF AllFound
  <2>4. CASE n # 0
    <3> DEFINE s == found[n - 1]
               x == FirstMatch(t, n)
    <3>1. n \in 1 .. l /\ n - 1 \in 0 .. l /\ ~(n <= n - 1)
      BY <1>1, <2>2, <2>4
    <3>2. AllFound(t, s, n - 1)
      BY <2>1, <3>1
    <3>3. found[n] = IF MatchesAt(t, n) THEN Append(s, x) ELSE s
      BY <1>4, <3>1
    <3>4. \A i \in 1 .. n : i = n \/ i \in 1 .. n - 1
      BY <3>1
    <3> HIDE DEF s
    <3>5. CASE ~MatchesAt(t, n)
      BY <2>2, <3>2, <3>3, <3>4, <3>5 DEF AllFound
    <3>6. CASE MatchesAt(t, n)
      <4> DEFINE r == Append(s, x)
      <4>1. IsSeq(s)
        BY <3>2 DEF AllFound
      <4>2. IsSeq(r) /\ DOMAIN r = 1 .. Len(s) + 1 /\ r[Len(s) + 1] = x
        BY <4>1, AppendedAt
      <4>3. Len(s) \in Nat /\ DOMAIN s = 1 .. Len(s)
        BY <4>1, IsSeqFacts
      <4>4. \A k \in DOMAIN s : r[k] = s[k]
        BY <4>1, AppendedAt
      <4> HIDE DEF r
      <4>5. ASSUME NEW i \in 1 .. n, MatchesAt(t, i)
            PROVE  \E k \in DOMAIN r : r[k] = FirstMatch(t, i)
        <5>1. CASE i = n
          <6>1. Len(s) + 1 \in DOMAIN r
            BY <4>2, <4>3
          <6> QED BY <4>2, <5>1, <6>1
        <5>2. CASE i # n
          <6>1. PICK k \in DOMAIN s : s[k] = FirstMatch(t, i)
            BY <3>2, <3>4, <4>5, <5>2 DEF AllFound
          <6>2. k \in DOMAIN r
            BY <4>2, <4>3
          <6> QED BY <4>4, <6>1, <6>2
        <5> QED BY <5>1, <5>2
      <4>6. AllFound(t, r, n)
        BY <4>2, <4>5 DEF AllFound
      <4> QED BY <2>2, <3>3, <3>6, <4>6 DEF r
    <3> QED BY <3>5, <3>6
  <2> QED BY <2>3, <2>4
<1>6. l \in 0 .. l
  BY <1>1
<1> QED BY <1>3, <1>5, <1>6

-----------------------------------------------------------------------------
(* The import that the parser read is one that the regular expression found. *)

LEMMA ContentIs ==
  ASSUME IsSeq(text), NEW k, k.lo \in Nat, k.hi \in Nat, k.lo \in DOMAIN text, k.hi <= Len(text) + 1,
         Content(k) # <<>>, text[k.hi - 1] = "'"
  PROVE  k.lo < k.hi - 1 /\ Content(k) = SubSeq(text, k.lo + 1, k.hi - 2)
<1>1. Len(text) \in Nat /\ DOMAIN text = 1 .. Len(text)
  BY IsSeqFacts
<1>2. PICK S : text \in Seq(S)
  BY DEF IsSeq
<1>3. k.lo < k.hi - 1
  <2> SUFFICES ASSUME ~(k.lo < k.hi - 1) PROVE FALSE
    OBVIOUS
  <2>1. Content(k) = SubSeq(text, k.lo + 1, k.hi - 1)
    BY DEF Content
  <2>2. k.hi - 1 < k.lo + 1
    OBVIOUS
  <2>3. \A a, b \in Int : b < a => SubSeq(text, a, b) = <<>>
    BY <1>2
  <2> QED BY <2>1, <2>2, <2>3
<1>4. Content(k) = SubSeq(text, k.lo + 1, k.hi - 2)
  BY <1>3 DEF Content
<1> QED BY <1>3, <1>4

LEMMA ImportIsFound ==
  ASSUME ParserInv, ImportsNamed, NEW i \in DOMAIN tree, nodes[tree[i]].kind = "ModuleImport",
         PlainUse(nodes[tree[i]])
  PROVE  \E k \in DOMAIN import_regex(text) :
           import_regex(text)[k] = Content(tokens[nodes[tree[i]].lo + 1])
<1> DEFINE n == nodes[tree[i]]
           u == tokens[n.lo]
           name == tokens[n.lo + 1]
           L == {j \in 1 .. u.lo : \A m \in j .. u.lo - 1 : text[m] = " "}
           line == Min(L)
           close == name.hi - 1
<1>1. NamesImport(n.lo)
  BY DEF ImportsNamed, TreeNamed
<1>2. /\ u.kind = "use" /\ name.kind = "LITERAL_STRING" /\ Content(name) # <<>>
      /\ n.lo \in DOMAIN tokens /\ n.lo + 1 \in DOMAIN tokens
  BY <1>1 DEF NamesImport
<1>3. Spelt(text, u) /\ Spelt(text, name)
  BY <1>2 DEF ImportsNamed, TokensSpelt
<1>4. /\ u.lo \in DOMAIN text /\ text[u.lo] = "use" /\ u.hi = u.lo + 1
      /\ name.lo \in DOMAIN text /\ text[name.lo] = "'"
  BY <1>2, <1>3 DEF Spelt
<1>5. /\ IsSeq(text) /\ Len(text) \in Nat /\ DOMAIN text = 1 .. Len(text)
      /\ name.lo \in 1 .. Len(text) + 1 /\ name.hi \in name.lo .. Len(text) + 1
  BY <1>2, IsSeqFacts DEF ParserInv, TokensInText
<1>6. /\ LineStart(text, line) /\ (\A j \in u.hi .. name.lo - 1 : text[j] = " ")
      /\ Quotes(text, u.lo) = {name.lo, close}
  BY DEF PlainUse
<1>7. line \in L
  <2>1. u.lo \in L /\ L \in SUBSET Nat
    <3> HIDE DEF u
    <3>1. u.lo \in 1 .. Len(text)
      BY <1>4, <1>5
    <3>2. u.lo \in 1 .. u.lo /\ \A m \in u.lo .. u.lo - 1 : FALSE
      BY <3>1
    <3>3. 1 .. u.lo \subseteq Nat
      BY <3>1
    <3> QED BY <3>2, <3>3
  <2> HIDE DEF L
  <2> QED BY <2>1, MinFacts
<1>8. line \in 1 .. u.lo /\ Spaces(text, line, u.lo) /\ Spaces(text, u.lo + 1, name.lo)
  BY <1>4, <1>6, <1>7 DEF Spaces
<1> HIDE DEF line
<1>9. text[close] = "'"
  <2>1. close \in Quotes(text, u.lo)
    BY <1>6
  <2> QED BY <2>1 DEF Quotes
<1> HIDE DEF n, u, name
<1>10. name.lo < close /\ Content(name) = SubSeq(text, name.lo + 1, name.hi - 2)
  BY <1>2, <1>4, <1>5, <1>9, ContentIs
<1>11. close \in Nat /\ close - 1 = name.hi - 2
  BY <1>5, <1>10
<1> HIDE DEF close
<1>12. /\ MatchesAt(text, line)
       /\ FirstMatch(text, line) = SubSeq(text, name.lo + 1, close - 1)
  <2>1. LineStart(text, line) /\ Quotes(text, u.lo) = {name.lo, close}
    BY <1>6
  <2>2. u.lo \in 1 .. Len(text) /\ name.lo \in 1 .. Len(text)
    BY <1>4, <1>5
  <2> QED BY <1>4, <1>5, <1>8, <1>10, <1>11, <2>1, <2>2, PlainUseMatches
<1>13. line \in 1 .. Len(text)
  BY <1>4, <1>5, <1>8
<1>14. \E k \in DOMAIN import_regex(text) : import_regex(text)[k] = FirstMatch(text, line)
  BY <1>5, <1>12, <1>13, RegexFinds DEF AllFound
<1> QED BY <1>10, <1>11, <1>12, <1>14 DEF n, name

-----------------------------------------------------------------------------
(* The readers agree in the pipeline: the imports that were resolved are   *)
(* those of the texts, and only loaded sources are parsed.                 *)

ImportsFound ==
  /\ uses = [p \in Source |-> import_regex(texts[p])]
  /\ phase = "parse" => file \in Loaded /\ left \subseteq imports /\ ImportsNamed

LEMMA InitImportsFound == PipelineInit => ImportsFound
  BY DEF PipelineInit, ImportsFound

LEMMA NextImportsFound ==
  Resolution /\ Parsing /\ ImportsFound /\ [PipelineNext]_pipelineVars => ImportsFound'
<1> SUFFICES ASSUME Resolution, Parsing, ImportsFound, [PipelineNext]_pipelineVars PROVE ImportsFound'
  OBVIOUS
<1>1. texts \in Projects /\ texts' = texts
  BY DEF Parsing, PipelineNext, pipelineVars, ResolveImports, StartParsing, Parse, ParseNext,
         StartOptimizing, Optimize, OptimizeNext, Finish
<1>2. uses' = uses
  <2>1. [Next]_vars
    BY PipelineSteps
  <2> QED BY <2>1 DEF Next, vars, Unresolved, AlreadyResolved, Recurse, Return
<1> DEFINE Texts == [p \in Source |-> import_regex(texts[p])]
<1>3. uses' = [p \in Source |-> import_regex(texts[p])]'
  <2>1. uses = Texts
    BY DEF ImportsFound
  <2> QED BY <1>1, <1>2, <2>1
<1> HIDE DEF Texts
<1> SUFFICES phase' = "parse" => (file \in Loaded /\ left \subseteq imports /\ ImportsNamed)'
  BY <1>3 DEF ImportsFound
<1>4. imports \subseteq Source /\ Main \in Source
  BY DEF Resolution, IInv, ContextTypeOK, Source
<1>5. ASSUME NEW p \in Source, calls = <<>>, Begin(Stream(p)) PROVE ImportsNamed'
  <2>1. Stream(p) = texts[p] /\ IsSeq(texts[p])
    BY <1>1, <1>5, StreamsAreFull, TextsAreSequences
  <2>2. Begin(texts[p])
    BY <1>5, <2>1
  <2> QED BY <2>1, <2>2, BeginNamed
<1>6. CASE ResolveImports
  <2>1. phase' # "parse"
    BY <1>6 DEF ResolveImports
  <2> QED BY <2>1
<1>7. CASE StartParsing
  <2>1. /\ left' = imports /\ imports' = imports /\ calls = <<>>
        /\ Begin(Stream(Main)) /\ file' = Main
    BY <1>7 DEF StartParsing, vars, Parsing
  <2>2. ImportsNamed'
    BY <1>4, <1>5, <2>1
  <2>3. (file \in Loaded)' /\ (left \subseteq imports)'
    BY <2>1 DEF Loaded
  <2> QED BY <2>2, <2>3
<1>8. CASE Parse
  <2>1. /\ phase = "parse" /\ ParserStep /\ UNCHANGED <<file, left, imports>>
    BY <1>8 DEF Parse, vars
  <2>2. ParserInv /\ ImportsNamed /\ file \in Loaded /\ left \subseteq imports
    BY <2>1 DEF Parsing, ImportsFound
  <2>3. ImportsNamed'
    BY <2>1, <2>2, StepNamed
  <2>4. (file \in Loaded)' /\ (left \subseteq imports)'
    BY <2>1, <2>2 DEF Loaded
  <2> QED BY <2>3, <2>4
<1>9. CASE \E p \in Source : ParseNext(p)
  <2>1. PICK p \in Source : ParseNext(p)
    BY <1>9
  <2>2. /\ phase = "parse" /\ calls = <<>> /\ imports' = imports /\ Begin(Stream(p))
        /\ p \in left /\ file' = p /\ left' = left \ {p}
    BY <2>1 DEF ParseNext, vars, Parsing
  <2>3. left \subseteq imports
    BY <2>2 DEF ImportsFound
  <2>4. ImportsNamed'
    BY <1>5, <2>2
  <2>5. (file \in Loaded)' /\ (left \subseteq imports)'
    BY <2>2, <2>3 DEF Loaded
  <2> QED BY <2>4, <2>5
<1>10. CASE StartOptimizing \/ Finish
  <2>1. phase' # "parse"
    BY <1>10 DEF StartOptimizing, Finish
  <2> QED BY <2>1
<1>11. CASE Optimize \/ \E p \in Source : OptimizeNext(p)
  <2>1. phase' # "parse"
    BY <1>11 DEF Optimize, OptimizeNext, Optimized
  <2> QED BY <2>1
<1>12. CASE UNCHANGED pipelineVars
  <2>1. UNCHANGED parserVars /\ UNCHANGED <<phase, file, left, imports>>
    BY <1>12 DEF pipelineVars, vars
  <2>2. phase = "parse" => ParserInv /\ ImportsNamed /\ file \in Loaded /\ left \subseteq imports
    BY DEF Parsing, ImportsFound
  <2>3. phase = "parse" => ImportsNamed'
    BY <2>1, <2>2, StepNamed
  <2>4. phase = "parse" => (file \in Loaded)' /\ (left \subseteq imports)'
    BY <2>1, <2>2 DEF Loaded
  <2> QED BY <2>1, <2>3, <2>4
<1> QED BY <1>6, <1>7, <1>8, <1>9, <1>10, <1>11, <1>12 DEF PipelineNext

(* An import of a loaded source is in the package or was reported. *)
LEMMA ImportIsSettled ==
  ASSUME Resolution, calls = <<>>, NEW p \in Loaded, NEW k \in DOMAIN uses[p]
  PROVE  IF Resolves(uses[p][k]) THEN resolve_path(uses[p][k]) \in imports
         ELSE \E e \in DOMAIN errors : errors[e] = uses[p][k]
<1> DEFINE i == uses[p][k]
<1>1. uses \in [Source -> Seq(Import)] /\ p \in Source
  BY DEF Resolution, IInv, ContextTypeOK, Loaded, Source
<1>2. uses[p] \in Seq(Import)
  BY <1>1
<1>3. k \in Nat /\ i \in Import
  BY <1>2
<1>4. CASE Resolves(i)
  BY <1>4 DEF Resolution, IInv, NoneMissed, ToCome
<1>5. CASE ~Resolves(i)
  <2>1. <<p, k>> \in Passed(i)
    BY <1>3 DEF Passed, MatchesOf, ToCome
  <2>2. /\ IsFiniteSet(Reported(i)) /\ IsFiniteSet(Passed(i))
        /\ Cardinality(Reported(i)) = Cardinality(Passed(i))
    BY <1>3, <1>5 DEF Resolution, PassedAreReported, Counted
  <2>3. Reported(i) # {}
    BY <2>1, <2>2, FS_EmptySet
  <2> QED BY <1>5, <2>3 DEF Reported
<1> QED BY <1>4, <1>5

LEMMA SettledImportsAgree ==
  Resolution /\ Parsing /\ ImportsFound => ImportsAgree
<1> SUFFICES ASSUME Resolution, Parsing, ImportsFound, phase = "parse",
                    NEW j \in DOMAIN tree, nodes[tree[j]].kind = "ModuleImport",
                    PlainUse(nodes[tree[j]])
             PROVE  LET name == Content(tokens[nodes[tree[j]].lo + 1]) IN
                      IF Resolves(name) THEN resolve_path(name) \in imports
                                        ELSE \E e \in DOMAIN errors : errors[e] = name
  BY DEF ImportsAgree
<1>1. /\ calls = <<>> /\ text = texts[file] /\ ParserInv
      /\ file \in Loaded /\ ImportsNamed /\ file \in Source
      /\ uses = [p \in Source |-> import_regex(texts[p])]
  BY DEF Parsing, ImportsFound
<1>2. PICK k \in DOMAIN import_regex(text) :
        import_regex(text)[k] = Content(tokens[nodes[tree[j]].lo + 1])
  BY <1>1, ImportIsFound
<1>3. uses[file] = import_regex(text)
  BY <1>1
<1> QED BY <1>1, <1>2, <1>3, ImportIsSettled

(* The two readers of an import agree on every package: a `use` that stands *)
(* alone on its line and that the parser takes for an import was found by   *)
(* the regular expression, and its source is in the package or it was       *)
(* reported.                                                                *)
THEOREM ReadersAgree == PipelineSpec => []ImportsAgree
<1> DEFINE All == Resolution /\ Parsing /\ ImportsFound
<1>1. PipelineInit => All
  BY InitResolution, InitParsing, InitImportsFound
<1>2. All /\ [PipelineNext]_pipelineVars => All'
  BY NextResolution, NextParsing, NextImportsFound
<1>3. All => ImportsAgree
  BY SettledImportsAgree
<1> HIDE DEF All
<1> QED BY <1>1, <1>2, <1>3, PTL DEF PipelineSpec
===============================================================================
