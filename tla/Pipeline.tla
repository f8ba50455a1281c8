-------------------------------- MODULE Pipeline --------------------------------
(***************************************************************************)
(* The compilation pipeline that main() runs: ContextBuilder >> Parser >>  *)
(* TypeChecker >> Optimizer >> JsonSerializer                              *)
(* (include/silk/pipeline/stage.h), on all sources of a package.  The type *)
(* checker passes its input on.  The serializer only formats the trees; it *)
(* is left out, and "done" is what it starts from.  Each stage ends before *)
(* the next one begins, whatever it reported.                              *)
(*                                                                         *)
(* A definition X_Y marked Faulty is X with a plausible bug; no            *)
(* specification uses it.  The runs' properties are tested against them.   *)
(***************************************************************************)
EXTENDS ContextBuilder, Parser, Optimizer, SequencesExt

CONSTANT Projects   \* what the sources may hold: functions from Source to texts

VARIABLES
  texts,     \* texts[p] is the text of the source p; never changes
  phase,     \* the stage that runs, or "done"
  file,      \* the source it works on
  left,      \* the sources it has still to work on
  modules    \* modules[p]: what the parser and, in `folded`, the optimizer made of p

pipelineVars == <<vars, parserVars, optimizerVars, texts, phase, file, left, modules>>

-----------------------------------------------------------------------------
(* import_regex: at the start of a line blanks, `use`, blanks, a quote,    *)
(* and up to the last quote of that line.                                  *)

LineStart(t, i) == i = 1 \/ t[i - 1] = "\n"
LineEnd(t, i) == Find(t, i, "\n")
Quotes(t, i) == {q \in i .. LineEnd(t, i) - 1 : t[q] = "'"}

(* Faulty: nothing may stand before `use`. *)
MatchesAt_NoIndent(t, i) ==
  LET open == RunEnd(t, i + 1, {" "}) IN
    LineStart(t, i) /\ t[i] = "use" /\ Unit(t, open) = "'" /\ Quotes(t, open + 1) # {}

MatchesAt(t, i) ==
  LET use == RunEnd(t, i, {" "})
      open == RunEnd(t, use + 1, {" "})
  IN  LineStart(t, i) /\ Unit(t, use) = "use" /\ Unit(t, open) = "'" /\ Quotes(t, open + 1) # {}

FirstMatch(t, i) ==
  LET q == Quotes(t, i) IN SubSeq(t, Min(q) + 1, Max(q) - 1)

import_regex(t) ==
  LET found[i \in 0 .. Len(t)] ==
        IF i = 0 THEN <<>>
        ELSE IF MatchesAt(t, i) THEN Append(found[i - 1], FirstMatch(t, i)) ELSE found[i - 1]
  IN  found[Len(t)]

ASSUME PipelineAssumption ==
  \A t \in Projects :
    /\ t \in [Source -> Seq(STRING)]
    /\ \A p \in Source : import_regex(t[p]) \in Seq(Import)

-----------------------------------------------------------------------------
PipelineInit ==
  /\ texts \in Projects
  /\ uses = [p \in Source |-> import_regex(texts[p])]
  /\ execute
  /\ phase = "resolve" /\ file = Main /\ left = {} /\ modules = <<>>
  /\ Idle
  /\ OptimizerIdle

ResolveImports ==
  /\ phase = "resolve" /\ Next
  /\ UNCHANGED <<parserVars, optimizerVars, texts, phase, file, left, modules>>

(* What is left in the stream of p. *)
Stream(p) == IF at[p] = "start" THEN texts[p] ELSE <<>>

(* Parser::execute: the main source, then the others in any order.         *)
StartParsing ==
  /\ phase = "resolve" /\ calls = <<>>
  /\ phase' = "parse" /\ left' = imports
  /\ Begin(Stream(Main))
  /\ UNCHANGED <<vars, optimizerVars, texts, file, modules>>

Parse ==
  /\ phase = "parse" /\ ParserStep
  /\ UNCHANGED <<vars, optimizerVars, texts, phase, file, left, modules>>

WithModule ==
  [p \in DOMAIN modules \cup {file} |->
     IF p = file THEN [nodes |-> nodes, tree |-> tree, folded |-> nodes] ELSE modules[p]]

ParseNext(p) ==
  /\ phase = "parse" /\ Parsed /\ p \in left
  /\ modules' = WithModule
  /\ file' = p /\ left' = left \ {p}
  /\ Begin(Stream(p))
  /\ UNCHANGED <<vars, optimizerVars, texts, phase>>

(* Optimizer::execute, in the same manner. *)
StartOptimizing ==
  /\ phase = "parse" /\ Parsed /\ left = {}
  /\ modules' = WithModule
  /\ phase' = "optimize" /\ file' = Main /\ left' = imports
  /\ optimize(modules'[Main])
  /\ End
  /\ UNCHANGED <<vars, texts>>

Optimize ==
  /\ phase = "optimize" /\ OptimizerStep
  /\ UNCHANGED <<vars, parserVars, texts, phase, file, left, modules>>

Optimized == phase = "optimize" /\ work = <<>>

OptimizeNext(p) ==
  /\ Optimized /\ p \in left
  /\ modules' = [modules EXCEPT ![file].folded = heap]
  /\ file' = p /\ left' = left \ {p}
  /\ optimize(modules[p])
  /\ UNCHANGED <<vars, parserVars, texts, phase>>

Finish ==
  /\ Optimized /\ left = {}
  /\ modules' = [modules EXCEPT ![file].folded = heap]
  /\ phase' = "done"
  /\ UNCHANGED <<vars, parserVars, optimizerVars, texts, file, left>>

PipelineNext ==
  \/ ResolveImports
  \/ StartParsing
  \/ Parse
  \/ \E p \in Source : ParseNext(p)
  \/ StartOptimizing
  \/ Optimize
  \/ \E p \in Source : OptimizeNext(p)
  \/ Finish

PipelineSpec == PipelineInit /\ [][PipelineNext]_pipelineVars /\ WF_pipelineVars(PipelineNext)

-----------------------------------------------------------------------------
(* Properties *)

(* The type invariant: every node has the children syntax_tree.h gives it, *)
(* null only where the parser may leave one out, also after folding; every *)
(* report has a token to point at.                                         *)
PipelineTypeOK ==
  /\ ParserTypeOK
  /\ phase \in {"resolve", "parse", "optimize", "done"}
  /\ file \in Loaded /\ left \subseteq imports /\ DOMAIN modules \subseteq Loaded
  /\ \A n \in DOMAIN heap : heap[n].kind \in Kind /\ WellFormed(heap[n], n - 1)
  /\ \A i \in DOMAIN work : work[i].node \in 0 .. Len(heap)

(* The tree is the one that the precedences of parser.h give the tokens:   *)
(* no operator takes an operand from a stronger one, and no token is in    *)
(* two children, in whatever order operators, prefixes and groups come.    *)
TreeFitsTheTokens == PrecedenceRespected /\ SpansNest

(* The parser sees the whole text of each source, and of it nothing is     *)
(* left out of the tree without a report: recovery takes the tokens up to  *)
(* the next semicolon and no others, a comment its line and no more.       *)
NothingLostSilently ==
  phase = "parse" => text = texts[file] /\ NoTextIsLost /\ NoDeclarationIsLost

(* The `use` that n was parsed from begins its line and holds its quotes.  *)
PlainUse(n) ==
  LET use == tokens[n.lo]
      name == tokens[n.lo + 1]
      line == Min({i \in 1 .. use.lo : \A j \in i .. use.lo - 1 : text[j] = " "})
  IN  /\ LineStart(text, line)
      /\ \A i \in use.hi .. name.lo - 1 : text[i] = " "
      /\ Quotes(text, use.lo) = {name.lo, name.hi - 1}

(* The two readers of an import agree: what the parser takes for one was   *)
(* found by the regular expression that chose the sources, and is in the   *)
(* package or was reported, if it stands alone on its line.                *)
ImportsAgree ==
  phase = "parse" /\ Parsed =>
    \A i \in DOMAIN tree :
      LET n == nodes[tree[i]] IN
        n.kind = "ModuleImport" /\ PlainUse(n) =>
          LET name == Content(tokens[n.lo + 1]) IN
            IF Resolves(name) THEN resolve_path(name) \in imports
                              ELSE \E e \in DOMAIN errors : errors[e] = name

(* The optimizer ends the process only at a null child that it visits, or  *)
(* at an operator of number literals (or of what it folded to some) that   *)
(* has no value: of anything else it folds no operator, so no comparison   *)
(* of names ends it.  And it passes none of these by: a parsed `if`        *)
(* without `else`, `return;` or circuit without default does not get       *)
(* through, nor `1 < 2` or `1 // 0`.                                       *)
DiesForACause ==
  /\ died =>
       LET module == modules[file]
           reached == Reached(module)
       IN  Null \in reached \/ reached \cap Deadly(module.nodes, heap) # {}
  /\ phase = "done" =>
       \A p \in DOMAIN modules :
         LET module == modules[p]
             reached == Reached(module)
         IN  Null \notin reached /\ reached \cap Deadly(module.nodes, module.folded) = {}

(* Exactly the operators of number literals are folded to one, however     *)
(* they nest, and to one of the value the machine computes wherever that   *)
(* is claimed, wrapping where the machine wraps.                           *)
OptimizedMeansTheSame ==
  phase = "done" =>
    \A p \in DOMAIN modules :
      LET module == modules[p]
          meaning == Meaning(module.nodes)
      IN  \A n \in Reached(module) :
            module.nodes[n].kind = "ExpressionBinaryOp" =>
              /\ meaning[n].constant <=> module.folded[n].kind \in NumberKinds
              /\ meaning[n].value # <<>> =>
                   /\ module.folded[n].kind \in {"ExpressionNat", "ExpressionInt"}
                   /\ Signed(module.folded[n].val) = meaning[n].value[1]

(* The compiler gets to its end or dies, on every package: resolution goes *)
(* around no cycle twice and recovery always moves on.                     *)
PipelineEnds == <>(phase = "done" \/ mode = "crashed" \/ died)
===============================================================================
