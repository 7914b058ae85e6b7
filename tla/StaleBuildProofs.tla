-------------------------- MODULE StaleBuildProofs --------------------------
(***************************************************************************)
(* Proofs about StaleBuild: what the stale-build gate guarantees whatever  *)
(* Gradle misses, for any functions, files and number of blocks.           *)
(***************************************************************************)
EXTENDS StaleBuild, TLAPS

LEMMA InitTyped == Init => TypeOK
BY BuildAssumption DEF Init, TypeOK, Contents, Untried, NoEvidence, NoSurvivor, Results

LEMMA OriginalTyped == AllOriginal \in [Files -> Contents]
BY DEF AllOriginal, Contents

LEMMA FileOfTyped == \A fn \in Fns : FileOf[fn] \in Files /\ NameOf[fn] \in Names
BY DEF Files, Names

LEMMA OverTyped ==
  ASSUME NEW fn \in Fns, NEW c \in Contents PROVE Over(fn, c) \in [Files -> Contents]
BY OriginalTyped, FileOfTyped DEF Over

BuildOK ==
  /\ built \in [Files -> Contents] /\ lastCompiled \in [Files -> Contents]
  /\ survivor \in [own : BOOLEAN, again : BOOLEAN] /\ compiled \subseteq Mutants

\* Running a mutant keeps the variables it changes typed.
LEMMA MutantTyped ==
  ASSUME BuildOK, NEW fn \in Fns, NEW f \in Files, NEW c \in Mutants, NEW r \in Results,
         RunMutant(fn, f, c, r)
  PROVE  BuildOK'
<1>1. CASE UNCHANGED buildVars
  BY <1>1 DEF BuildOK, buildVars
<1>2. ASSUME NEW ran \in SUBSET Modules, NEW kept \in SUBSET Modules,
             Build(Over(fn, c), ran, kept),
             lastCompiled' = Records(f, c, ran),
             compiled' = IF MainCompileExecuted(ran) THEN compiled \cup {c} ELSE compiled,
             survivor' = IF r = "green"
                         THEN [own |-> built'[FileOf[fn]] = c, again |-> c \in compiled]
                         ELSE NoSurvivor
      PROVE  BuildOK'
  <2>1. Over(fn, c) \in [Files -> Contents]
    BY OverTyped DEF Contents
  <2>2. built' \in [Files -> Contents]
    BY <1>2, <2>1 DEF Build, BuildOK
  <2>3. lastCompiled' \in [Files -> Contents]
    BY <1>2 DEF Records, BuildOK, Contents
  <2>4. survivor' \in [own : BOOLEAN, again : BOOLEAN]
    <3> DEFINE own == built'[FileOf[fn]] = c
               again == c \in compiled
    <3>1. own \in BOOLEAN /\ again \in BOOLEAN
      OBVIOUS
    <3>2. survivor' = [own |-> own, again |-> again] \/ survivor' = NoSurvivor
      BY <1>2
    <3> HIDE DEF own, again
    <3>3. [own |-> own, again |-> again] \in [own : BOOLEAN, again : BOOLEAN]
      BY <3>1
    <3>4. NoSurvivor \in [own : BOOLEAN, again : BOOLEAN]
      BY DEF NoSurvivor
    <3> QED
      BY <3>2, <3>3, <3>4
  <2> QED
    BY <1>2, <2>2, <2>3, <2>4 DEF BuildOK
<1> QED
  BY <1>1, <1>2 DEF RunMutant

LEMMA UnweighedTyped ==
  ASSUME BuildOK, NEW src \in [Files -> Contents], RunUnweighed(src) PROVE BuildOK'
BY DEF RunUnweighed, Build, BuildOK

LEMMA EndTyped ==
  ASSUME EndBlock
  PROVE  /\ pc' = "next" /\ todo' = {} /\ sutOf' = {}
         /\ pos' \in [Fns -> Results] /\ oppRed' \in [Names -> Results]
BY DEF EndBlock, Untried, NoEvidence, Results

LEMMA StepTyped == TypeOK /\ [Next]_vars => TypeOK'
<1> SUFFICES ASSUME TypeOK, [Next]_vars PROVE TypeOK'
  OBVIOUS
<1> USE BuildAssumption
<1>0. BuildOK /\ (BuildOK' /\ racy' \in BOOLEAN /\ blocks' \in 0 .. MaxBlocks
        /\ pc' \in {"next", "baseline", "gut", "opposite", "stub"}
        /\ sutOf' \subseteq Fns /\ todo' \subseteq Fns
        /\ pos' \in [Fns -> Results] /\ oppRed' \in [Names -> Results] => TypeOK')
  BY DEF BuildOK, TypeOK
<1>1. CASE UNCHANGED vars
  BY <1>1 DEF TypeOK, vars, blockVars, buildVars
<1>2. CASE NextBlock
  <2>1. blocks' \in 0 .. MaxBlocks
    BY <1>2 DEF TypeOK, NextBlock
  <2>2. todo' \subseteq Fns /\ sutOf' \subseteq Fns
    BY <1>2 DEF NextBlock
  <2> QED
    BY <1>2, <2>1, <2>2 DEF TypeOK, NextBlock, buildVars
<1>3. CASE Baseline
  <2>1. BuildOK'
    BY <1>0, <1>3, OriginalTyped, UnweighedTyped DEF Baseline, RunOriginal
  <2>2. CASE pc' = "gut" /\ UNCHANGED <<todo, blockVars>>
    BY <1>0, <1>3, <2>1, <2>2 DEF Baseline, TypeOK, blockVars
  <2>3. CASE EndBlock
    BY <1>0, <1>3, <2>1, <2>3, EndTyped DEF Baseline, TypeOK
  <2> QED
    BY <1>3, <2>2, <2>3 DEF Baseline
<1>4. CASE GutOneFn
  <2>1. PICK fn \in todo, r \in Results :
          /\ RunMutant(fn, FileOf[fn], <<fn, "gross">>, r)
          /\ pos' = [pos EXCEPT ![fn] = r] /\ todo' = todo \ {fn}
    BY <1>4 DEF GutOneFn
  <2>2. fn \in Fns /\ FileOf[fn] \in Files /\ <<fn, "gross">> \in Mutants
    BY FileOfTyped DEF TypeOK, Mutants, Signs
  <2>3. BuildOK'
    BY <1>0, <2>1, <2>2, MutantTyped
  <2> QED
    BY <1>0, <1>4, <2>1, <2>2, <2>3 DEF TypeOK, GutOneFn
<1>5. CASE FoldBlock
  <2>1. OppositeTargets \subseteq Fns
    BY DEF OppositeTargets, BrokeFns, SurvivorFns
  <2>2. BuildOK'
    BY <1>0, <1>5, OriginalTyped, UnweighedTyped DEF FoldBlock, RunOriginal, BuildOK, buildVars
  <2>3. CASE pc' = "opposite" /\ todo' = OppositeTargets /\ UNCHANGED blockVars
    BY <1>0, <1>5, <2>1, <2>2, <2>3 DEF FoldBlock, TypeOK, blockVars
  <2>4. CASE EndBlock
    BY <1>0, <1>5, <2>2, <2>4, EndTyped DEF FoldBlock, TypeOK
  <2> QED
    BY <1>5, <2>3, <2>4 DEF FoldBlock
<1>6. CASE RunOpposite
  <2>1. PICK fn \in todo :
          /\ todo' = todo \ {fn}
          /\ \/ UNCHANGED <<oppRed, buildVars>>
             \/ \E last \in sutOf, r \in Results :
                  /\ RunMutant(fn, FileOf[last], <<fn, "opposite">>, r)
                  /\ oppRed' = IF r \in {"red", "green"}
                               THEN [oppRed EXCEPT ![NameOf[fn]] = r] ELSE oppRed
    BY <1>6 DEF RunOpposite
  <2>2. fn \in Fns /\ NameOf[fn] \in Names /\ <<fn, "opposite">> \in Mutants
    BY FileOfTyped DEF TypeOK, Mutants, Signs
  <2>3. \A last \in sutOf : FileOf[last] \in Files
    BY FileOfTyped DEF TypeOK
  <2>4. BuildOK'
    BY <1>0, <2>1, <2>2, <2>3, MutantTyped DEF BuildOK, buildVars
  <2>5. oppRed' \in [Names -> Results]
    BY <2>1, <2>2 DEF TypeOK
  <2> QED
    BY <1>0, <1>6, <2>1, <2>4, <2>5 DEF TypeOK, RunOpposite
<1>7. CASE Verdict
  <2>1. BuildOK'
    BY <1>0, <1>7, OriginalTyped, UnweighedTyped DEF Verdict, RunOriginal, BuildOK, buildVars
  <2>2. BrokeFns \subseteq Fns
    BY DEF BrokeFns
  <2>3. CASE pc' = "stub" /\ todo' = BrokeFns /\ UNCHANGED blockVars
    BY <1>0, <1>7, <2>1, <2>2, <2>3 DEF Verdict, TypeOK, blockVars
  <2>4. CASE EndBlock
    BY <1>0, <1>7, <2>1, <2>4, EndTyped DEF Verdict, TypeOK
  <2> QED
    BY <1>7, <2>3, <2>4 DEF Verdict
<1>8. CASE RunStub
  <2>1. PICK fn \in todo : /\ todo' = todo \ {fn}
                           /\ UNCHANGED buildVars \/ RunUnweighed(Over(fn, <<fn, "stub">>))
    BY <1>8 DEF RunStub
  <2>2. Over(fn, <<fn, "stub">>) \in [Files -> Contents]
    BY OverTyped DEF TypeOK, Contents, Mutants, Signs
  <2>3. BuildOK'
    BY <1>0, <2>1, <2>2, UnweighedTyped DEF BuildOK, buildVars
  <2> QED
    BY <1>0, <1>8, <2>1, <2>3 DEF RunStub, TypeOK, blockVars
<1>9. CASE AfterStubs
  BY <1>0, <1>9, EndTyped DEF AfterStubs, TypeOK, BuildOK, buildVars
<1> QED
  BY <1>1, <1>2, <1>3, <1>4, <1>5, <1>6, <1>7, <1>8, <1>9 DEF Next

\* Every reachable state is well typed.
THEOREM BuildTypeCorrect == Spec => []TypeOK
BY InitTyped, StepTyped, PTL DEF Spec

-----------------------------------------------------------------------------
(***************************************************************************)
(* The evidence.  What lastCompiled holds was compiled by this run, so a   *)
(* green outcome accepted on its word is of a mutant built before; which   *)
(* file it is held for does not matter.                                    *)
(***************************************************************************)
Remembered == \A f \in Files : lastCompiled[f] # Original => lastCompiled[f] \in compiled
OneModule == \A m, n \in Modules : m = n
EvidenceInv == Remembered /\ FirstSurvivorReal

LEMMA InitEvidence == Init => EvidenceInv
BY DEF Init, EvidenceInv, Remembered, FirstSurvivorReal, NoSurvivor

\* Running a mutant credits it with nothing but what the invariant allows.
LEMMA MutantEvidence ==
  ASSUME OneModule, TypeOK, EvidenceInv, NEW fn \in Fns, NEW f \in Files, NEW c \in Mutants,
         NEW r \in Results, RunMutant(fn, f, c, r)
  PROVE  EvidenceInv'
<1>1. CASE UNCHANGED buildVars
  BY <1>1 DEF EvidenceInv, Remembered, FirstSurvivorReal, buildVars
<1>2. ASSUME NEW ran \in SUBSET Modules, NEW kept \in SUBSET Modules, NEW outcome \in Outcomes,
             Build(Over(fn, c), ran, kept),
             lastCompiled' = Records(f, c, ran),
             compiled' = IF MainCompileExecuted(ran) THEN compiled \cup {c} ELSE compiled,
             r = IF SurvivorEvidenceValid(f, c, ran, outcome) THEN outcome ELSE "void",
             survivor' = IF r = "green"
                         THEN [own |-> built'[FileOf[fn]] = c, again |-> c \in compiled]
                         ELSE NoSurvivor
      PROVE  EvidenceInv'
  <2>1. c # Original
    BY DEF Mutants, Original
  <2>2. FileOf[fn] \in Files /\ Over(fn, c)[FileOf[fn]] = c
    BY FileOfTyped DEF Over, AllOriginal
  <2>3. Remembered'
    BY <1>2 DEF EvidenceInv, Remembered, Records, TypeOK
  <2>4. ASSUME r = "green", built'[FileOf[fn]] # c PROVE c \in compiled
    <3>1. ModuleOf[FileOf[fn]] \in Modules
      BY <2>2, BuildAssumption
    <3>2. ModuleOf[FileOf[fn]] \in kept
      BY <1>2, <2>2, <2>4 DEF Build
    <3>3. ran = {}
      BY <1>2, <3>1, <3>2 DEF Build, OneModule
    <3>4. lastCompiled[f] = c
      BY <1>2, <2>4, <3>3 DEF SurvivorEvidenceValid, MainCompileExecuted, Outcomes
    <3> QED
      BY <2>1, <3>4 DEF EvidenceInv, Remembered
  <2>5. FirstSurvivorReal'
    <3>1. CASE r = "green"
      <4>1. survivor' = [own |-> built'[FileOf[fn]] = c, again |-> c \in compiled]
        BY <1>2, <3>1
      <4> QED
        BY <2>4, <3>1, <4>1 DEF FirstSurvivorReal
    <3>2. CASE r # "green"
      BY <1>2, <3>2 DEF FirstSurvivorReal, NoSurvivor
    <3> QED
      BY <3>1, <3>2
  <2> QED
    BY <2>3, <2>5 DEF EvidenceInv
<1> QED
  BY <1>1, <1>2 DEF RunMutant

LEMMA StepEvidence ==
  ASSUME OneModule, TypeOK, EvidenceInv, [Next]_vars PROVE EvidenceInv'
<1>1. CASE UNCHANGED <<lastCompiled, survivor, compiled>>
  BY <1>1 DEF EvidenceInv, Remembered, FirstSurvivorReal
<1>2. CASE GutOneFn
  <2>1. PICK fn \in todo, r \in Results : RunMutant(fn, FileOf[fn], <<fn, "gross">>, r)
    BY <1>2 DEF GutOneFn
  <2>2. fn \in Fns /\ FileOf[fn] \in Files /\ <<fn, "gross">> \in Mutants
    BY FileOfTyped DEF TypeOK, Mutants, Signs
  <2> QED
    BY <2>1, <2>2, MutantEvidence
<1>3. CASE RunOpposite
  <2>1. PICK fn \in todo :
          \/ UNCHANGED buildVars
          \/ \E last \in sutOf, r \in Results : RunMutant(fn, FileOf[last], <<fn, "opposite">>, r)
    BY <1>3 DEF RunOpposite
  <2>2. fn \in Fns /\ <<fn, "opposite">> \in Mutants
    BY DEF TypeOK, Mutants, Signs
  <2>3. \A last \in sutOf : FileOf[last] \in Files
    BY FileOfTyped DEF TypeOK
  <2> QED
    BY <1>1, <2>1, <2>2, <2>3, MutantEvidence DEF buildVars
<1> QED
  BY <1>1, <1>2, <1>3
     DEF Next, NextBlock, Baseline, FoldBlock, Verdict, RunStub, AfterStubs, RunOriginal,
         RunUnweighed, vars, buildVars

\* In a project of one module, a survivor of a mutant built for the first time ran on
\* the mutant's classes, whatever writes Gradle missed.
THEOREM FirstSurvivorTheorem == OneModule => (Spec => []FirstSurvivorReal)
<1> SUFFICES ASSUME OneModule PROVE Spec => []FirstSurvivorReal
  OBVIOUS
<1>1. TypeOK /\ EvidenceInv /\ [Next]_vars => EvidenceInv'
  BY StepEvidence
<1>2. EvidenceInv => FirstSurvivorReal
  BY DEF EvidenceInv
<1> QED
  BY <1>1, <1>2, InitEvidence, BuildTypeCorrect, PTL DEF Spec
=============================================================================
