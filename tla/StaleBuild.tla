----------------------------- MODULE StaleBuild -----------------------------
(***************************************************************************)
(* The evidence prove() takes from Gradle runs.  A mutant is written over  *)
(* the source, Gradle runs the test, and the source is restored; a build   *)
(* that missed the write leaves the test running on older classes.  The    *)
(* console tells only whether some main compile task executed, and         *)
(* survivorEvidenceValid weighs that against lastCompiled, the content     *)
(* this run last watched compile for the file.                             *)
(*                                                                         *)
(* The source is restored before anything else happens, so it is the       *)
(* original between steps and only the classes (built) are state.  What    *)
(* the test says of the classes it runs on is free.  A relational          *)
(* function, put off by ProbeEngine, is gutted with the others.            *)
(***************************************************************************)
EXTENDS Naturals

CONSTANTS
  Fns,               \* the functions that blocks can exercise
  NameOf, FileOf,    \* the bare name of each, and its file
  Modules, ModuleOf, \* Gradle modules, and the module of each file
  MaxBlocks,         \* blocks probed, a bound of the model
  Deep

Names == {NameOf[fn] : fn \in Fns}
Files == {FileOf[fn] : fn \in Fns}

ASSUME BuildAssumption ==
  /\ NameOf \in [Fns -> Names]
  /\ FileOf \in [Fns -> Files] /\ ModuleOf \in [Files -> Modules]
  /\ MaxBlocks \in Nat /\ Deep \in BOOLEAN

\* The mutants of a function: the first sentinel, the opposite one, the identity stub.
Signs == {"gross", "opposite", "stub"}
Mutants == Fns \X Signs
Original == <<>>
Contents == Mutants \cup {Original}

Results == {"untried", "void", "norun", "red", "green"}

VARIABLES
  racy,          \* whether Gradle may miss a write
  built,         \* the content of each file that its classes were compiled from
  lastCompiled,  \* per file, the mutant content last seen compiling (none: Original)
  pc, blocks,    \* the step of the current block, and the blocks begun
  sutOf,         \* the function that stands for its bare name, for each name of the block
  todo,          \* functions left to run in the current loop
  pos,           \* pos[fn]: the outcome of the first mutant of fn
  oppRed,        \* oppRed[name]: the last evidence of an opposite mutant of that name
  survivor,      \* history, of the survivor found last: whether the test ran on its own
                 \* classes, and whether the run had watched it compile before
  compiled       \* history: mutants the run has watched compile

blockVars == <<pos, oppRed, sutOf>>
buildVars == <<built, lastCompiled, survivor, compiled>>
vars == <<racy, blocks, pc, todo, blockVars, buildVars>>

Untried == [fn \in Fns |-> "untried"]
NoEvidence == [n \in Names |-> "untried"]
NoSurvivor == [own |-> TRUE, again |-> FALSE]

Init ==
  /\ racy \in BOOLEAN
  /\ built = [f \in Files |-> Original]
  /\ lastCompiled = [f \in Files |-> Original]
  /\ pc = "next" /\ blocks = 0 /\ todo = {}
  /\ sutOf = {} /\ pos = Untried /\ oppRed = NoEvidence
  /\ survivor = NoSurvivor /\ compiled = {}

-----------------------------------------------------------------------------
(***************************************************************************)
(* Gradle.                                                                 *)
(***************************************************************************)
\* A build with the source src: the modules of ran execute their compile task, those
\* of kept are labelled and keep their classes, the others are taken from a cache.
Build(src, ran, kept) ==
  /\ ran \cap kept = {}
  /\ built' = [f \in Files |-> IF ModuleOf[f] \in kept THEN built[f] ELSE src[f]]
  /\ ~racy => built' = src

AllOriginal == [f \in Files |-> Original]
Over(fn, c) == [AllOriginal EXCEPT ![FileOf[fn]] = c]

Outcomes == {"norun", "red", "green"}

\* Mutant: a labelled task counts too.
AnyTask(ran) == TRUE
MainCompileExecuted(ran) == ran # {}

\* survivorEvidenceValid for the content c of file f: it records, then it weighs.
Records(f, c, ran) ==
  IF MainCompileExecuted(ran) THEN [lastCompiled EXCEPT ![f] = c] ELSE lastCompiled

SurvivorEvidenceValid(f, c, ran, r) ==
  \/ r \in {"red", "norun"}
  \/ MainCompileExecuted(ran)
  \/ lastCompiled[f] = c

\* Gutting fn to c, which is remembered for file f: the build fails, or its outcome is
\* weighed and taken as r.
RunMutant(fn, f, c, r) ==
  \/ /\ r = "void"
     /\ UNCHANGED buildVars
  \/ \E ran, kept \in SUBSET Modules, outcome \in Outcomes :
       /\ Build(Over(fn, c), ran, kept)
       /\ lastCompiled' = Records(f, c, ran)
       /\ compiled' = IF MainCompileExecuted(ran) THEN compiled \cup {c} ELSE compiled
       /\ r = IF SurvivorEvidenceValid(f, c, ran, outcome) THEN outcome ELSE "void"
       /\ survivor' = IF r = "green"
                      THEN [own |-> built'[FileOf[fn]] = c, again |-> c \in compiled]
                      ELSE NoSurvivor

\* A run that only builds: nothing of it is recorded or weighed.
RunUnweighed(src) ==
  /\ \E ran, kept \in SUBSET Modules : Build(src, ran, kept)
  /\ UNCHANGED <<lastCompiled, survivor, compiled>>

RunOriginal == RunUnweighed(AllOriginal)

-----------------------------------------------------------------------------
(***************************************************************************)
(* prove().                                                                *)
(***************************************************************************)
\* The eligible functions of a block; of those of one bare name, sutOf keeps the one
\* that was added last.
NextBlock ==
  /\ pc = "next" /\ blocks < MaxBlocks
  /\ blocks' = blocks + 1
  /\ todo' \in SUBSET Fns \ {{}}
  /\ sutOf' \in SUBSET todo'
  /\ \A fn \in todo' : \E last \in sutOf' : NameOf[last] = NameOf[fn]
  /\ \A e, last \in sutOf' : NameOf[last] = NameOf[e] => last = e
  /\ pc' = "baseline"
  /\ UNCHANGED <<racy, pos, oppRed, buildVars>>

\* The block is over, and with it its evidence.
EndBlock ==
  /\ pc' = "next" /\ todo' = {}
  /\ sutOf' = {} /\ pos' = Untried /\ oppRed' = NoEvidence

\* A block without a green baseline is inconclusive.
Baseline ==
  /\ pc = "baseline" /\ RunOriginal
  /\ \/ pc' = "gut" /\ UNCHANGED <<todo, blockVars>>
     \/ EndBlock
  /\ UNCHANGED <<racy, blocks>>

GutOneFn ==
  /\ pc = "gut"
  /\ \E fn \in todo, r \in Results :
       /\ RunMutant(fn, FileOf[fn], <<fn, "gross">>, r)
       /\ pos' = [pos EXCEPT ![fn] = r]
       /\ todo' = todo \ {fn}
  /\ UNCHANGED <<racy, blocks, pc, oppRed, sutOf>>

BrokeFns == {fn \in Fns : pos[fn] = "red"}
SurvivorFns == {fn \in Fns : pos[fn] = "green"}
OppositeTargets ==
  IF Deep THEN BrokeFns \cup SurvivorFns ELSE IF BrokeFns = {} THEN SurvivorFns ELSE {}

\* foldBlock: the flake guard comes first where an accusation is at stake.
FoldBlock ==
  /\ pc = "gut" /\ todo = {}
  /\ \/ /\ pc' = "opposite" /\ todo' = OppositeTargets
        /\ UNCHANGED blockVars
     \/ BrokeFns = {} /\ SurvivorFns # {} /\ EndBlock
  /\ IF BrokeFns = {} /\ SurvivorFns # {} THEN RunOriginal ELSE UNCHANGED buildVars
  /\ UNCHANGED <<racy, blocks>>

\* A function may have no opposite mutant.  Its content is remembered for the file
\* that stands for its bare name, which need not be the one it is written to.
RunOpposite ==
  /\ pc = "opposite"
  /\ \E fn \in todo :
       /\ todo' = todo \ {fn}
       /\ \/ UNCHANGED <<oppRed, buildVars>>
          \/ \E last \in sutOf, r \in Results :
               /\ NameOf[last] = NameOf[fn]
               /\ RunMutant(fn, FileOf[last], <<fn, "opposite">>, r)
               /\ oppRed' = IF r \in {"red", "green"}
                            THEN [oppRed EXCEPT ![NameOf[fn]] = r] ELSE oppRed
  /\ UNCHANGED <<racy, blocks, pc, pos, sutOf>>

BoundFns == {fn \in BrokeFns : oppRed[NameOf[fn]] # "green"}
BlindAll == {fn \in SurvivorFns : oppRed[NameOf[fn]] # "red"}

\* The verdict.  A hollow that only --deep led to is rechecked on the original, unless
\* its survivors are all relational.
Verdict ==
  /\ pc = "opposite" /\ todo = {}
  /\ \/ UNCHANGED buildVars
     \/ BrokeFns # {} /\ BoundFns = {} /\ BlindAll # {} /\ RunOriginal
  /\ IF Deep THEN pc' = "stub" /\ todo' = BrokeFns /\ UNCHANGED blockVars ELSE EndBlock
  /\ UNCHANGED <<racy, blocks>>

\* --deep: the identity stub of a function that broke, if it has one that compiles.
\* Its run leaves classes behind and neither records nor weighs what it compiled.
RunStub ==
  /\ pc = "stub"
  /\ \E fn \in todo :
       /\ todo' = todo \ {fn}
       /\ \/ UNCHANGED buildVars
          \/ RunUnweighed(Over(fn, <<fn, "stub">>))
  /\ UNCHANGED <<racy, blocks, pc, blockVars>>

AfterStubs ==
  /\ pc = "stub" /\ todo = {} /\ EndBlock
  /\ UNCHANGED <<racy, blocks, buildVars>>

Next == \/ NextBlock \/ Baseline \/ GutOneFn \/ FoldBlock \/ RunOpposite \/ Verdict
        \/ RunStub \/ AfterStubs

Spec == Init /\ [][Next]_vars

-----------------------------------------------------------------------------
(***************************************************************************)
(* Properties.                                                             *)
(***************************************************************************)
\* Type invariant.
TypeOK ==
  /\ racy \in BOOLEAN
  /\ built \in [Files -> Contents]
  /\ lastCompiled \in [Files -> Contents]
  /\ pc \in {"next", "baseline", "gut", "opposite", "stub"}
  /\ blocks \in 0 .. MaxBlocks
  /\ sutOf \subseteq Fns /\ todo \subseteq Fns
  /\ pos \in [Fns -> Results] /\ oppRed \in [Names -> Results]
  /\ survivor \in [own : BOOLEAN, again : BOOLEAN]
  /\ compiled \subseteq Mutants

\* In a project of one module, the first time a run builds a mutant a survivor is
\* one: the test stayed green on the mutant's own classes, however stale the build,
\* whatever stubs and rechecks were built between, and whichever file of a bare name
\* the opposite mutants were remembered for.
FirstSurvivorReal == ~survivor.own => survivor.again
=============================================================================
