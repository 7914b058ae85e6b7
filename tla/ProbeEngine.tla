---------------------------- MODULE ProbeEngine ----------------------------
(***************************************************************************)
(* The probe engine of mutation/prove.mjs, from the moment prove() owns    *)
(* the repository lock and a work copy until it has a verdict for every    *)
(* test block.                                                             *)
(*                                                                         *)
(* Pass 1 visits the blocks in order.  A block is settled without running  *)
(* it (a gate, no eligible function, a budget), or its baseline is run and *)
(* its eligible functions are gutted one at a time; relational functions   *)
(* may be put off to pass 2, which drains them on the budget that is left. *)
(* The fold turns the evidence of a block into one verdict.                *)
(*                                                                         *)
(* A step is one call of the test runner (runOne) with the tree edit and   *)
(* the revert around it: nothing else reads the work copy in between.      *)
(* What the static analysis of a block finds, and what a run of it         *)
(* returns, is chosen when the engine looks, and kept.                     *)
(***************************************************************************)
EXTENDS Integers, FiniteSets

CONSTANTS
  N,          \* number of test blocks, in the order prove() visits them
  K,          \* eligible entries (fn, sutRel) a block can have
  FnOf,       \* FnOf[e]: the bare function name of entry e, not always its own
  MaxProbes,  \* opts.maxProbes
  EnvAbort,   \* ENV_ABORT_THRESHOLD
  Deep,       \* opts.deep
  Jvm,        \* runner is gradle or maven
  Timed       \* opts.timeBudgetMs is set

ASSUME SizeAssumption == N \in Nat /\ K \in Nat
ASSUME BudgetAssumption == MaxProbes \in Nat \ {0} /\ EnvAbort \in Nat \ {0}
ASSUME OptionAssumption == {Deep, Jvm, Timed} \subseteq BOOLEAN

Blocks  == 1 .. N
Entries == 1 .. K
Fns     == {FnOf[e] : e \in Entries}

(***************************************************************************)
(* What one run of the selected test shows: some test failed, at least one *)
(* passed and none failed, or nothing ran (skip, no match, timeout).       *)
(***************************************************************************)
Runs == {"red", "green", "zero"}

\* A mutant run can also be void on a JVM runner: the mutant did not compile,
\* or gradle's stale-build gate rejects a green.
MutantRuns == IF Jvm THEN Runs \cup {"void"} ELSE Runs

InconclusiveWhys == {"ambiguous", "failing", "didNotRun", "flaky", "zeroTests"}
SkipWhys == {"runnerMismatch", "sourceSet", "unprobeable",
             "relUnbound", "ungutable", "sutUnresolved"}
Verdicts == {"caught", "hollow", "oneSided", "capped", "envAborted", "outOfScope"}
            \cup InconclusiveWhys \cup SkipWhys
Scored == {"caught", "hollow", "oneSided"}

VARIABLES
  pc,        \* the point prove() has reached
  pass,      \* 1 or 2
  cur,       \* the block being worked on
  todo,      \* the entries the current loop has still to run
  kind,      \* kind[b][e]: how entry e binds block b, or "none"
  pos,       \* pos[b][e]: what gutting e with the first sentinel showed
  opp,       \* opp[b][f]: oppRed of the fold, keyed by the bare name f
  stable,    \* stable[b]: result of the recheck without a mutant
  starved,   \* ctx.relStarved
  deferred,  \* deferredBlocks
  verdict, rows, recs,    \* per block: verdict, public rows, blockRecords
  oneSided, weak, pairs,  \* the oneSided, weak and proven[].pairs rows
  probes, okBase, badBase, late

ledgerVars == <<verdict, rows, recs>>
evidenceVars == <<kind, pos, opp, stable, starved>>
advisoryVars == <<oneSided, weak, pairs>>
baseVars == <<okBase, badBase>>
vars == <<pc, pass, cur, todo, deferred, probes, late, ledgerVars, evidenceVars,
          advisoryVars, baseVars>>

Eligible(b)   == {e \in Entries : kind[b][e] # "none"}
ValueFns(b)   == {e \in Entries : kind[b][e] = "value"}
RelFns(b)     == {e \in Entries : kind[b][e] = "rel"}
BrokeFns(b)   == {e \in Entries : pos[b][e] = "red"}
SurvivorFns(b) == {e \in Entries : pos[b][e] = "green"}
AnyGutted(b)  == \E e \in Entries : pos[b][e] \in Runs
SawCompileFail(b) == \E e \in Entries : pos[b][e] = "void"

Init ==
  /\ pc = "block" /\ pass = 1 /\ cur = 1 /\ todo = {} /\ deferred = {}
  /\ kind = [b \in Blocks |-> [e \in Entries |-> "none"]]
  /\ pos = [b \in Blocks |-> [e \in Entries |-> "untried"]]
  /\ opp = [b \in Blocks |-> [f \in Fns |-> "noEvidence"]]
  /\ stable = [b \in Blocks |-> "unchecked"]
  /\ starved = [b \in Blocks |-> FALSE]
  /\ verdict = [b \in Blocks |-> "pending"]
  /\ rows = [b \in Blocks |-> 0]
  /\ recs = [b \in Blocks |-> 0]
  /\ oneSided = {} /\ weak = {} /\ pairs = {}
  /\ probes = 0 /\ okBase = 0 /\ badBase = 0 /\ late = FALSE

-----------------------------------------------------------------------------
(***************************************************************************)
(* Settling a block: one row in a public list or counter, and usually one  *)
(* blockRecords entry for classifyChanges.                                 *)
(***************************************************************************)
SettleWith(b, v, r) ==
  /\ verdict' = [verdict EXCEPT ![b] = v]
  /\ rows' = [rows EXCEPT ![b] = @ + 1]
  /\ recs' = [recs EXCEPT ![b] = @ + r]

Settle(b, v) == SettleWith(b, v, 1)

NextBlock == pc' = "block" /\ cur' = cur + 1 /\ todo' = {}

\* A block of pass 1 that is settled without being probed.
Dismiss(v) ==
  /\ Settle(cur, v)
  /\ NextBlock
  /\ UNCHANGED <<pass, deferred, probes, late, evidenceVars, advisoryVars>>

\* Mutant: the probe cap is never consulted.
BudgetClockOnly == late
BudgetSpent == probes >= MaxProbes \/ late

AtBlock == pc = "block" /\ pass = 1 /\ cur \in Blocks

\* The runner cannot run this file's language: the record is written first, a
\* block of an untouched file is then only counted.
RunnerMismatch ==
  /\ AtBlock
  /\ \E v \in {"runnerMismatch", "outOfScope"} : Dismiss(v)
  /\ UNCHANGED baseVars

\* An unsupported JVM source set: an untouched file's block is counted and
\* dropped before the record is written.
UnsupportedSourceSet ==
  /\ AtBlock /\ Jvm
  /\ \/ SettleWith(cur, "sourceSet", 1)
     \/ SettleWith(cur, "outOfScope", 0)
  /\ NextBlock
  /\ UNCHANGED <<pass, deferred, probes, late, evidenceVars, advisoryVars, baseVars>>

\* Past the wall-clock budget a block is not even analysed.
CapUnanalysed == AtBlock /\ late /\ Dismiss("capped") /\ UNCHANGED baseVars

\* Analysis finds the block untouched by the diff, or nothing to gut in it.
NotProbeable ==
  /\ AtBlock /\ ~late
  /\ \E v \in {"outOfScope", "unprobeable"} : Dismiss(v)
  /\ UNCHANGED baseVars

\* Analysis finds eligible entries: the block goes on to the pre-probe gates.
Analyse ==
  /\ AtBlock /\ ~late
  /\ \E ks \in [Entries -> {"none", "value", "rel"}] :
       /\ \E e \in Entries : ks[e] # "none"
       /\ kind' = [kind EXCEPT ![cur] = ks]
  /\ pc' = "gates"
  /\ UNCHANGED <<pass, cur, todo, deferred, probes, late, pos, opp, stable, starved,
                 ledgerVars, advisoryVars, baseVars>>

Cap == pc = "gates" /\ BudgetSpent /\ Dismiss("capped") /\ UNCHANGED baseVars

\* Mutant: the run gives up one failing baseline early.
EnvOneEarly == okBase = 0 /\ badBase + 1 >= EnvAbort
EnvBroken == okBase = 0 /\ badBase >= EnvAbort

AbortOnEnv ==
  /\ pc = "gates" /\ ~BudgetSpent /\ EnvBroken
  /\ Dismiss("envAborted") /\ UNCHANGED baseVars

\* A residual title collision fails closed before the baseline.
AmbiguousTitle ==
  /\ pc = "gates" /\ ~BudgetSpent /\ ~EnvBroken
  /\ Dismiss("ambiguous") /\ UNCHANGED baseVars

BaselineBad ==
  /\ pc = "gates" /\ ~BudgetSpent /\ ~EnvBroken
  /\ badBase' = badBase + 1 /\ okBase' = okBase
  /\ \E v \in {"failing", "didNotRun"} : Dismiss(v)

BaselineGreen ==
  /\ pc = "gates" /\ ~BudgetSpent /\ ~EnvBroken
  /\ okBase' = okBase + 1 /\ badBase' = badBase
  /\ pc' = "value" /\ todo' = ValueFns(cur)
  /\ UNCHANGED <<pass, cur, deferred, probes, late, evidenceVars, ledgerVars, advisoryVars>>

-----------------------------------------------------------------------------
(***************************************************************************)
(* gutOneFn: write the gutted function, run, restore it.  Nothing happens  *)
(* when the body cannot be located or the edit changes nothing; a void     *)
(* run is not counted.                                                     *)
(***************************************************************************)
First(S) == {e \in S : \A x \in S : e <= x}

\* anyGutted and probes++ want a run of the mutant.
Counts(out) == out \in Runs

Gut(e) ==
  /\ \E out \in MutantRuns \cup {"unlocated"} :
       /\ pos' = [pos EXCEPT ![cur][e] = out]
       /\ probes' = IF Counts(out) THEN probes + 1 ELSE probes
  /\ todo' = todo \ {e}
  /\ UNCHANGED <<pc, pass, cur, deferred, late, kind, opp, stable, starved,
                 ledgerVars, advisoryVars, baseVars>>

GutValue == pc = "value" /\ \E e \in First(todo) : Gut(e)

\* Mutant: inline whenever there are value entries, broken or not.
HasValueFns(b) == ValueFns(b) # {}
\* No value function broke the test: its evidence could already accuse.
AccusationShaped(b) == ValueFns(b) # {} /\ BrokeFns(b) = {}

\* Mutant: the block is forgotten.
QueueForgets == deferred
Queued == deferred \cup {cur}

\* After the value entries: fold now, gut the relational entries inline because
\* an accusation is at stake, or put them off to pass 2.
AfterValue ==
  /\ pc = "value" /\ todo = {}
  /\ \/ /\ RelFns(cur) = {}
        /\ pc' = "fold"
        /\ UNCHANGED <<cur, todo, deferred>>
     \/ /\ RelFns(cur) # {} /\ AccusationShaped(cur)
        /\ pc' = "relInline" /\ todo' = RelFns(cur)
        /\ UNCHANGED <<cur, deferred>>
     \/ /\ RelFns(cur) # {} /\ ~AccusationShaped(cur)
        /\ deferred' = Queued
        /\ NextBlock
  /\ UNCHANGED <<pass, probes, late, evidenceVars, ledgerVars, advisoryVars, baseVars>>

GutRelInline == pc = "relInline" /\ \E e \in First(todo) : Gut(e)

AfterRelInline ==
  /\ pc = "relInline" /\ todo = {} /\ pc' = "fold"
  /\ UNCHANGED <<pass, cur, todo, deferred, probes, late, evidenceVars, ledgerVars,
                 advisoryVars, baseVars>>

-----------------------------------------------------------------------------
(***************************************************************************)
(* Pass 2: the deferred blocks in order, the budget checked per function.  *)
(***************************************************************************)
StartPass2 ==
  /\ pc = "block" /\ pass = 1 /\ cur \notin Blocks
  /\ pass' = 2 /\ pc' = "drain" /\ todo' = {}
  /\ UNCHANGED <<cur, deferred, probes, late, evidenceVars, ledgerVars, advisoryVars, baseVars>>

\* Mutant: the drain does not consume its queue.
StillQueued(b) == deferred
Dequeued(b) == deferred \ {b}

TakeDeferred ==
  /\ pc = "drain"
  /\ \E b \in First(deferred) :
       /\ cur' = b /\ deferred' = Dequeued(b)
       /\ todo' = RelFns(b)
  /\ pc' = "relLate"
  /\ UNCHANGED <<pass, probes, late, evidenceVars, ledgerVars, advisoryVars, baseVars>>

GutRelLate ==
  /\ pc = "relLate" /\ ~BudgetSpent
  /\ \E e \in First(todo) : Gut(e)

AfterRelLate ==
  /\ pc = "relLate" /\ todo = {} /\ pc' = "fold"
  /\ UNCHANGED <<pass, cur, todo, deferred, probes, late, evidenceVars, ledgerVars,
                 advisoryVars, baseVars>>

CutOff == todo # {} /\ BudgetSpent

\* Mutant: ctx.relStarved is not set.
StarvedUnset == starved
StarvedSet == [starved EXCEPT ![cur] = TRUE]

\* The budget ran out with relational entries left: a block nothing of which
\* ran is capped, any other is folded as starved.
Starve ==
  /\ pc = "relLate" /\ CutOff
  /\ todo' = {}
  /\ \/ /\ ~AnyGutted(cur)
        /\ Settle(cur, "capped") /\ pc' = "drain"
        /\ UNCHANGED starved
     \/ /\ AnyGutted(cur)
        /\ starved' = StarvedSet /\ pc' = "fold"
        /\ UNCHANGED ledgerVars
  /\ UNCHANGED <<pass, cur, deferred, probes, late, kind, pos, opp, stable,
                 advisoryVars, baseVars>>

Finish ==
  /\ pc = "drain" /\ deferred = {} /\ pc' = "done"
  /\ UNCHANGED <<pass, cur, todo, deferred, probes, late, evidenceVars, ledgerVars,
                 advisoryVars, baseVars>>

-----------------------------------------------------------------------------
(***************************************************************************)
(* foldBlock.  The unmutated rerun comes first when nothing broke and      *)
(* something survived; then the opposite sentinel, over the survivors, or  *)
(* with --deep over everything that ran red or green.                      *)
(***************************************************************************)
AccusationAtStake(b) == BrokeFns(b) = {} /\ SurvivorFns(b) # {}

OppositeTargets(b) ==
  IF Deep THEN BrokeFns(b) \cup SurvivorFns(b)
  ELSE IF BrokeFns(b) = {} THEN SurvivorFns(b) ELSE {}

\* The loop runs over [...brokeFns, ...survivorFns], each in gut order.
GutOrder(b, e) == IF kind[b][e] = "rel" THEN K + e ELSE e
OppOrder(b, e) == IF pos[b][e] = "red" THEN GutOrder(b, e) ELSE 2 * K + GutOrder(b, e)
FirstOpp(b, S) == {e \in S : \A x \in S : OppOrder(b, e) <= OppOrder(b, x)}

FlakeFirst ==
  /\ pc = "fold" /\ AccusationAtStake(cur)
  /\ \E run \in {"stable", "flaky"} :
       /\ stable' = [stable EXCEPT ![cur] = run]
       /\ todo' = IF run = "flaky" THEN {} ELSE OppositeTargets(cur)
  /\ pc' = "opposite"
  /\ UNCHANGED <<pass, cur, deferred, probes, late, kind, pos, opp, starved,
                 ledgerVars, advisoryVars, baseVars>>

NoFlakeCheck ==
  /\ pc = "fold" /\ ~AccusationAtStake(cur)
  /\ todo' = OppositeTargets(cur) /\ pc' = "opposite"
  /\ UNCHANGED <<pass, cur, deferred, probes, late, evidenceVars, ledgerVars,
                 advisoryVars, baseVars>>

\* Mutant: an empty or void run counts as opposite evidence.
AnyRun(out) == out # "absent"
Evidence(out) == out \in {"red", "green"}

\* No opposite mutant exists, or it runs; a void or empty run is no evidence,
\* otherwise the last result for the bare name stands.
GutOpposite ==
  /\ pc = "opposite"
  /\ \E e \in FirstOpp(cur, todo) :
       /\ \E out \in MutantRuns \cup {"absent"} :
            /\ probes' = IF out = "absent" THEN probes ELSE probes + 1
            /\ opp' = IF Evidence(out)
                      THEN [opp EXCEPT ![cur][FnOf[e]] = out] ELSE opp
       /\ todo' = todo \ {e}
  /\ UNCHANGED <<pc, pass, cur, deferred, late, kind, pos, stable, starved,
                 ledgerVars, advisoryVars, baseVars>>

BoundFns(b)    == {e \in BrokeFns(b) : opp[b][FnOf[e]] # "green"}
OneSidedFns(b) == {e \in BrokeFns(b) : opp[b][FnOf[e]] = "green"}
                  \cup {e \in SurvivorFns(b) : opp[b][FnOf[e]] = "red"}
BlindAll(b)    == {e \in SurvivorFns(b) : opp[b][FnOf[e]] # "red"}
BlindFns(b)    == BlindAll(b) \ RelFns(b)
RelUnboundFns(b) == BlindAll(b) \cap RelFns(b)

\* sutOf: the last eligible entry of that bare name.
SutOf(b, f) == {e \in Eligible(b) : FnOf[e] = f /\
                  \A x \in Eligible(b) : FnOf[x] = f => x <= e}

FlakyBlock(b) == stable[b] = "flaky"
TooPartial(b) == starved[b] /\ BlindFns(b) \cup OneSidedFns(b) # {}

\* The verdict of a block whose every mutant run is in, in the order the fold
\* tests for it; a hollow is first rechecked when only --deep led to it.
FoldVerdict(b) ==
  IF BoundFns(b) # {} THEN "caught"
  ELSE IF FlakyBlock(b) THEN "flaky"
  ELSE IF TooPartial(b) THEN "capped"
  ELSE IF BlindFns(b) # {} THEN "hollow"
  ELSE IF OneSidedFns(b) # {} THEN "oneSided"
  ELSE IF RelUnboundFns(b) # {} THEN "relUnbound"
  ELSE IF AnyGutted(b) THEN "zeroTests"
  ELSE IF SawCompileFail(b) THEN "ungutable"
  ELSE "sutUnresolved"

\* After the fold: the identity stubs of --deep, then the next block.
AfterFold ==
  /\ pc' = IF Deep THEN "stub" ELSE IF pass = 1 THEN "block" ELSE "drain"
  /\ cur' = IF ~Deep /\ pass = 1 THEN cur + 1 ELSE cur
  /\ todo' = IF Deep THEN BrokeFns(cur) ELSE {}

PushOneSided == oneSided' = oneSided \cup {<<cur, e>> : e \in OneSidedFns(cur)}

\* Mutant: a hollow reached only through --deep is not rechecked.
RecheckSkipped(b) == FALSE
RecheckNeeded(b) == FoldVerdict(b) = "hollow" /\ stable[b] = "unchecked"

Fold ==
  /\ pc = "opposite" /\ todo = {} /\ ~RecheckNeeded(cur)
  /\ Settle(cur, FoldVerdict(cur))
  /\ PushOneSided
  /\ pairs' = IF FoldVerdict(cur) = "caught"
              THEN pairs \cup {<<cur, s>> : s \in UNION {SutOf(cur, FnOf[e]) : e \in BoundFns(cur)}}
              ELSE pairs
  /\ AfterFold
  /\ UNCHANGED <<pass, deferred, probes, late, evidenceVars, weak, baseVars>>

RecheckLate ==
  /\ pc = "opposite" /\ todo = {} /\ RecheckNeeded(cur)
  /\ \E run \in {"stable", "flaky"} :
       /\ stable' = [stable EXCEPT ![cur] = run]
       /\ Settle(cur, IF run = "stable" THEN "hollow" ELSE "flaky")
  /\ PushOneSided
  /\ AfterFold
  /\ UNCHANGED <<pass, deferred, probes, late, kind, pos, opp, starved, weak, pairs, baseVars>>

\* --deep: an identity stub of each function that broke; surviving it is an
\* advisory row, never a verdict.
StubOne ==
  /\ pc = "stub"
  /\ \E e \in First(todo) :
       /\ \E out \in MutantRuns \cup {"absent"} :
            /\ probes' = IF out = "absent" THEN probes ELSE probes + 1
            /\ weak' = IF out = "green" THEN weak \cup {<<cur, e>>} ELSE weak
       /\ todo' = todo \ {e}
  /\ UNCHANGED <<pc, pass, cur, deferred, late, evidenceVars, ledgerVars, oneSided, pairs, baseVars>>

AfterStub ==
  /\ pc = "stub" /\ todo = {}
  /\ pc' = IF pass = 1 THEN "block" ELSE "drain"
  /\ cur' = IF pass = 1 THEN cur + 1 ELSE cur
  /\ UNCHANGED <<pass, todo, deferred, probes, late, evidenceVars, ledgerVars,
                 advisoryVars, baseVars>>

-----------------------------------------------------------------------------
\* The wall-clock budget runs out between two steps of the engine.
TimeOut ==
  /\ Timed /\ ~late /\ pc # "done" /\ late' = TRUE
  /\ UNCHANGED <<pc, pass, cur, todo, deferred, probes, ledgerVars, evidenceVars,
                 advisoryVars, baseVars>>

Gates == \/ RunnerMismatch \/ UnsupportedSourceSet \/ CapUnanalysed \/ NotProbeable
         \/ Analyse \/ Cap \/ AbortOnEnv \/ AmbiguousTitle
Probe == \/ BaselineBad \/ BaselineGreen \/ GutValue \/ AfterValue
         \/ GutRelInline \/ AfterRelInline
Drain == \/ StartPass2 \/ TakeDeferred \/ GutRelLate \/ AfterRelLate \/ Starve \/ Finish
FoldBlock == \/ FlakeFirst \/ NoFlakeCheck \/ GutOpposite \/ Fold \/ RecheckLate
             \/ StubOne \/ AfterStub

Engine == Gates \/ Probe \/ Drain \/ FoldBlock
Next == Engine \/ TimeOut

Spec == Init /\ [][Next]_vars

-----------------------------------------------------------------------------
(***************************************************************************)
(* Properties.                                                             *)
(***************************************************************************)
MutantOutcomes == Runs \cup {"void"}

\* Type invariant.
TypeOK ==
  /\ pc \in {"block", "gates", "value", "relInline", "relLate", "drain", "fold",
             "opposite", "stub", "done"}
  /\ pass \in {1, 2}
  /\ cur \in 1 .. N + 1
  /\ pc \notin {"block", "drain", "done"} => cur \in Blocks
  /\ todo \subseteq Entries
  /\ deferred \subseteq Blocks
  /\ kind \in [Blocks -> [Entries -> {"none", "value", "rel"}]]
  /\ pos \in [Blocks -> [Entries -> MutantOutcomes \cup {"untried", "unlocated"}]]
  /\ opp \in [Blocks -> [Fns -> {"noEvidence", "red", "green"}]]
  /\ stable \in [Blocks -> {"unchecked", "stable", "flaky"}]
  /\ starved \in [Blocks -> BOOLEAN]
  /\ verdict \in [Blocks -> Verdicts \cup {"pending"}]
  /\ rows \in [Blocks -> Nat]
  /\ recs \in [Blocks -> Nat]
  /\ oneSided \subseteq Blocks \X Entries
  /\ weak \subseteq Blocks \X Entries
  /\ pairs \subseteq Blocks \X Entries
  /\ probes \in Nat /\ okBase \in Nat /\ badBase \in Nat
  /\ late \in BOOLEAN

\* Every block gets exactly one public row (a list entry or a counter), in
\* whichever pass it is settled, and none is left over when prove() returns.
\* Its blockRecords entry is written with it; only the source-set gate drops a
\* block of an untouched file without one.
Accounted ==
  /\ \A b \in Blocks :
       /\ rows[b] = IF verdict[b] = "pending" THEN 0 ELSE 1
       /\ recs[b] = rows[b] \/ (Jvm /\ verdict[b] = "outOfScope" /\ recs[b] = 0)
  /\ pc = "done" => \A b \in Blocks : verdict[b] # "pending"

\* Confirm before accusing: a hollow block was rerun green without a mutant, has a
\* value-bound function whose mutant survived and for whose name no red opposite
\* run stands, and has no function that broke and was not demoted by --deep.  The
\* opposite run is remembered by bare name: of two functions of one name the later
\* run speaks for both.
HollowEarned ==
  \A b \in Blocks : verdict[b] = "hollow" =>
    /\ stable[b] = "stable"
    /\ \E e \in Entries : kind[b][e] = "value" /\ pos[b][e] = "green"
                          /\ opp[b][FnOf[e]] # "red"
    /\ \A e \in Entries : pos[b][e] = "red" => Deep /\ opp[b][FnOf[e]] = "green"

\* No accusation, and no "could not be located", is made while an eligible
\* function of the block was never tried, however the budget cut the two passes.
NoPartialVerdict ==
  \A b \in Blocks :
    verdict[b] \in {"hollow", "oneSided", "ungutable", "sutUnresolved"} =>
      \A e \in Entries : kind[b][e] # "none" => pos[b][e] # "untried"

\* Pass 1 spends a probe on a relational function only when the value functions
\* of its block exist and all failed to break it, and a block put off to pass 2
\* never waits with such an accusation open.
RelationalWaits ==
  /\ pass = 1 =>
       \A b \in Blocks, e \in Entries :
         kind[b][e] = "rel" /\ pos[b][e] # "untried" =>
           /\ \E v \in Entries : kind[b][v] = "value"
           /\ \A v \in Entries : kind[b][v] = "value" => pos[b][v] \notin {"red", "untried"}
  /\ \A b \in deferred :
       \/ \A e \in Entries : kind[b][e] # "value"
       \/ \E e \in Entries : kind[b][e] = "value" /\ pos[b][e] = "red"

\* The cap is only checked between blocks and, in pass 2, between relational
\* functions.  A plain run passes it by at most what one block still has to run,
\* its mutants and their opposites.  With --deep every block put off to pass 2
\* still pays for its opposites and stubs after the cap, so the excess grows
\* with the number of blocks.
BudgetBound == probes < MaxProbes + (IF Deep THEN 2 * N + 1 ELSE 2) * K

\* The environment abort is permanent and sound: a run that gave up on its
\* environment never had a green baseline, ran no mutant and scored nothing.
EnvAbortSound ==
  (\E b \in Blocks : verdict[b] = "envAborted") =>
    /\ okBase = 0 /\ probes = 0 /\ badBase >= EnvAbort
    /\ \A b \in Blocks : verdict[b] \notin Scored

-----------------------------------------------------------------------------
(***************************************************************************)
(* The engine implements ProbeLedger.                                      *)
(***************************************************************************)
Seen == [b \in Blocks |-> {run \in {"red", "green"} : \E e \in Entries : pos[b][e] = run}]

Ledger == INSTANCE ProbeLedger
            WITH ledger <- verdict, seen <- Seen, closed <- (pc = "done")

\* One final verdict for each block, never changed and never followed by a
\* mutant run charged to the block, backed by what its mutants showed; the
\* result is returned only when every block has one.
ImplementsLedger == Ledger!Spec
=============================================================================
