------------------------- MODULE ProbeEngineProofs -------------------------
(***************************************************************************)
(* Theorems about ProbeEngine, for any number of blocks and entries, any   *)
(* budget and any options.                                                 *)
(*                                                                         *)
(* None of the properties is inductive.  IInv adds where the engine is:    *)
(* which blocks are still open (Open), that the evidence of a block that   *)
(* has not been reached is blank (Fresh), which entries the loops have yet *)
(* to try (Loops), and that without --deep a block with a broken function  *)
(* has no opposite evidence (PlainOpp).  The second part is about the two  *)
(* passes: what the environment abort implies, which functions wait for    *)
(* pass 2, whose mutants the proven pairs stand on, and how far a run goes *)
(* past its probe cap.                                                     *)
(***************************************************************************)
EXTENDS ProbeEngine, FiniteSetTheorems, TLAPS

Working == {"block", "gates", "value", "relInline", "relLate", "fold", "opposite"}

\* The pass each point of the engine belongs to.
Passes ==
  /\ pc \in {"block", "gates", "value", "relInline"} => pass = 1
  /\ pc \in {"relLate", "drain", "done"} => pass = 2
  /\ pc = "done" => deferred = {}

\* The blocks that still wait for their verdict, and no others.
IsOpen(b) == \/ b \in deferred
             \/ b = cur /\ pc \in Working
             \/ pass = 1 /\ b > cur

Open ==
  /\ \A b \in Blocks : verdict[b] = "pending" <=> IsOpen(b)
  /\ \A b \in deferred : (pass = 1 => b < cur) /\ (pc \in Working => b # cur)

\* Nothing is known of a block before its turn, and opposite evidence and the
\* result of the recheck come last.
Reached(b) == ~(pass = 1 /\ (b > cur \/ (b = cur /\ pc \in {"block", "gates"})))

Fresh ==
  \A b \in Blocks :
    /\ ~Reached(b) => \A e \in Entries : pos[b][e] = "untried"
    /\ verdict[b] = "pending" /\ ~(b = cur /\ pc = "opposite") =>
         \A f \in Fns : opp[b][f] = "noEvidence"

Tried(b, e) == pos[b][e] # "untried"

\* Which entries of the current block, and of the deferred blocks, were tried.
Loops ==
  /\ \A b \in Blocks, e \in Entries : Tried(b, e) => kind[b][e] # "none"
  /\ pc = "value" =>
       /\ todo \subseteq ValueFns(cur)
       /\ \A e \in ValueFns(cur) : e \in todo \/ Tried(cur, e)
  /\ pc \in {"relInline", "relLate"} =>
       /\ todo \subseteq RelFns(cur)
       /\ \A e \in ValueFns(cur) : Tried(cur, e)
       /\ \A e \in RelFns(cur) : e \in todo \/ Tried(cur, e)
  /\ pc \in {"fold", "opposite"} =>
       \A e \in Eligible(cur) : Tried(cur, e) \/ (starved[cur] /\ AnyGutted(cur))
  /\ \A b \in deferred : \A e \in ValueFns(b) : Tried(b, e)

\* Without --deep only the survivors of a block nothing broke get an opposite.
PlainOpp ==
  /\ \A b \in Blocks, e \in Entries :
       ~Deep /\ pos[b][e] = "red" => \A f \in Fns : opp[b][f] = "noEvidence"
  /\ pc = "opposite" /\ ~Deep /\ BrokeFns(cur) # {} => todo = {}

RowsMatch ==
  \A b \in Blocks :
    /\ rows[b] = IF verdict[b] = "pending" THEN 0 ELSE 1
    /\ recs[b] = rows[b] \/ (Jvm /\ verdict[b] = "outOfScope" /\ recs[b] = 0)

IInv == /\ TypeOK /\ Passes /\ Open /\ Fresh /\ Loops /\ PlainOpp
        /\ RowsMatch /\ HollowEarned /\ NoPartialVerdict

USE SizeAssumption, BudgetAssumption, OptionAssumption
USE DEF Counts, Queued, Dequeued, CutOff, StarvedSet, Evidence, AccusationShaped, FlakyBlock,
        TooPartial

(***************************************************************************)
(* Type correctness.                                                       *)
(***************************************************************************)
LEMMA FoldVerdictType == ASSUME NEW b PROVE FoldVerdict(b) \in Verdicts
  BY DEF FoldVerdict, Verdicts, InconclusiveWhys, SkipWhys

LEMMA SutOfType == ASSUME NEW b, NEW f PROVE SutOf(b, f) \subseteq Entries
  BY DEF SutOf, Eligible

LEMMA NextCur == cur \in Blocks => cur + 1 \in 1 .. N + 1
  BY DEF Blocks

LEMMA SettleType ==
  ASSUME TypeOK, NEW b \in Blocks, NEW v \in Verdicts, NEW r \in Nat, SettleWith(b, v, r)
  PROVE  /\ verdict' \in [Blocks -> Verdicts \cup {"pending"}]
         /\ rows' \in [Blocks -> Nat]
         /\ recs' \in [Blocks -> Nat]
  BY DEF SettleWith, TypeOK

LEMMA TypeInit == Init => TypeOK
  <1> SUFFICES ASSUME Init PROVE TypeOK
    OBVIOUS
  <1>1. /\ kind \in [Blocks -> [Entries -> {"none", "value", "rel"}]]
        /\ pos \in [Blocks -> [Entries -> MutantOutcomes \cup {"untried", "unlocated"}]]
        /\ opp \in [Blocks -> [Fns -> {"noEvidence", "red", "green"}]]
    BY DEF Init
  <1>2. /\ stable \in [Blocks -> {"unchecked", "stable", "flaky"}]
        /\ starved \in [Blocks -> BOOLEAN]
        /\ verdict \in [Blocks -> Verdicts \cup {"pending"}]
        /\ rows \in [Blocks -> Nat]
        /\ recs \in [Blocks -> Nat]
    BY DEF Init
  <1>3. cur \in 1 .. N + 1
    BY DEF Init
  <1> QED
    BY <1>1, <1>2, <1>3 DEF Init, TypeOK

\* A block of pass 1 settled without being probed keeps the types.
LEMMA DismissType ==
  ASSUME TypeOK, cur \in Blocks, NEW v \in Verdicts, Dismiss(v),
         okBase' \in Nat, badBase' \in Nat
  PROVE  TypeOK'
  <1>1. /\ verdict' \in [Blocks -> Verdicts \cup {"pending"}]
        /\ rows' \in [Blocks -> Nat]
        /\ recs' \in [Blocks -> Nat]
    BY SettleType DEF Dismiss, Settle
  <1> QED
    BY <1>1, NextCur DEF TypeOK, Dismiss, NextBlock, evidenceVars, advisoryVars

LEMMA GutType ==
  ASSUME TypeOK, cur \in Blocks, NEW e \in Entries, Gut(e)
  PROVE  TypeOK'
  <1>1. PICK out \in MutantRuns \cup {"unlocated"} :
          /\ pos' = [pos EXCEPT ![cur][e] = out]
          /\ probes' = IF out \in Runs THEN probes + 1 ELSE probes
    BY DEF Gut
  <1>2. out \in MutantOutcomes \cup {"untried", "unlocated"}
    BY DEF MutantRuns, MutantOutcomes, Runs
  <1>3. pos' \in [Blocks -> [Entries -> MutantOutcomes \cup {"untried", "unlocated"}]]
    BY <1>1, <1>2 DEF TypeOK
  <1>4. probes' \in Nat
    BY <1>1 DEF TypeOK
  <1> QED
    BY <1>3, <1>4 DEF TypeOK, Gut, ledgerVars, advisoryVars, baseVars

\* Every step of the gates keeps the types.
LEMMA GatesType == TypeOK /\ Gates => TypeOK'
  <1> SUFFICES ASSUME TypeOK, Gates PROVE TypeOK'
    OBVIOUS
  <1> USE DEF AtBlock, baseVars
  <1>a. okBase \in Nat /\ badBase \in Nat
    BY DEF TypeOK
  <1>b. pc = "gates" => cur \in Blocks
    BY DEF TypeOK
  <1>1. CASE RunnerMismatch
    BY <1>1, <1>a, DismissType DEF RunnerMismatch, Verdicts, SkipWhys
  <1>2. CASE UnsupportedSourceSet
    <2>1. /\ verdict' \in [Blocks -> Verdicts \cup {"pending"}]
          /\ rows' \in [Blocks -> Nat]
          /\ recs' \in [Blocks -> Nat]
      BY <1>2, SettleType DEF UnsupportedSourceSet, Verdicts, SkipWhys
    <2> QED
      BY <1>2, <2>1, NextCur DEF UnsupportedSourceSet, TypeOK, NextBlock, evidenceVars,
              advisoryVars
  <1>3. CASE CapUnanalysed
    BY <1>3, <1>a, DismissType DEF CapUnanalysed, Verdicts
  <1>4. CASE NotProbeable
    BY <1>4, <1>a, DismissType DEF NotProbeable, Verdicts, SkipWhys
  <1>5. CASE Analyse
    BY <1>5 DEF Analyse, TypeOK, ledgerVars, advisoryVars
  <1>6. CASE Cap
    BY <1>6, <1>a, <1>b, DismissType DEF Cap, Verdicts
  <1>7. CASE AbortOnEnv
    BY <1>7, <1>a, <1>b, DismissType DEF AbortOnEnv, Verdicts
  <1>8. CASE AmbiguousTitle
    BY <1>8, <1>a, <1>b, DismissType DEF AmbiguousTitle, Verdicts, InconclusiveWhys
  <1> QED
    BY <1>1, <1>2, <1>3, <1>4, <1>5, <1>6, <1>7, <1>8 DEF Gates

LEMMA ProbeType == TypeOK /\ Probe => TypeOK'
  <1> SUFFICES ASSUME TypeOK, Probe PROVE TypeOK'
    OBVIOUS
  <1>1. CASE BaselineBad
    <2>1. cur \in Blocks /\ okBase' \in Nat /\ badBase' \in Nat
      BY <1>1 DEF BaselineBad, TypeOK
    <2> QED
      BY <1>1, <2>1, DismissType DEF BaselineBad, Verdicts, InconclusiveWhys
  <1>2. CASE BaselineGreen
    BY <1>2 DEF BaselineGreen, TypeOK, evidenceVars, ledgerVars, advisoryVars, ValueFns
  <1>3. CASE GutValue
    <2>1. cur \in Blocks /\ todo \subseteq Entries
      BY <1>3 DEF GutValue, TypeOK
    <2> QED
      BY <1>3, <2>1, GutType DEF GutValue, First
  <1>4. CASE AfterValue
    <2>1. cur \in Blocks /\ RelFns(cur) \subseteq Entries
      BY <1>4 DEF AfterValue, TypeOK, RelFns
    <2>2. /\ pc' \in {"fold", "relInline", "block"}
          /\ todo' \subseteq Entries /\ deferred' \subseteq Blocks
          /\ cur' \in 1 .. N + 1 /\ (pc' # "block" => cur' \in Blocks)
      BY <1>4, <2>1, NextCur DEF AfterValue, TypeOK, NextBlock
    <2> QED
      BY <1>4, <2>2 DEF AfterValue, TypeOK, evidenceVars, ledgerVars, advisoryVars, baseVars
  <1>5. CASE GutRelInline
    <2>1. cur \in Blocks /\ todo \subseteq Entries
      BY <1>5 DEF GutRelInline, TypeOK
    <2> QED
      BY <1>5, <2>1, GutType DEF GutRelInline, First
  <1>6. CASE AfterRelInline
    BY <1>6 DEF AfterRelInline, TypeOK, evidenceVars, ledgerVars, advisoryVars, baseVars
  <1> QED
    BY <1>1, <1>2, <1>3, <1>4, <1>5, <1>6 DEF Probe

LEMMA DrainType == TypeOK /\ Drain => TypeOK'
  <1> SUFFICES ASSUME TypeOK, Drain PROVE TypeOK'
    OBVIOUS
  <1> USE DEF evidenceVars, ledgerVars, advisoryVars, baseVars
  <1>1. CASE StartPass2
    BY <1>1 DEF StartPass2, TypeOK
  <1>2. CASE TakeDeferred
    <2>1. PICK b \in deferred : cur' = b /\ deferred' = deferred \ {b} /\ todo' = RelFns(b)
      BY <1>2 DEF TakeDeferred, First
    <2>2. b \in Blocks /\ b \in 1 .. N + 1
      BY <2>1 DEF TypeOK, Blocks
    <2>3. todo' \subseteq Entries /\ deferred' \subseteq Blocks
      BY <2>1 DEF RelFns, TypeOK
    <2> QED
      BY <1>2, <2>1, <2>2, <2>3 DEF TakeDeferred, TypeOK
  <1>3. CASE GutRelLate
    <2>1. cur \in Blocks /\ todo \subseteq Entries
      BY <1>3 DEF GutRelLate, TypeOK
    <2> QED
      BY <1>3, <2>1, GutType DEF GutRelLate, First
  <1>4. CASE AfterRelLate
    BY <1>4 DEF AfterRelLate, TypeOK
  <1>5. CASE Starve
    <2>1. cur \in Blocks
      BY <1>5 DEF Starve, TypeOK
    <2>2. /\ verdict' \in [Blocks -> Verdicts \cup {"pending"}]
          /\ rows' \in [Blocks -> Nat]
          /\ recs' \in [Blocks -> Nat]
      BY <1>5, <2>1, SettleType DEF Starve, Settle, Verdicts, TypeOK
    <2>3. starved' \in [Blocks -> BOOLEAN]
      BY <1>5 DEF Starve, TypeOK
    <2> QED
      BY <1>5, <2>1, <2>2, <2>3 DEF Starve, TypeOK
  <1>6. CASE Finish
    BY <1>6 DEF Finish, TypeOK
  <1> QED
    BY <1>1, <1>2, <1>3, <1>4, <1>5, <1>6 DEF Drain

LEMMA AfterFoldType ==
  ASSUME TypeOK, cur \in Blocks, AfterFold
  PROVE  /\ pc' \in {"block", "drain", "stub"} /\ (pc' = "stub" => cur' \in Blocks)
         /\ cur' \in 1 .. N + 1 /\ todo' \subseteq Entries
  BY NextCur DEF AfterFold, BrokeFns, TypeOK

LEMMA FoldType == TypeOK /\ FoldBlock => TypeOK'
  <1> SUFFICES ASSUME TypeOK, FoldBlock PROVE TypeOK'
    OBVIOUS
  <1> USE DEF evidenceVars, ledgerVars, advisoryVars, baseVars
  <1>a. cur \in Blocks /\ todo \subseteq Entries
    BY DEF FoldBlock, FlakeFirst, NoFlakeCheck, GutOpposite, Fold, RecheckLate, StubOne,
           AfterStub, TypeOK
  <1>b. OneSidedFns(cur) \subseteq Entries /\ OppositeTargets(cur) \subseteq Entries
        /\ BrokeFns(cur) \subseteq Entries
    BY DEF OneSidedFns, BrokeFns, SurvivorFns, OppositeTargets
  <1>1. CASE FlakeFirst
    BY <1>1, <1>a, <1>b DEF FlakeFirst, TypeOK
  <1>2. CASE NoFlakeCheck
    BY <1>2, <1>b DEF NoFlakeCheck, TypeOK
  <1>3. CASE GutOpposite
    <2>1. PICK e \in FirstOpp(cur, todo) : \E out \in MutantRuns \cup {"absent"} :
            /\ probes' = IF out = "absent" THEN probes ELSE probes + 1
            /\ opp' = IF out \in {"red", "green"}
                      THEN [opp EXCEPT ![cur][FnOf[e]] = out] ELSE opp
      BY <1>3 DEF GutOpposite
    <2>2. e \in Entries /\ FnOf[e] \in Fns
      BY <1>a, <2>1 DEF FirstOpp, Fns
    <2>3. opp' \in [Blocks -> [Fns -> {"noEvidence", "red", "green"}]] /\ probes' \in Nat
      BY <2>1, <2>2, <1>a DEF TypeOK
    <2> QED
      BY <1>3, <1>a, <2>3 DEF GutOpposite, TypeOK
  <1>4. CASE Fold
    <2>1. UNION {SutOf(cur, FnOf[e]) : e \in BoundFns(cur)} \subseteq Entries
      BY SutOfType
    <2>2. pairs' \subseteq Blocks \X Entries /\ oneSided' \subseteq Blocks \X Entries
      BY <1>4, <1>a, <1>b, <2>1 DEF Fold, PushOneSided, TypeOK
    <2>3. /\ verdict' \in [Blocks -> Verdicts \cup {"pending"}]
          /\ rows' \in [Blocks -> Nat] /\ recs' \in [Blocks -> Nat]
      BY <1>4, FoldVerdictType DEF Fold, Settle, SettleWith, TypeOK
    <2> QED
      BY <1>4, <1>a, <1>b, <2>2, <2>3, AfterFoldType DEF Fold, TypeOK
  <1>5. CASE RecheckLate
    <2>1. oneSided' \subseteq Blocks \X Entries
      BY <1>5, <1>a, <1>b DEF RecheckLate, PushOneSided, TypeOK
    <2>2. /\ verdict' \in [Blocks -> Verdicts \cup {"pending"}]
          /\ rows' \in [Blocks -> Nat] /\ recs' \in [Blocks -> Nat]
          /\ stable' \in [Blocks -> {"unchecked", "stable", "flaky"}]
      BY <1>5 DEF RecheckLate, Settle, SettleWith, TypeOK, Verdicts, InconclusiveWhys
    <2> QED
      BY <1>5, <1>a, <1>b, <2>1, <2>2, AfterFoldType DEF RecheckLate, TypeOK
  <1>6. CASE StubOne
    <2>1. probes' \in Nat /\ weak' \subseteq Blocks \X Entries
      BY <1>6, <1>a DEF StubOne, First, TypeOK
    <2> QED
      BY <1>6, <1>a, <2>1 DEF StubOne, TypeOK
  <1>7. CASE AfterStub
    BY <1>7, <1>a, NextCur DEF AfterStub, TypeOK
  <1> QED
    BY <1>1, <1>2, <1>3, <1>4, <1>5, <1>6, <1>7 DEF FoldBlock

LEMMA TypeNext == TypeOK /\ [Next]_vars => TypeOK'
  <1> SUFFICES ASSUME TypeOK, [Next]_vars PROVE TypeOK'
    OBVIOUS
  <1> USE DEF evidenceVars, ledgerVars, advisoryVars, baseVars
  <1>1. CASE TimeOut
    BY <1>1 DEF TimeOut, TypeOK
  <1>2. CASE UNCHANGED vars
    BY <1>2 DEF vars, TypeOK
  <1> QED
    BY <1>1, <1>2, GatesType, ProbeType, DrainType, FoldType DEF Next, Engine

\* The state of the engine always has its type.
THEOREM TypeCorrect == Spec => []TypeOK
  <1> QED
    BY TypeInit, TypeNext, PTL DEF Spec

(***************************************************************************)
(* Where the engine is: Passes and Open.                                   *)
(***************************************************************************)
Position == TypeOK /\ Passes /\ Open

LEMMA PositionInit == Init => Passes /\ Open
  BY DEF Init, Passes, Open, IsOpen, Working, Blocks

\* Settling the current block of pass 1 and moving on to the next.
LEMMA SettleAndGo ==
  ASSUME Position, pass = 1, pc \in Working, cur \in Blocks,
         NEW v \in Verdicts,
         verdict' = [verdict EXCEPT ![cur] = v], pc' = "block", cur' = cur + 1,
         UNCHANGED <<pass, deferred>>
  PROVE  (Passes /\ Open)'
  <1>1. v # "pending"
    BY DEF Verdicts, InconclusiveWhys, SkipWhys
  <1>2. cur \in Nat
    BY DEF Blocks
  <1>3. deferred \subseteq Blocks /\ \A b \in Blocks : b \in Int
    BY DEF Position, TypeOK, Blocks
  <1>4. verdict'[cur] = v /\ \A b \in Blocks : b # cur => verdict'[b] = verdict[b]
    BY DEF Position, TypeOK
  <1>5. cur \notin deferred /\ \A b \in deferred : b < cur
    BY DEF Position, Open
  <1>6. ASSUME NEW b \in Blocks PROVE verdict'[b] = "pending" <=> IsOpen(b)'
    <2>1. CASE b = cur
      BY <2>1, <1>1, <1>2, <1>4, <1>5 DEF IsOpen
    <2>2. CASE b # cur
      <3>1. verdict[b] = "pending" <=> IsOpen(b)
        BY DEF Position, Open
      <3>2. b > cur <=> b = cur + 1 \/ b > cur + 1
        BY <1>2, <1>3, <2>2
      <3> QED
        BY <2>2, <3>1, <3>2, <1>4 DEF IsOpen, Working
    <2> QED
      BY <2>1, <2>2
  <1>7. \A b \in deferred' : b < cur' /\ b # cur'
    BY <1>2, <1>3, <1>5
  <1> QED
    BY <1>6, <1>7 DEF Passes, Open, Working

\* A step inside the work on a block: neither the verdicts, nor the block, nor
\* the queue change.
LEMMA StayOpen ==
  ASSUME Position, pc \in Working, pc' \in Working, pc' # "block",
         pc = "block" => cur \in Blocks,
         pc' \in {"gates", "value", "relInline"} => pass = 1,
         pc' = "relLate" => pass = 2,
         UNCHANGED <<pass, cur, deferred, verdict>>
  PROVE  (Passes /\ Open)'
  BY DEF Position, Passes, Open, IsOpen, Working

LEMMA GatesPosition == Position /\ Gates => (Passes /\ Open)'
  <1> SUFFICES ASSUME Position, Gates PROVE (Passes /\ Open)'
    OBVIOUS
  <1>a. /\ pc \in {"block", "gates"} /\ pass = 1 /\ cur \in Blocks /\ pc \in Working
    BY DEF Gates, RunnerMismatch, UnsupportedSourceSet, CapUnanalysed, NotProbeable, Analyse,
           Cap, AbortOnEnv, AmbiguousTitle, AtBlock, Position, Passes, TypeOK, Working
  <1>b. ASSUME NEW v \in Verdicts, Dismiss(v) PROVE (Passes /\ Open)'
    BY <1>a, <1>b, SettleAndGo DEF Dismiss, Settle, SettleWith, NextBlock
  <1> USE DEF Verdicts, InconclusiveWhys, SkipWhys
  <1>1. CASE RunnerMismatch
    BY <1>1, <1>b DEF RunnerMismatch
  <1>2. CASE UnsupportedSourceSet
    BY <1>2, <1>a, SettleAndGo DEF UnsupportedSourceSet, SettleWith, NextBlock
  <1>3. CASE CapUnanalysed
    BY <1>3, <1>b DEF CapUnanalysed
  <1>4. CASE NotProbeable
    BY <1>4, <1>b DEF NotProbeable
  <1>5. CASE Analyse
    BY <1>5, <1>a, StayOpen DEF Analyse, ledgerVars, Working
  <1>6. CASE Cap
    BY <1>6, <1>b DEF Cap
  <1>7. CASE AbortOnEnv
    BY <1>7, <1>b DEF AbortOnEnv
  <1>8. CASE AmbiguousTitle
    BY <1>8, <1>b DEF AmbiguousTitle
  <1> QED
    BY <1>1, <1>2, <1>3, <1>4, <1>5, <1>6, <1>7, <1>8 DEF Gates

LEMMA GutPosition ==
  ASSUME Position, NEW e, Gut(e), pc \in {"value", "relInline", "relLate"}
  PROVE  (Passes /\ Open)'
  BY StayOpen DEF Gut, ledgerVars, Working, Position, Passes

LEMMA ProbePosition == Position /\ Probe => (Passes /\ Open)'
  <1> SUFFICES ASSUME Position, Probe PROVE (Passes /\ Open)'
    OBVIOUS
  <1>a. pass = 1 /\ cur \in Blocks /\ pc \in Working
    BY DEF Probe, BaselineBad, BaselineGreen, GutValue, AfterValue, GutRelInline,
           AfterRelInline, Position, Passes, TypeOK, Working
  <1>1. CASE BaselineBad
    BY <1>1, <1>a, SettleAndGo DEF BaselineBad, Dismiss, Settle, SettleWith, NextBlock,
       Verdicts, InconclusiveWhys
  <1>2. CASE BaselineGreen
    BY <1>2, <1>a, StayOpen DEF BaselineGreen, ledgerVars, Working
  <1>3. CASE GutValue
    BY <1>3, GutPosition DEF GutValue
  <1>4. CASE AfterValue
    <2>1. CASE pc' # "block"
      BY <1>4, <2>1, <1>a, StayOpen DEF AfterValue, NextBlock, ledgerVars, Working
    <2>2. CASE pc' = "block"
      <3>1. /\ deferred' = deferred \cup {cur} /\ cur' = cur + 1
            /\ pass' = pass /\ verdict' = verdict /\ pc = "value"
        BY <1>4, <2>2 DEF AfterValue, NextBlock, ledgerVars
      <3>2. cur \in Nat /\ deferred \subseteq Blocks /\ \A b \in Blocks : b \in Int
        BY <1>a DEF Position, TypeOK, Blocks
      <3>3. \A b \in deferred : b < cur
        BY <1>a DEF Position, Open
      <3>4. ASSUME NEW b \in Blocks PROVE verdict'[b] = "pending" <=> IsOpen(b)'
        <4>1. verdict[b] = "pending" <=> IsOpen(b)
          BY DEF Position, Open
        <4>2. b > cur <=> b = cur + 1 \/ b > cur + 1
          BY <3>2
        <4> QED
          BY <4>1, <4>2, <3>1, <2>2, <1>a DEF IsOpen, Working
      <3>5. \A b \in deferred' : b < cur' /\ b # cur'
        BY <3>1, <3>2, <3>3
      <3> QED
        BY <3>1, <3>4, <3>5, <2>2, <1>a DEF Passes, Open
    <2> QED
      BY <2>1, <2>2
  <1>5. CASE GutRelInline
    BY <1>5, GutPosition DEF GutRelInline
  <1>6. CASE AfterRelInline
    BY <1>6, <1>a, StayOpen DEF AfterRelInline, ledgerVars, Working
  <1> QED
    BY <1>1, <1>2, <1>3, <1>4, <1>5, <1>6 DEF Probe

LEMMA DrainPosition == Position /\ Drain => (Passes /\ Open)'
  <1> SUFFICES ASSUME Position, Drain PROVE (Passes /\ Open)'
    OBVIOUS
  <1> USE DEF ledgerVars, Position
  <1>1. CASE StartPass2
    <2>1. cur = N + 1 /\ N \in Nat
      BY <1>1 DEF StartPass2, TypeOK, Blocks
    <2>2. \A b \in Blocks : ~(b > cur) /\ b # cur
      BY <2>1 DEF Blocks
    <2> QED
      BY <1>1, <2>2 DEF StartPass2, Passes, Open, IsOpen, Working
  <1>2. CASE TakeDeferred
    <2>1. PICK b \in deferred : cur' = b /\ deferred' = deferred \ {b}
      BY <1>2 DEF TakeDeferred, First
    <2> QED
      BY <1>2, <2>1 DEF TakeDeferred, Passes, Open, IsOpen, Working, TypeOK
  <1>3. CASE GutRelLate
    BY <1>3, GutPosition DEF GutRelLate
  <1>4. CASE AfterRelLate
    BY <1>4, StayOpen DEF AfterRelLate, Working
  <1>5. CASE Starve
    <2>1. CASE pc' = "fold"
      BY <1>5, <2>1, StayOpen DEF Starve, Working
    <2>2. CASE pc' # "fold"
      <3>1. verdict' = [verdict EXCEPT ![cur] = "capped"] /\ pc' = "drain" /\ cur \in Blocks
        BY <1>5, <2>2 DEF Starve, Settle, SettleWith, TypeOK
      <3>2. pass = 2 /\ pass' = 2 /\ pc = "relLate" /\ UNCHANGED <<cur, deferred>>
        BY <1>5 DEF Starve, Passes
      <3> QED
        BY <3>1, <3>2 DEF Passes, Open, IsOpen, Working, TypeOK
    <2> QED
      BY <2>1, <2>2
  <1>6. CASE Finish
    BY <1>6 DEF Finish, Passes, Open, IsOpen, Working
  <1> QED
    BY <1>1, <1>2, <1>3, <1>4, <1>5, <1>6 DEF Drain

\* Settling the block that was folded, in either pass.
LEMMA FoldSettles ==
  ASSUME Position, pc = "opposite", NEW v \in Verdicts,
         SettleWith(cur, v, 1), AfterFold, UNCHANGED <<pass, deferred>>
  PROVE  (Passes /\ Open)'
  <1>a. cur \in Blocks /\ pc \in Working /\ v # "pending"
    BY DEF Position, TypeOK, Working, Verdicts, InconclusiveWhys, SkipWhys
  <1>1. CASE ~Deep /\ pass = 1
    BY <1>1, <1>a, SettleAndGo DEF AfterFold, SettleWith
  <1>2. CASE Deep \/ pass = 2
    <2>1. /\ cur' = cur /\ pc' \in {"stub", "drain"} /\ (pc' = "drain" => pass = 2)
          /\ verdict' = [verdict EXCEPT ![cur] = v]
      BY <1>2 DEF AfterFold, SettleWith, Position, TypeOK
    <2> QED
      BY <2>1, <1>a DEF Position, Passes, Open, IsOpen, Working, TypeOK
  <1> QED
    BY <1>1, <1>2 DEF Position, TypeOK

LEMMA FoldPosition == Position /\ FoldBlock => (Passes /\ Open)'
  <1> SUFFICES ASSUME Position, FoldBlock PROVE (Passes /\ Open)'
    OBVIOUS
  <1> USE DEF ledgerVars
  <1>1. CASE FlakeFirst
    BY <1>1, StayOpen DEF FlakeFirst, Working
  <1>2. CASE NoFlakeCheck
    BY <1>2, StayOpen DEF NoFlakeCheck, Working
  <1>3. CASE GutOpposite
    BY <1>3, StayOpen DEF GutOpposite, Working
  <1>4. CASE Fold
    BY <1>4, FoldSettles, FoldVerdictType DEF Fold, Settle
  <1>5. CASE RecheckLate
    BY <1>5, FoldSettles DEF RecheckLate, Settle, Verdicts, InconclusiveWhys
  <1>6. CASE StubOne
    BY <1>6 DEF StubOne, Position, Passes, Open, IsOpen, Working
  <1>7. CASE AfterStub
    <2>a. cur \in Blocks /\ \A b \in Blocks : b \in Int
      BY <1>7 DEF AfterStub, Position, TypeOK, Blocks
    <2>1. CASE pass = 1
      <3>1. \A b \in Blocks : b > cur <=> b = cur + 1 \/ b > cur + 1
        BY <2>a
      <3>2. \A b \in deferred : b < cur /\ b < cur + 1 /\ b # cur + 1
        BY <2>1, <2>a DEF Position, Open, TypeOK
      <3> QED
        BY <1>7, <2>1, <2>a, <3>1, <3>2 DEF AfterStub, Position, Passes, Open, IsOpen, Working
    <2>2. CASE pass # 1
      BY <1>7, <2>2 DEF AfterStub, Position, Passes, Open, IsOpen, Working, TypeOK
    <2> QED
      BY <2>1, <2>2
  <1> QED
    BY <1>1, <1>2, <1>3, <1>4, <1>5, <1>6, <1>7 DEF FoldBlock

LEMMA PositionNext == Position /\ [Next]_vars => (Passes /\ Open)'
  <1> SUFFICES ASSUME Position, [Next]_vars PROVE (Passes /\ Open)'
    OBVIOUS
  <1>1. CASE TimeOut
    BY <1>1 DEF TimeOut, ledgerVars, Position, Passes, Open, IsOpen, Working
  <1>2. CASE UNCHANGED vars
    BY <1>2 DEF vars, ledgerVars, Position, Passes, Open, IsOpen, Working
  <1> QED
    BY <1>1, <1>2, GatesPosition, ProbePosition, DrainPosition, FoldPosition DEF Next, Engine

(***************************************************************************)
(* What a step may touch: only the current block, and only while it is     *)
(* open.                                                                   *)
(***************************************************************************)
Untouched(b) ==
  /\ kind'[b] = kind[b] /\ pos'[b] = pos[b] /\ opp'[b] = opp[b]
  /\ stable'[b] = stable[b] /\ starved'[b] = starved[b] /\ verdict'[b] = verdict[b]
  /\ rows'[b] = rows[b] /\ recs'[b] = recs[b]

LEMMA OnlyCurrent ==
  ASSUME TypeOK, [Next]_vars, NEW b \in Blocks, b # cur
  PROVE  Untouched(b)
  <1> USE DEF TypeOK, Untouched, ledgerVars, evidenceVars
  <1>1. CASE Gates
    BY <1>1 DEF Gates, RunnerMismatch, UnsupportedSourceSet, CapUnanalysed, NotProbeable,
       Analyse, Cap, AbortOnEnv, AmbiguousTitle, Dismiss, Settle, SettleWith
  <1>2. CASE Probe
    BY <1>2 DEF Probe, BaselineBad, BaselineGreen, GutValue, AfterValue, GutRelInline,
       AfterRelInline, Dismiss, Settle, SettleWith, Gut
  <1>3. CASE Drain
    BY <1>3 DEF Drain, StartPass2, TakeDeferred, GutRelLate, AfterRelLate, Starve, Finish,
       Settle, SettleWith, Gut
  <1>4. CASE FoldBlock
    <2>1. CASE GutOpposite
      BY <2>1 DEF GutOpposite
    <2>2. CASE FlakeFirst \/ NoFlakeCheck \/ StubOne \/ AfterStub
      BY <2>2 DEF FlakeFirst, NoFlakeCheck, StubOne, AfterStub
    <2>3. CASE Fold \/ RecheckLate
      BY <2>3 DEF Fold, RecheckLate, Settle, SettleWith
    <2> QED
      BY <1>4, <2>1, <2>2, <2>3 DEF FoldBlock
  <1>5. CASE TimeOut
    BY <1>5 DEF TimeOut
  <1>6. CASE UNCHANGED vars
    BY <1>6 DEF vars
  <1> QED
    BY <1>1, <1>2, <1>3, <1>4, <1>5, <1>6 DEF Next, Engine

LEMMA IdleStep ==
  ASSUME Position, [Next]_vars, pc \notin Working
  PROVE  UNCHANGED <<ledgerVars, evidenceVars>>
  <1> USE DEF ledgerVars, evidenceVars, Working
  <1>1. CASE Gates
    BY <1>1 DEF Gates, RunnerMismatch, UnsupportedSourceSet, CapUnanalysed, NotProbeable,
       Analyse, Cap, AbortOnEnv, AmbiguousTitle, AtBlock
  <1>2. CASE Probe
    BY <1>2 DEF Probe, BaselineBad, BaselineGreen, GutValue, AfterValue, GutRelInline,
       AfterRelInline
  <1>3. CASE Drain
    BY <1>3 DEF Drain, StartPass2, TakeDeferred, GutRelLate, AfterRelLate, Starve, Finish
  <1>4. CASE FoldBlock
    BY <1>4 DEF FoldBlock, FlakeFirst, NoFlakeCheck, GutOpposite, Fold, RecheckLate,
       StubOne, AfterStub
  <1>5. CASE TimeOut
    BY <1>5 DEF TimeOut
  <1>6. CASE UNCHANGED vars
    BY <1>6 DEF vars
  <1> QED
    BY <1>1, <1>2, <1>3, <1>4, <1>5, <1>6 DEF Next, Engine

\* A block that has its verdict is never touched again.
LEMMA SettledIsFrozen ==
  ASSUME Position, [Next]_vars, NEW b \in Blocks, verdict[b] # "pending"
  PROVE  Untouched(b)
  <1>1. CASE b # cur
    BY <1>1, OnlyCurrent DEF Position
  <1>2. CASE b = cur
    <2>1. pc \notin Working
      BY <1>2 DEF Position, Open, IsOpen
    <2> QED
      BY <2>1, IdleStep DEF ledgerVars, evidenceVars, Untouched
  <1> QED
    BY <1>1, <1>2

\* The ledger changes only by settling the current, open block.
LEMMA LedgerStep ==
  ASSUME Position, [Next]_vars
  PROVE  \/ UNCHANGED ledgerVars
         \/ /\ cur \in Blocks /\ verdict[cur] = "pending"
            /\ \E v \in Verdicts, r \in {0, 1} :
                 /\ SettleWith(cur, v, r)
                 /\ r = 1 \/ (Jvm /\ v = "outOfScope")
  <1>a. cur \in Blocks /\ pc \in Working => verdict[cur] = "pending"
    BY DEF Position, Open, IsOpen
  <1>b. pc \in Working /\ pc # "block" => cur \in Blocks
    BY DEF Position, TypeOK, Working
  <1> USE DEF ledgerVars, Verdicts, SkipWhys, InconclusiveWhys, Working
  <1>1. CASE Gates
    BY <1>1, <1>a, <1>b DEF Gates, RunnerMismatch, UnsupportedSourceSet, CapUnanalysed,
       NotProbeable, Analyse, Cap, AbortOnEnv, AmbiguousTitle, Dismiss, Settle, AtBlock
  <1>2. CASE Probe
    BY <1>2, <1>a, <1>b DEF Probe, BaselineBad, BaselineGreen, GutValue, AfterValue,
       GutRelInline, AfterRelInline, Dismiss, Settle, Gut
  <1>3. CASE Drain
    BY <1>3, <1>a, <1>b DEF Drain, StartPass2, TakeDeferred, GutRelLate, AfterRelLate,
       Starve, Finish, Settle, Gut
  <1>4. CASE FoldBlock
    <2>1. CASE Fold
      BY <2>1, <1>a, <1>b, FoldVerdictType DEF Fold, Settle
    <2>2. CASE RecheckLate
      BY <2>2, <1>a, <1>b DEF RecheckLate, Settle
    <2>3. CASE GutOpposite
      BY <2>3 DEF GutOpposite
    <2>4. CASE FlakeFirst \/ NoFlakeCheck \/ StubOne \/ AfterStub
      BY <2>4 DEF FlakeFirst, NoFlakeCheck, StubOne, AfterStub
    <2> QED
      BY <1>4, <2>1, <2>2, <2>3, <2>4 DEF FoldBlock
  <1>5. CASE TimeOut
    BY <1>5 DEF TimeOut
  <1>6. CASE UNCHANGED vars
    BY <1>6 DEF vars
  <1> QED
    BY <1>1, <1>2, <1>3, <1>4, <1>5, <1>6 DEF Next, Engine

LEMMA RowsNext == Position /\ RowsMatch /\ [Next]_vars => RowsMatch'
  <1> SUFFICES ASSUME Position, RowsMatch, [Next]_vars, NEW b \in Blocks
               PROVE  /\ rows'[b] = IF verdict'[b] = "pending" THEN 0 ELSE 1
                      /\ \/ recs'[b] = rows'[b]
                         \/ Jvm /\ verdict'[b] = "outOfScope" /\ recs'[b] = 0
    BY DEF RowsMatch
  <1>1. CASE UNCHANGED ledgerVars
    BY <1>1 DEF ledgerVars, RowsMatch
  <1>2. CASE ~UNCHANGED ledgerVars
    <2>1. PICK v \in Verdicts, r \in {0, 1} :
            /\ SettleWith(cur, v, r) /\ (r = 1 \/ (Jvm /\ v = "outOfScope"))
            /\ cur \in Blocks /\ verdict[cur] = "pending"
      BY <1>2, LedgerStep
    <2>2. v # "pending"
      BY DEF Verdicts, SkipWhys, InconclusiveWhys
    <2>3. CASE b # cur
      BY <2>3, OnlyCurrent DEF Position, Untouched, RowsMatch
    <2>4. CASE b = cur
      <3>1. rows[cur] = 0 /\ recs[cur] = 0
        BY <2>1 DEF RowsMatch
      <3>2. rows'[cur] = 1 /\ recs'[cur] = r /\ verdict'[cur] = v
        BY <2>1, <3>1 DEF SettleWith, Position, TypeOK
      <3> QED
        BY <2>1, <2>2, <2>4, <3>2
    <2> QED
      BY <2>3, <2>4
  <1> QED
    BY <1>1, <1>2

(***************************************************************************)
(* Fresh: nothing is known of a block before its turn.                     *)
(***************************************************************************)
LEMMA ReachedStays ==
  ASSUME Position, [Next]_vars, NEW b \in Blocks, Reached(b)
  PROVE  Reached(b)'
  <1>a. b \in Int /\ cur \in Int
    BY DEF Blocks, Position, TypeOK
  <1> USE DEF Reached
  <1>1. CASE Gates
    BY <1>1, <1>a DEF Gates, RunnerMismatch, UnsupportedSourceSet, CapUnanalysed, NotProbeable,
       Analyse, Cap, AbortOnEnv, AmbiguousTitle, Dismiss, NextBlock, AtBlock
  <1>2. CASE Probe
    BY <1>2, <1>a DEF Probe, BaselineBad, BaselineGreen, GutValue, AfterValue, GutRelInline,
       AfterRelInline, Dismiss, NextBlock, Gut
  <1>3. CASE Drain
    BY <1>3 DEF Drain, StartPass2, TakeDeferred, GutRelLate, AfterRelLate, Starve, Finish,
       Gut, Position, Passes
  <1>4. CASE FoldBlock
    BY <1>4, <1>a DEF FoldBlock, FlakeFirst, NoFlakeCheck, GutOpposite, Fold, RecheckLate,
       StubOne, AfterStub, AfterFold
  <1>5. CASE TimeOut
    BY <1>5 DEF TimeOut
  <1>6. CASE UNCHANGED vars
    BY <1>6 DEF vars
  <1> QED
    BY <1>1, <1>2, <1>3, <1>4, <1>5, <1>6 DEF Next, Engine

\* A gut turns the evidence of the current block only, opposite evidence only
\* comes from GutOpposite, and a block has none of either when it is analysed.
LEMMA EvidenceStep ==
  ASSUME TypeOK, [Next]_vars
  PROVE  /\ pos' = pos \/ (pc \in {"value", "relInline", "relLate"} /\ pc' = pc /\ cur' = cur)
         /\ opp' = opp \/ (pc = "opposite" /\ pc' = pc /\ cur' = cur)
         /\ kind' = kind \/ (pc = "block" /\ pc' = "gates" /\ cur' = cur)
  <1> USE DEF evidenceVars
  <1>1. CASE Gates
    BY <1>1 DEF Gates, RunnerMismatch, UnsupportedSourceSet, CapUnanalysed, NotProbeable,
       Analyse, Cap, AbortOnEnv, AmbiguousTitle, Dismiss, AtBlock
  <1>2. CASE Probe
    BY <1>2 DEF Probe, BaselineBad, BaselineGreen, GutValue, AfterValue, GutRelInline,
       AfterRelInline, Dismiss, Gut
  <1>3. CASE Drain
    BY <1>3 DEF Drain, StartPass2, TakeDeferred, GutRelLate, AfterRelLate, Starve, Finish, Gut
  <1>4. CASE FoldBlock
    BY <1>4 DEF FoldBlock, FlakeFirst, NoFlakeCheck, GutOpposite, Fold, RecheckLate,
       StubOne, AfterStub
  <1>5. CASE TimeOut
    BY <1>5 DEF TimeOut
  <1>6. CASE UNCHANGED vars
    BY <1>6 DEF vars
  <1> QED
    BY <1>1, <1>2, <1>3, <1>4, <1>5, <1>6 DEF Next, Engine

\* The engine leaves "opposite" only by settling the block.
LEMMA OppositeSettles ==
  ASSUME Position, [Next]_vars, pc = "opposite", verdict'[cur] = "pending"
  PROVE  pc' = "opposite" /\ cur' = cur
  <1>a. cur \in Blocks
    BY DEF Position, TypeOK
  <1>1. CASE Gates \/ Probe \/ Drain
    BY <1>1 DEF Gates, RunnerMismatch, UnsupportedSourceSet, CapUnanalysed, NotProbeable,
       Analyse, Cap, AbortOnEnv, AmbiguousTitle, AtBlock, Probe, BaselineBad, BaselineGreen,
       GutValue, AfterValue, GutRelInline, AfterRelInline, Drain, StartPass2, TakeDeferred,
       GutRelLate, AfterRelLate, Starve, Finish
  <1>2. CASE FoldBlock
    <2>1. CASE Fold
      <3>1. verdict'[cur] = FoldVerdict(cur)
        BY <2>1, <1>a DEF Fold, Settle, SettleWith, Position, TypeOK
      <3> QED
        BY <3>1, FoldVerdictType DEF Verdicts, InconclusiveWhys, SkipWhys
    <2>2. CASE RecheckLate
      BY <2>2, <1>a DEF RecheckLate, Settle, SettleWith, Position, TypeOK
    <2> QED
      BY <1>2, <2>1, <2>2 DEF FoldBlock, FlakeFirst, NoFlakeCheck, GutOpposite, StubOne, AfterStub
  <1>3. CASE TimeOut
    BY <1>3 DEF TimeOut
  <1>4. CASE UNCHANGED vars
    BY <1>4 DEF vars
  <1> QED
    BY <1>1, <1>2, <1>3, <1>4 DEF Next, Engine

LEMMA FreshNext == Position /\ Fresh /\ [Next]_vars => Fresh'
  <1> SUFFICES ASSUME Position, Fresh, [Next]_vars PROVE Fresh'
    OBVIOUS
  <1>a. TypeOK
    BY DEF Position
  <1>1. ASSUME NEW b \in Blocks, ~Reached(b)', NEW e \in Entries
        PROVE  pos'[b][e] = "untried"
    <2>1. ~Reached(b)
      BY <1>1, ReachedStays
    <2>2. pos[b][e] = "untried"
      BY <2>1 DEF Fresh
    <2>3. CASE b # cur
      BY <2>2, <2>3, <1>a, OnlyCurrent DEF Untouched
    <2>4. CASE b = cur
      <3>1. pc \in {"block", "gates"}
        BY <2>1, <2>4 DEF Reached, Blocks
      <3> QED
        BY <3>1, <2>2, <1>a, EvidenceStep
    <2> QED
      BY <2>3, <2>4
  <1>2. ASSUME NEW b \in Blocks, verdict'[b] = "pending", ~(b = cur' /\ pc' = "opposite"),
               NEW f \in Fns
        PROVE  opp'[b][f] = "noEvidence"
    <2>1. verdict[b] = "pending"
      BY <1>2, SettledIsFrozen DEF Untouched
    <2>2. CASE b # cur
      BY <2>1, <2>2, <1>a, OnlyCurrent DEF Untouched, Fresh
    <2>3. CASE b = cur /\ pc # "opposite"
      BY <2>1, <2>3, <1>a, EvidenceStep DEF Fresh
    <2>4. CASE b = cur /\ pc = "opposite"
      <3>1. FALSE
        BY <1>2, <2>1, <2>4, OppositeSettles
      <3> QED
        BY <3>1
    <2> QED
      BY <2>2, <2>3, <2>4
  <1> QED
    BY <1>1, <1>2 DEF Fresh

(***************************************************************************)
(* Loops: which entries have been tried.                                   *)
(***************************************************************************)
InLoops == {"value", "relInline", "relLate", "fold", "opposite"}

LEMMA LoopsQuiet ==
  ASSUME Loops, UNCHANGED <<kind, pos>>, deferred' \subseteq deferred, pc' \notin InLoops
  PROVE  Loops'
  BY DEF Loops, InLoops, Tried, ValueFns

LEMMA LoopsUnchanged ==
  ASSUME Loops, UNCHANGED <<kind, pos, deferred, pc, cur, todo, starved>>
  PROVE  Loops'
  BY DEF Loops, Tried, ValueFns, RelFns, Eligible, AnyGutted

\* Gutting one entry of the loop's remainder.
LEMMA GutLoops ==
  ASSUME Position, Loops, pc \in {"value", "relInline", "relLate"}, NEW e \in todo, Gut(e)
  PROVE  Loops'
  <1>1. PICK out \in MutantRuns \cup {"unlocated"} : pos' = [pos EXCEPT ![cur][e] = out]
    BY DEF Gut
  <1>2. out # "untried"
    BY DEF MutantRuns, Runs
  <1>3. e \in Entries /\ cur \in Blocks /\ kind[cur][e] # "none" /\ deferred \subseteq Blocks
    BY DEF Position, TypeOK, Loops, ValueFns, RelFns
  <1>4. /\ UNCHANGED <<kind, pc, cur, deferred>> /\ todo' = todo \ {e}
    BY DEF Gut
  <1>5. ASSUME NEW b \in Blocks, NEW x \in Entries
        PROVE  Tried(b, x)' <=> Tried(b, x) \/ (b = cur /\ x = e)
    BY <1>1, <1>2, <1>3 DEF Tried, Position, TypeOK
  <1>6. \A b \in Blocks, x \in Entries : Tried(b, x)' => kind'[b][x] # "none"
    BY <1>3, <1>4, <1>5 DEF Loops
  <1>7. \A b : ValueFns(b)' = ValueFns(b) /\ RelFns(b)' = RelFns(b)
    BY <1>4 DEF ValueFns, RelFns
  <1>8. \A b : ValueFns(b) \subseteq Entries /\ RelFns(b) \subseteq Entries
    BY DEF ValueFns, RelFns
  <1>9. pc' = "value" => /\ todo' \subseteq ValueFns(cur)'
                         /\ \A x \in ValueFns(cur)' : x \in todo' \/ Tried(cur, x)'
    BY <1>3, <1>4, <1>5, <1>7, <1>8 DEF Loops
  <1>10. pc' \in {"relInline", "relLate"} =>
           /\ todo' \subseteq RelFns(cur)'
           /\ \A x \in ValueFns(cur)' : Tried(cur, x)'
           /\ \A x \in RelFns(cur)' : x \in todo' \/ Tried(cur, x)'
    BY <1>3, <1>4, <1>5, <1>7, <1>8 DEF Loops
  <1>11. \A b \in deferred' : \A x \in ValueFns(b)' : Tried(b, x)'
    BY <1>3, <1>4, <1>5, <1>7, <1>8 DEF Loops
  <1> QED
    BY <1>4, <1>6, <1>9, <1>10, <1>11 DEF Loops, Tried

LEMMA EligibleSplits ==
  ASSUME TypeOK, NEW b \in Blocks
  PROVE  Eligible(b) = ValueFns(b) \cup RelFns(b)
  BY DEF TypeOK, Eligible, ValueFns, RelFns

\* Entering the fold with every eligible entry tried.
LEMMA EnterFold ==
  ASSUME Position, Loops, UNCHANGED <<kind, pos, deferred>>, pc' = "fold", cur' = cur,
         cur \in Blocks, \A e \in ValueFns(cur) \cup RelFns(cur) : Tried(cur, e)
  PROVE  Loops'
  <1>1. \A e \in Eligible(cur)' : Tried(cur, e)'
    BY EligibleSplits DEF Eligible, Tried, Position
  <1> QED
    BY <1>1 DEF Loops, Tried, ValueFns, Eligible

LEMMA LoopsNext == Position /\ Fresh /\ Loops /\ [Next]_vars => Loops'
  <1> SUFFICES ASSUME Position, Fresh, Loops, [Next]_vars PROVE Loops'
    OBVIOUS
  <1> USE DEF evidenceVars
  <1>a. TypeOK
    BY DEF Position
  <1>1. CASE Gates
    <2>1. CASE Analyse
      <3>1. cur \in Blocks /\ \A e \in Entries : pos[cur][e] = "untried"
        BY <2>1 DEF Analyse, AtBlock, Fresh, Reached
      <3>2. /\ UNCHANGED <<pos, deferred>> /\ pc' = "gates" /\ pc = "block"
            /\ \A b \in Blocks : b # cur => kind'[b] = kind[b]
        BY <2>1, <1>a DEF Analyse, AtBlock, TypeOK
      <3>3. \A b \in deferred : b # cur /\ b \in Blocks
        BY <3>2 DEF Position, Open, Working, TypeOK
      <3> QED
        BY <3>1, <3>2, <3>3 DEF Loops, Tried, ValueFns
    <2>2. CASE ~Analyse
      BY <1>1, <2>2, LoopsQuiet DEF Gates, RunnerMismatch, UnsupportedSourceSet, CapUnanalysed,
         NotProbeable, Cap, AbortOnEnv, AmbiguousTitle, Dismiss, NextBlock, InLoops
    <2> QED
      BY <2>1, <2>2
  <1>2. CASE Probe
    <2>1. CASE BaselineBad
      BY <2>1, LoopsQuiet DEF BaselineBad, Dismiss, NextBlock, InLoops
    <2>2. CASE BaselineGreen
      BY <2>2 DEF BaselineGreen, Loops, Tried, ValueFns
    <2>3. CASE GutValue
      BY <2>3, GutLoops DEF GutValue, First
    <2>4. CASE AfterValue
      <3>1. cur \in Blocks /\ \A e \in ValueFns(cur) : Tried(cur, e)
        BY <2>4, <1>a DEF AfterValue, Loops, TypeOK
      <3>2. CASE pc' = "fold"
        BY <2>4, <3>1, <3>2, EnterFold DEF AfterValue, NextBlock
      <3>3. CASE pc' = "relInline"
        BY <2>4, <3>1, <3>3 DEF AfterValue, NextBlock, Loops, Tried, ValueFns, RelFns
      <3>4. CASE pc' = "block"
        BY <2>4, <3>1, <3>4 DEF AfterValue, NextBlock, Loops, Tried, ValueFns
      <3> QED
        BY <2>4, <3>2, <3>3, <3>4 DEF AfterValue, NextBlock
    <2>5. CASE GutRelInline
      BY <2>5, GutLoops DEF GutRelInline, First
    <2>6. CASE AfterRelInline
      <3>1. cur \in Blocks /\ \A e \in ValueFns(cur) \cup RelFns(cur) : Tried(cur, e)
        BY <2>6, <1>a DEF AfterRelInline, Loops, TypeOK
      <3> QED
        BY <2>6, <3>1, EnterFold DEF AfterRelInline
    <2> QED
      BY <1>2, <2>1, <2>2, <2>3, <2>4, <2>5, <2>6 DEF Probe
  <1>3. CASE Drain
    <2>1. CASE StartPass2 \/ Finish
      BY <2>1, LoopsQuiet DEF StartPass2, Finish, InLoops
    <2>2. CASE TakeDeferred
      <3>1. PICK b \in deferred : cur' = b /\ deferred' = deferred \ {b} /\ todo' = RelFns(b)
        BY <2>2 DEF TakeDeferred, First
      <3> QED
        BY <2>2, <3>1 DEF TakeDeferred, Loops, Tried, ValueFns, RelFns
    <2>3. CASE GutRelLate
      BY <2>3, GutLoops DEF GutRelLate, First
    <2>4. CASE AfterRelLate
      <3>1. cur \in Blocks /\ \A e \in ValueFns(cur) \cup RelFns(cur) : Tried(cur, e)
        BY <2>4, <1>a DEF AfterRelLate, Loops, TypeOK
      <3> QED
        BY <2>4, <3>1, EnterFold DEF AfterRelLate
    <2>5. CASE Starve
      <3>1. CASE pc' = "drain"
        BY <2>5, <3>1, LoopsQuiet DEF Starve, InLoops
      <3>2. CASE pc' # "drain"
        <4>1. /\ pc' = "fold" /\ UNCHANGED <<cur, kind, pos, deferred>>
              /\ starved'[cur] /\ AnyGutted(cur)
          BY <2>5, <3>2, <1>a DEF Starve, TypeOK
        <4> QED
          BY <4>1 DEF Loops, Tried, ValueFns, AnyGutted
      <3> QED
        BY <3>1, <3>2
    <2> QED
      BY <1>3, <2>1, <2>2, <2>3, <2>4, <2>5 DEF Drain
  <1>4. CASE FoldBlock
    <2>1. CASE FlakeFirst \/ NoFlakeCheck \/ GutOpposite
      <3>1. /\ pc' = "opposite" /\ pc \in {"fold", "opposite"}
            /\ UNCHANGED <<cur, kind, pos, deferred, starved>>
        BY <2>1 DEF FlakeFirst, NoFlakeCheck, GutOpposite
      <3> QED
        BY <3>1 DEF Loops, Tried, ValueFns, RelFns, Eligible, AnyGutted
    <2>2. CASE Fold \/ RecheckLate \/ StubOne \/ AfterStub
      BY <2>2, LoopsQuiet DEF Fold, RecheckLate, StubOne, AfterStub, AfterFold, InLoops
    <2> QED
      BY <1>4, <2>1, <2>2 DEF FoldBlock
  <1>5. CASE TimeOut
    BY <1>5, LoopsUnchanged DEF TimeOut
  <1>6. CASE UNCHANGED vars
    BY <1>6, LoopsUnchanged DEF vars
  <1> QED
    BY <1>1, <1>2, <1>3, <1>4, <1>5, <1>6 DEF Next, Engine

(***************************************************************************)
(* PlainOpp: a plain run takes no opposite of a block that something broke. *)
(***************************************************************************)
\* Opposite evidence only comes from an entry still to do, and the opposite loop
\* is only entered from the fold.
LEMMA OppositeNeedsTodo ==
  ASSUME [Next]_vars, opp' # opp, TypeOK, pc = "opposite"
  PROVE  todo # {}
  <1> USE DEF evidenceVars
  <1>1. CASE GutOpposite
    BY <1>1 DEF GutOpposite, FirstOpp
  <1>2. CASE FoldBlock /\ ~GutOpposite
    BY <1>2 DEF FoldBlock, FlakeFirst, NoFlakeCheck, Fold, RecheckLate, StubOne, AfterStub
  <1>3. CASE Gates \/ Probe \/ Drain
    BY <1>3 DEF Gates, RunnerMismatch, UnsupportedSourceSet, CapUnanalysed, NotProbeable,
       Analyse, Cap, AbortOnEnv, AmbiguousTitle, AtBlock, Probe, BaselineBad, BaselineGreen,
       GutValue, AfterValue, GutRelInline, AfterRelInline, Drain, StartPass2, TakeDeferred,
       GutRelLate, AfterRelLate, Starve, Finish
  <1>4. CASE TimeOut \/ UNCHANGED vars
    BY <1>4 DEF TimeOut, vars
  <1> QED
    BY <1>1, <1>2, <1>3, <1>4 DEF Next, Engine

LEMMA IntoOpposite ==
  ASSUME TypeOK, [Next]_vars, pc' = "opposite"
  PROVE  FlakeFirst \/ NoFlakeCheck \/ GutOpposite \/ UNCHANGED <<pc, cur, todo, pos>>
  <1> USE DEF evidenceVars
  <1>1. CASE Gates
    BY <1>1 DEF Gates, RunnerMismatch, UnsupportedSourceSet, CapUnanalysed, NotProbeable,
       Analyse, Cap, AbortOnEnv, AmbiguousTitle, Dismiss, NextBlock
  <1>2. CASE Probe
    BY <1>2 DEF Probe, BaselineBad, BaselineGreen, GutValue, AfterValue, GutRelInline,
       AfterRelInline, Dismiss, NextBlock, Gut
  <1>3. CASE Drain
    BY <1>3 DEF Drain, StartPass2, TakeDeferred, GutRelLate, AfterRelLate, Starve, Finish, Gut
  <1>4. CASE FoldBlock
    BY <1>4 DEF FoldBlock, Fold, RecheckLate, AfterFold, StubOne, AfterStub
  <1>5. CASE TimeOut \/ UNCHANGED vars
    BY <1>5 DEF TimeOut, vars
  <1> QED
    BY <1>1, <1>2, <1>3, <1>4, <1>5 DEF Next, Engine

LEMMA PlainOppNext == Position /\ Fresh /\ PlainOpp /\ [Next]_vars => PlainOpp'
  <1> SUFFICES ASSUME Position, Fresh, PlainOpp, [Next]_vars PROVE PlainOpp'
    OBVIOUS
  <1>a. TypeOK
    BY DEF Position
  <1>1. ASSUME NEW b \in Blocks, NEW e \in Entries, NEW f \in Fns, ~Deep,
               pos'[b][e] = "red"
        PROVE  opp'[b][f] = "noEvidence"
    <2>1. CASE b # cur
      BY <1>1, <2>1, <1>a, OnlyCurrent DEF Untouched, PlainOpp
    <2>2. CASE b = cur /\ pos' = pos
      <3>1. opp[b][f] = "noEvidence"
        BY <1>1, <2>2 DEF PlainOpp
      <3>2. CASE opp' = opp
        BY <3>1, <3>2
      <3>3. CASE opp' # opp
        <4>1. pc = "opposite" /\ todo # {}
          BY <3>3, <1>a, EvidenceStep, OppositeNeedsTodo
        <4>2. e \in BrokeFns(cur)
          BY <1>1, <2>2 DEF BrokeFns
        <4> QED
          BY <4>1, <4>2, <1>1 DEF PlainOpp
      <3> QED
        BY <3>2, <3>3
    <2>3. CASE b = cur /\ pos' # pos
      <3>1. pc \in {"value", "relInline", "relLate"}
        BY <2>3, <1>a, EvidenceStep
      <3>2. opp' = opp /\ verdict[b] = "pending"
        BY <2>3, <3>1, <1>a, EvidenceStep DEF Position, Open, IsOpen, Working
      <3> QED
        BY <2>3, <3>1, <3>2 DEF Fresh
    <2> QED
      BY <2>1, <2>2, <2>3
  <1>2. ASSUME pc' = "opposite", ~Deep, BrokeFns(cur)' # {} PROVE todo' = {}
    <2>1. CASE FlakeFirst
      BY <1>2, <2>1 DEF FlakeFirst, OppositeTargets, BrokeFns, AccusationAtStake
    <2>2. CASE NoFlakeCheck
      BY <1>2, <2>2 DEF NoFlakeCheck, OppositeTargets, BrokeFns, evidenceVars
    <2>3. CASE GutOpposite
      BY <1>2, <2>3 DEF GutOpposite, PlainOpp, BrokeFns
    <2>4. CASE UNCHANGED <<pc, cur, todo, pos>>
      BY <1>2, <2>4 DEF PlainOpp, BrokeFns
    <2> QED
      BY <1>2, <2>1, <2>2, <2>3, <2>4, <1>a, IntoOpposite
  <1> QED
    BY <1>1, <1>2 DEF PlainOpp

(***************************************************************************)
(* The verdicts.                                                           *)
(***************************************************************************)
\* What has to be known of a block for the fold to call it hollow.
HollowAt(b) ==
  /\ \E e \in Entries : kind[b][e] = "value" /\ pos[b][e] = "green"
                        /\ opp[b][FnOf[e]] # "red"
  /\ \A e \in Entries : pos[b][e] = "red" => Deep /\ opp[b][FnOf[e]] = "green"

LEMMA FoldHollow ==
  ASSUME TypeOK, Loops, PlainOpp, NEW b \in Blocks, FoldVerdict(b) = "hollow"
  PROVE  HollowAt(b) /\ stable[b] # "flaky"
  <1>1. BoundFns(b) = {} /\ BlindFns(b) # {} /\ stable[b] # "flaky"
    BY DEF FoldVerdict
  <1>2. PICK e \in BlindFns(b) : TRUE
    BY <1>1
  <1>3. /\ e \in Entries /\ pos[b][e] = "green" /\ opp[b][FnOf[e]] # "red"
        /\ kind[b][e] # "rel"
    BY <1>2 DEF BlindFns, BlindAll, SurvivorFns, RelFns
  <1>4. kind[b][e] = "value"
    BY <1>3 DEF Loops, Tried, TypeOK
  <1>5. ASSUME NEW x \in Entries, pos[b][x] = "red" PROVE Deep /\ opp[b][FnOf[x]] = "green"
    <2>1. opp[b][FnOf[x]] = "green" /\ FnOf[x] \in Fns
      BY <1>1, <1>5 DEF BoundFns, BrokeFns, Fns
    <2> QED
      BY <1>5, <2>1 DEF PlainOpp
  <1> QED
    BY <1>1, <1>3, <1>4, <1>5 DEF HollowAt

Unfinished == {"hollow", "oneSided", "ungutable", "sutUnresolved"}

LEMMA FoldComplete ==
  ASSUME TypeOK, Loops, pc = "opposite", FoldVerdict(cur) \in Unfinished
  PROVE  \A e \in Entries : kind[cur][e] # "none" => pos[cur][e] # "untried"
  <1>1. ~(starved[cur] /\ AnyGutted(cur))
    BY DEF FoldVerdict, Unfinished
  <1> QED
    BY <1>1 DEF Loops, Tried, Eligible

Judged == {"caught"} \cup Unfinished

\* A step that judges a block is the fold of the block.
LEMMA VerdictStep ==
  ASSUME Position, [Next]_vars, NEW b \in Blocks, verdict[b] = "pending",
         verdict'[b] \in Judged
  PROVE  /\ b = cur /\ pc = "opposite" /\ UNCHANGED <<kind, pos, opp>>
         /\ FoldVerdict(b) = verdict'[b]
         /\ verdict'[b] = "hollow" => stable'[b] \notin {"unchecked", "flaky"}
  <1>a. TypeOK
    BY DEF Position
  <1>b. b = cur
    BY <1>a, OnlyCurrent DEF Untouched, Judged, Unfinished
  <1> USE DEF evidenceVars, ledgerVars
  <1>1. CASE Gates
    BY <1>1, <1>a, <1>b DEF Gates, RunnerMismatch, UnsupportedSourceSet, CapUnanalysed,
       NotProbeable, Analyse, Cap, AbortOnEnv, AmbiguousTitle, Dismiss, Settle, SettleWith,
       TypeOK, Judged, Unfinished
  <1>2. CASE Probe
    BY <1>2, <1>a, <1>b DEF Probe, BaselineBad, BaselineGreen, GutValue, AfterValue,
       GutRelInline, AfterRelInline, Dismiss, Settle, SettleWith, Gut, TypeOK, Judged, Unfinished
  <1>3. CASE Drain
    BY <1>3, <1>a, <1>b DEF Drain, StartPass2, TakeDeferred, GutRelLate, AfterRelLate,
       Starve, Finish, Settle, SettleWith, Gut, TypeOK, Judged, Unfinished
  <1>4. CASE FoldBlock
    <2>1. CASE Fold
      <3>1. verdict'[cur] = FoldVerdict(cur)
        BY <2>1, <1>a, <1>b DEF Fold, Settle, SettleWith, TypeOK
      <3>2. FoldVerdict(cur) = "hollow" => stable[cur] \notin {"unchecked", "flaky"}
        BY <2>1 DEF Fold, RecheckNeeded, FoldVerdict
      <3> QED
        BY <2>1, <3>1, <3>2, <1>b DEF Fold
    <2>2. CASE RecheckLate
      BY <2>2, <1>a, <1>b DEF RecheckLate, RecheckNeeded, Settle, SettleWith, TypeOK, Judged, Unfinished
    <2>3. CASE FlakeFirst \/ NoFlakeCheck \/ GutOpposite \/ StubOne \/ AfterStub
      BY <2>3, <1>b DEF FlakeFirst, NoFlakeCheck, GutOpposite, StubOne, AfterStub, Judged, Unfinished
    <2> QED
      BY <1>4, <2>1, <2>2, <2>3 DEF FoldBlock
  <1>5. CASE TimeOut
    BY <1>5 DEF TimeOut, Judged, Unfinished
  <1>6. CASE UNCHANGED vars
    BY <1>6 DEF vars, Judged, Unfinished
  <1> QED
    BY <1>1, <1>2, <1>3, <1>4, <1>5, <1>6 DEF Next, Engine

LEMMA HollowNext ==
  Position /\ Loops /\ PlainOpp /\ HollowEarned /\ TypeOK' /\ [Next]_vars => HollowEarned'
  <1> SUFFICES ASSUME Position, Loops, PlainOpp, HollowEarned, TypeOK', [Next]_vars,
                      NEW b \in Blocks, verdict'[b] = "hollow"
               PROVE  stable'[b] = "stable" /\ HollowAt(b)'
    BY DEF HollowEarned, HollowAt
  <1>1. CASE verdict[b] # "pending"
    BY <1>1, SettledIsFrozen DEF Untouched, HollowEarned, HollowAt
  <1>2. CASE verdict[b] = "pending"
    <2>1. /\ b = cur /\ UNCHANGED <<kind, pos, opp>> /\ FoldVerdict(b) = "hollow"
          /\ stable'[b] \notin {"unchecked", "flaky"}
      BY <1>2, VerdictStep DEF Unfinished, Judged
    <2>2. HollowAt(b)
      BY <2>1, FoldHollow DEF Position
    <2> QED
      BY <2>1, <2>2 DEF HollowAt, TypeOK
  <1> QED
    BY <1>1, <1>2

LEMMA PartialNext ==
  Position /\ Loops /\ NoPartialVerdict /\ [Next]_vars => NoPartialVerdict'
  <1> SUFFICES ASSUME Position, Loops, NoPartialVerdict, [Next]_vars,
                      NEW b \in Blocks, verdict'[b] \in Unfinished,
                      NEW e \in Entries, kind'[b][e] # "none"
               PROVE  pos'[b][e] # "untried"
    BY DEF NoPartialVerdict, Unfinished
  <1>1. CASE verdict[b] # "pending"
    BY <1>1, SettledIsFrozen DEF Untouched, NoPartialVerdict, Unfinished
  <1>2. CASE verdict[b] = "pending"
    BY <1>2, VerdictStep, FoldComplete DEF Position, Judged
  <1> QED
    BY <1>1, <1>2

(***************************************************************************)
(* The invariant and what it gives.                                        *)
(***************************************************************************)
LEMMA InvInit == Init => IInv
  <1> SUFFICES ASSUME Init PROVE IInv
    OBVIOUS
  <1>1. TypeOK /\ Passes /\ Open
    BY TypeInit, PositionInit
  <1>2. Fresh /\ Loops /\ PlainOpp
    BY DEF Init, Fresh, Loops, PlainOpp, Tried
  <1>3. RowsMatch /\ HollowEarned /\ NoPartialVerdict
    BY DEF Init, RowsMatch, HollowEarned, NoPartialVerdict
  <1> QED
    BY <1>1, <1>2, <1>3 DEF IInv

LEMMA InvNext == IInv /\ [Next]_vars => IInv'
  <1> SUFFICES ASSUME IInv, [Next]_vars PROVE IInv'
    OBVIOUS
  <1>1. Position
    BY DEF IInv, Position
  <1> QED
    BY <1>1, TypeNext, PositionNext, FreshNext, LoopsNext, PlainOppNext, RowsNext, HollowNext,
       PartialNext DEF IInv

THEOREM Invariance == Spec => []IInv
  <1> QED
    BY InvInit, InvNext, PTL DEF Spec

\* Every block has exactly one row, and a finished run has no block without one.
THEOREM AccountedTheorem == Spec => []Accounted
  <1>1. IInv => Accounted
    <2> SUFFICES ASSUME IInv PROVE Accounted
      OBVIOUS
    <2>1. ASSUME pc = "done", NEW b \in Blocks PROVE verdict[b] # "pending"
      BY <2>1 DEF IInv, Open, IsOpen, Passes, Working
    <2> QED
      BY <2>1 DEF IInv, RowsMatch, Accounted
  <1> QED
    BY <1>1, Invariance, PTL

\* No hollow verdict without the evidence for it.
THEOREM HollowEarnedTheorem == Spec => []HollowEarned
  <1>1. IInv => HollowEarned
    BY DEF IInv
  <1> QED
    BY <1>1, Invariance, PTL

\* No accusation on part of the evidence.
THEOREM NoPartialVerdictTheorem == Spec => []NoPartialVerdict
  <1>1. IInv => NoPartialVerdict
    BY DEF IInv
  <1> QED
    BY <1>1, Invariance, PTL

(***************************************************************************)
(* Refinement.  Every entry is gutted at most once (NotYet), so what a     *)
(* block's mutants have shown only grows.                                  *)
(***************************************************************************)
NotYet ==
  /\ pc = "value" => \A e \in todo \cup RelFns(cur) : ~Tried(cur, e)
  /\ pc \in {"relInline", "relLate"} => \A e \in todo : ~Tried(cur, e)
  /\ \A b \in deferred : \A e \in RelFns(b) : ~Tried(b, e)

LEMMA NotYetQuiet ==
  ASSUME NotYet, UNCHANGED <<kind, pos>>, deferred' \subseteq deferred,
         pc' \notin {"value", "relInline", "relLate"}
  PROVE  NotYet'
  BY DEF NotYet, Tried, RelFns

LEMMA GutNotYet ==
  ASSUME Position, Loops, NotYet, pc \in {"value", "relInline", "relLate"},
         NEW e \in todo, Gut(e)
  PROVE  NotYet'
  <1>1. PICK out \in MutantRuns \cup {"unlocated"} : pos' = [pos EXCEPT ![cur][e] = out]
    BY DEF Gut
  <1>2. /\ e \in Entries /\ cur \in Blocks /\ deferred \subseteq Blocks
        /\ cur \notin deferred
    BY DEF Position, TypeOK, Open, Working
  <1>3. UNCHANGED <<kind, pc, cur, deferred>> /\ todo' = todo \ {e} /\ todo \subseteq Entries
    BY DEF Gut, Position, TypeOK
  <1>4. ASSUME NEW b \in Blocks, NEW x \in Entries, b # cur \/ x # e
        PROVE  Tried(b, x)' <=> Tried(b, x)
    BY <1>1, <1>2, <1>4 DEF Tried, Position, TypeOK
  <1>5. \A b : RelFns(b)' = RelFns(b) /\ RelFns(b) \subseteq Entries
    BY <1>3 DEF RelFns
  <1>6. pc = "value" => e \notin RelFns(cur)
    BY DEF Loops, ValueFns, RelFns
  <1>7. pc' = "value" => \A x \in todo' \cup RelFns(cur)' : ~Tried(cur, x)'
    BY <1>2, <1>3, <1>4, <1>5, <1>6 DEF NotYet
  <1>8. pc' \in {"relInline", "relLate"} => \A x \in todo' : ~Tried(cur, x)'
    BY <1>2, <1>3, <1>4 DEF NotYet
  <1>9. \A b \in deferred' : \A x \in RelFns(b)' : ~Tried(b, x)'
    BY <1>2, <1>3, <1>4, <1>5 DEF NotYet
  <1> QED
    BY <1>3, <1>7, <1>8, <1>9 DEF NotYet, Tried

LEMMA NotYetNext == Position /\ Fresh /\ Loops /\ NotYet /\ [Next]_vars => NotYet'
  <1> SUFFICES ASSUME Position, Fresh, Loops, NotYet, [Next]_vars PROVE NotYet'
    OBVIOUS
  <1> USE DEF evidenceVars
  <1>a. TypeOK
    BY DEF Position
  <1>1. CASE Gates
    <2>1. CASE Analyse
      <3>1. /\ UNCHANGED <<pos, deferred>> /\ pc' = "gates" /\ pc = "block"
            /\ \A b \in Blocks : b # cur => kind'[b] = kind[b]
        BY <2>1, <1>a DEF Analyse, AtBlock, TypeOK
      <3>2. \A b \in deferred : b # cur /\ b \in Blocks
        BY <3>1 DEF Position, Open, Working, TypeOK
      <3> QED
        BY <3>1, <3>2 DEF NotYet, Tried, RelFns
    <2>2. CASE ~Analyse
      BY <1>1, <2>2, NotYetQuiet DEF Gates, RunnerMismatch, UnsupportedSourceSet, CapUnanalysed,
         NotProbeable, Cap, AbortOnEnv, AmbiguousTitle, Dismiss, NextBlock
    <2> QED
      BY <2>1, <2>2
  <1>2. CASE Probe
    <2>1. CASE BaselineBad
      BY <2>1, NotYetQuiet DEF BaselineBad, Dismiss, NextBlock
    <2>2. CASE BaselineGreen
      <3>1. \A e \in Entries : ~Tried(cur, e)
        BY <2>2, <1>a DEF BaselineGreen, Fresh, Reached, Tried, Position, Passes, TypeOK
      <3> QED
        BY <2>2, <3>1 DEF BaselineGreen, NotYet, Tried, ValueFns, RelFns
    <2>3. CASE GutValue
      BY <2>3, GutNotYet DEF GutValue, First
    <2>4. CASE AfterValue
      BY <2>4 DEF AfterValue, NextBlock, NotYet, Tried, RelFns
    <2>5. CASE GutRelInline
      BY <2>5, GutNotYet DEF GutRelInline, First
    <2>6. CASE AfterRelInline
      BY <2>6, NotYetQuiet DEF AfterRelInline
    <2> QED
      BY <1>2, <2>1, <2>2, <2>3, <2>4, <2>5, <2>6 DEF Probe
  <1>3. CASE Drain
    <2>1. CASE StartPass2 \/ Finish \/ AfterRelLate \/ Starve
      BY <2>1, NotYetQuiet DEF StartPass2, Finish, AfterRelLate, Starve
    <2>2. CASE TakeDeferred
      <3>1. PICK b \in deferred : cur' = b /\ deferred' = deferred \ {b} /\ todo' = RelFns(b)
        BY <2>2 DEF TakeDeferred, First
      <3> QED
        BY <2>2, <3>1 DEF TakeDeferred, NotYet, Tried, RelFns
    <2>3. CASE GutRelLate
      BY <2>3, GutNotYet DEF GutRelLate, First
    <2> QED
      BY <1>3, <2>1, <2>2, <2>3 DEF Drain
  <1>4. CASE FoldBlock
    BY <1>4, NotYetQuiet DEF FoldBlock, FlakeFirst, NoFlakeCheck, GutOpposite, Fold, RecheckLate,
       StubOne, AfterStub, AfterFold
  <1>5. CASE TimeOut \/ UNCHANGED vars
    BY <1>5 DEF TimeOut, vars, NotYet, Tried, RelFns
  <1> QED
    BY <1>1, <1>2, <1>3, <1>4, <1>5 DEF Next, Engine

\* What the fold says is backed by what the mutants of the block showed.
LEMMA FoldBacked ==
  ASSUME TypeOK, NEW b \in Blocks
  PROVE  Ledger!Backed(FoldVerdict(b), Seen[b])
  <1>1. Seen[b] = {run \in {"red", "green"} : \E e \in Entries : pos[b][e] = run}
    BY DEF Seen
  <1>2. BrokeFns(b) # {} => "red" \in Seen[b]
    BY <1>1 DEF BrokeFns
  <1>3. SurvivorFns(b) # {} => "green" \in Seen[b]
    BY <1>1 DEF SurvivorFns
  <1>4. ~AnyGutted(b) => Seen[b] = {}
    BY <1>1 DEF AnyGutted, Runs
  <1>5. /\ BoundFns(b) \subseteq BrokeFns(b)
        /\ BlindFns(b) \subseteq SurvivorFns(b)
        /\ OneSidedFns(b) \subseteq BrokeFns(b) \cup SurvivorFns(b)
    BY DEF BoundFns, BlindFns, BlindAll, OneSidedFns
  <1> QED
    BY <1>2, <1>3, <1>4, <1>5 DEF FoldVerdict, Ledger!Backed

\* Gutting an entry adds at most one outcome to what its block has shown.
LEMMA GutObserves ==
  ASSUME Position, NotYet, pc \in {"value", "relInline", "relLate"}, NEW e \in todo, Gut(e)
  PROVE  [Ledger!Next]_(Ledger!ledgerStateVars)
  <1>1. PICK out \in MutantRuns \cup {"unlocated"} : pos' = [pos EXCEPT ![cur][e] = out]
    BY DEF Gut
  <1>2. e \in Entries /\ cur \in Blocks /\ pos[cur][e] = "untried"
    BY DEF Position, TypeOK, NotYet, Tried
  <1>3. verdict' = verdict /\ pc' = pc /\ verdict[cur] = "pending"
    BY <1>2 DEF Gut, ledgerVars, Position, Open, IsOpen, Working
  <1>4. ASSUME NEW b \in Blocks, NEW x \in Entries
        PROVE  pos'[b][x] = IF b = cur /\ x = e THEN out ELSE pos[b][x]
    BY <1>1, <1>2 DEF Position, TypeOK
  <1>5. ASSUME NEW b \in Blocks
        PROVE  Seen'[b] = IF b = cur /\ out \in {"red", "green"}
                          THEN Seen[b] \cup {out} ELSE Seen[b]
    BY <1>2, <1>4 DEF Seen
  <1>6. CASE out \in {"red", "green"}
    <2>1. Seen' = [Seen EXCEPT ![cur] = @ \cup {out}]
      BY <1>2, <1>5, <1>6 DEF Seen
    <2>2. Ledger!Observe(cur)
      BY <1>3, <1>6, <2>1 DEF Ledger!Observe
    <2> QED
      BY <1>2, <2>2 DEF Ledger!Next
  <1>7. CASE out \notin {"red", "green"}
    <2>1. Seen' = Seen
      BY <1>5, <1>7 DEF Seen
    <2> QED
      BY <1>3, <2>1 DEF Ledger!ledgerStateVars
  <1> QED
    BY <1>6, <1>7

\* Settling a block is deciding it, when the verdict is backed.
LEMMA SettleDecides ==
  ASSUME Position, NEW v \in Verdicts, NEW r \in Nat, SettleWith(cur, v, r), cur \in Blocks,
         pc \in Working, pc' # "done", pos' = pos, Ledger!Backed(v, Seen[cur])
  PROVE  [Ledger!Next]_(Ledger!ledgerStateVars)
  <1>1. verdict[cur] = "pending" /\ pc # "done"
    BY DEF Position, Open, IsOpen, Working
  <1>2. verdict' = [verdict EXCEPT ![cur] = v]
    BY DEF SettleWith
  <1>3. Seen' = Seen
    BY DEF Seen
  <1>4. Ledger!Decide(cur)
    BY <1>1, <1>2, <1>3 DEF Ledger!Decide
  <1> QED
    BY <1>4 DEF Ledger!Next

\* Every verdict but those of the fold needs no backing.
LEMMA Unjudged ==
  ASSUME NEW v \in Verdicts \ Judged, NEW s PROVE Ledger!Backed(v, s)
  BY DEF Ledger!Backed, Judged, Unfinished

LEMMA Stutter ==
  ASSUME UNCHANGED <<pos, verdict>>, pc' = "done" <=> pc = "done"
  PROVE  [Ledger!Next]_(Ledger!ledgerStateVars)
  <1>1. Seen' = Seen
    BY DEF Seen
  <1> QED
    BY <1>1 DEF Ledger!ledgerStateVars

LEMMA StepRefines ==
  IInv /\ NotYet /\ [Next]_vars => [Ledger!Next]_(Ledger!ledgerStateVars)
  <1> SUFFICES ASSUME IInv, NotYet, [Next]_vars
               PROVE  [Ledger!Next]_(Ledger!ledgerStateVars)
    OBVIOUS
  <1>a. Position /\ TypeOK
    BY DEF IInv, Position
  <1>b. pc \in Working /\ pc # "block" => cur \in Blocks
    BY <1>a DEF TypeOK, Working
  <1> USE DEF ledgerVars, evidenceVars
  <1>1. CASE Gates
    <2>1. ASSUME NEW v \in Verdicts, NEW r \in Nat, SettleWith(cur, v, r), cur \in Blocks,
                 pc \in Working, v \notin Judged, pc' = "block", pos' = pos
          PROVE  [Ledger!Next]_(Ledger!ledgerStateVars)
      BY <2>1, <1>a, Unjudged, SettleDecides
    <2>2. ASSUME NEW v \in Verdicts, v \notin Judged, Dismiss(v), cur \in Blocks, pc \in Working
          PROVE  [Ledger!Next]_(Ledger!ledgerStateVars)
      BY <2>1, <2>2 DEF Dismiss, Settle, NextBlock
    <2> USE DEF Verdicts, Judged, Unfinished, InconclusiveWhys, SkipWhys, Working
    <2>3. CASE RunnerMismatch
      BY <2>2, <2>3 DEF RunnerMismatch, AtBlock
    <2>4. CASE UnsupportedSourceSet
      BY <2>1, <2>4 DEF UnsupportedSourceSet, AtBlock, NextBlock
    <2>5. CASE CapUnanalysed
      BY <2>2, <2>5 DEF CapUnanalysed, AtBlock
    <2>6. CASE NotProbeable
      BY <2>2, <2>6 DEF NotProbeable, AtBlock
    <2>7. CASE Analyse
      BY <2>7, Stutter DEF Analyse, AtBlock
    <2>8. CASE Cap
      BY <2>2, <2>8, <1>b DEF Cap
    <2>9. CASE AbortOnEnv
      BY <2>2, <2>9, <1>b DEF AbortOnEnv
    <2>10. CASE AmbiguousTitle
      BY <2>2, <2>10, <1>b DEF AmbiguousTitle
    <2> QED
      BY <1>1, <2>3, <2>4, <2>5, <2>6, <2>7, <2>8, <2>9, <2>10 DEF Gates
  <1>2. CASE Probe
    <2>1. CASE BaselineBad
      <3>1. PICK v \in {"failing", "didNotRun"} : Dismiss(v)
        BY <2>1 DEF BaselineBad
      <3>2. v \in Verdicts \ Judged /\ pc \in Working /\ cur \in Blocks
        BY <2>1, <1>b DEF BaselineBad, Verdicts, Judged, Unfinished, InconclusiveWhys, Working
      <3>3. SettleWith(cur, v, 1) /\ pc' # "done" /\ pos' = pos
        BY <3>1 DEF Dismiss, Settle, NextBlock
      <3> QED
        BY <3>2, <3>3, <1>a, Unjudged, SettleDecides
    <2>2. CASE BaselineGreen \/ AfterValue \/ AfterRelInline
      BY <2>2, Stutter DEF BaselineGreen, AfterValue, AfterRelInline, NextBlock
    <2>3. CASE GutValue
      BY <2>3, <1>a, GutObserves DEF GutValue, First
    <2>4. CASE GutRelInline
      BY <2>4, <1>a, GutObserves DEF GutRelInline, First
    <2> QED
      BY <1>2, <2>1, <2>2, <2>3, <2>4 DEF Probe
  <1>3. CASE Drain
    <2>1. CASE StartPass2 \/ TakeDeferred \/ AfterRelLate
      BY <2>1, Stutter DEF StartPass2, TakeDeferred, AfterRelLate
    <2>2. CASE GutRelLate
      BY <2>2, <1>a, GutObserves DEF GutRelLate, First
    <2>3. CASE Starve
      <3>1. CASE AnyGutted(cur)
        BY <2>3, <3>1, Stutter DEF Starve
      <3>2. CASE ~AnyGutted(cur)
        <4>1. "capped" \in Verdicts \ Judged
          BY DEF Verdicts, Judged, Unfinished
        <4>2. SettleWith(cur, "capped", 1) /\ pc' # "done" /\ pos' = pos
          BY <2>3, <3>2 DEF Starve, Settle
        <4>3. pc \in Working /\ cur \in Blocks
          BY <2>3, <1>b DEF Starve, Working
        <4> QED
          BY <4>1, <4>2, <4>3, <1>a, Unjudged, SettleDecides
      <3> QED
        BY <3>1, <3>2
    <2>4. CASE Finish
      <3>1. \A b \in Blocks : verdict[b] # "pending"
        BY <2>4 DEF Finish, IInv, Open, IsOpen, Passes, Working
      <3>2. Seen' = Seen
        BY <2>4 DEF Finish, Seen
      <3>3. Ledger!Close
        BY <2>4, <3>1, <3>2 DEF Finish, Ledger!Close
      <3> QED
        BY <3>3 DEF Ledger!Next
    <2> QED
      BY <1>3, <2>1, <2>2, <2>3, <2>4 DEF Drain
  <1>4. CASE FoldBlock
    <2>1. CASE Fold
      <3>1. SettleWith(cur, FoldVerdict(cur), 1) /\ pc' # "done" /\ pos' = pos /\ pc = "opposite"
        BY <2>1 DEF Fold, Settle, AfterFold
      <3>2. cur \in Blocks /\ pc \in Working
        BY <3>1, <1>b DEF Working
      <3> QED
        BY <3>1, <3>2, <1>a, FoldBacked, FoldVerdictType, SettleDecides
    <2>2. CASE RecheckLate
      <3>1. PICK v \in {"hollow", "flaky"} : SettleWith(cur, v, 1)
        BY <2>2 DEF RecheckLate, Settle
      <3>2. pc' # "done" /\ pos' = pos /\ pc = "opposite" /\ FoldVerdict(cur) = "hollow"
        BY <2>2 DEF RecheckLate, RecheckNeeded, AfterFold
      <3>3. cur \in Blocks /\ pc \in Working /\ v \in Verdicts
        BY <3>2, <1>b DEF Working, Verdicts, InconclusiveWhys
      <3>4. Ledger!Backed(v, Seen[cur])
        BY <3>2, <3>3, <1>a, FoldBacked DEF Ledger!Backed
      <3> QED
        BY <3>1, <3>2, <3>3, <3>4, <1>a, SettleDecides
    <2>3. CASE FlakeFirst \/ NoFlakeCheck \/ GutOpposite \/ StubOne \/ AfterStub
      BY <2>3, Stutter DEF FlakeFirst, NoFlakeCheck, GutOpposite, StubOne, AfterStub
    <2> QED
      BY <1>4, <2>1, <2>2, <2>3 DEF FoldBlock
  <1>5. CASE TimeOut
    BY <1>5, Stutter DEF TimeOut
  <1>6. CASE UNCHANGED vars
    BY <1>6, Stutter DEF vars
  <1> QED
    BY <1>1, <1>2, <1>3, <1>4, <1>5, <1>6 DEF Next, Engine

LEMMA InitRefines == Init => Ledger!Init
  <1> SUFFICES ASSUME Init PROVE Ledger!Init
    OBVIOUS
  <1>1. Seen = [b \in Blocks |-> {}]
    BY DEF Init, Seen
  <1> QED
    BY <1>1 DEF Init, Ledger!Init

\* The engine implements the ledger: one final, backed verdict per block.
THEOREM Refinement == Spec => ImplementsLedger
  <1>1. Init => NotYet
    BY DEF Init, NotYet
  <1>2. IInv /\ NotYet /\ [Next]_vars => NotYet'
    BY NotYetNext DEF IInv, Position
  <1> QED
    BY <1>1, <1>2, InitRefines, StepRefines, Invariance, PTL
       DEF Spec, ImplementsLedger, Ledger!Spec

-----------------------------------------------------------------------------
HIDE DEF Counts, Queued, Dequeued, CutOff, StarvedSet, Evidence, AccusationShaped, FlakyBlock,
         TooPartial

(***************************************************************************)
(* The environment.  Before the first green baseline no block has got past *)
(* its gates, so nothing was probed and nothing can be scored.             *)
(***************************************************************************)
PastGates == {"value", "relInline", "relLate", "fold", "opposite", "stub"}

Ungreen ==
  okBase = 0 =>
    /\ probes = 0 /\ deferred = {} /\ pc \notin PastGates
    /\ \A b \in Blocks : verdict[b] \notin Scored

AbortStands == (\E b \in Blocks : verdict[b] = "envAborted") => EnvBroken

EnvInv == Ungreen /\ AbortStands

LEMMA EnvInit == Init => EnvInv
  BY DEF Init, EnvInv, Ungreen, AbortStands, PastGates, Scored

\* Settling a block as anything but a scored verdict, before a green baseline or
\* after it.
LEMMA EnvSettle ==
  ASSUME TypeOK, EnvInv, cur \in Blocks, NEW v \in Verdicts \ Scored, NEW r \in Nat,
         SettleWith(cur, v, r), v = "envAborted" => EnvBroken,
         pc' \notin PastGates, okBase' = okBase, badBase' >= badBase,
         badBase' \in Nat, UNCHANGED <<probes, deferred>>
  PROVE  EnvInv'
  <1>1. \A b \in Blocks : verdict'[b] = IF b = cur THEN v ELSE verdict[b]
    BY DEF SettleWith, TypeOK
  <1>2. Ungreen'
    BY <1>1 DEF EnvInv, Ungreen
  <1>3. EnvBroken => EnvBroken'
    BY BudgetAssumption DEF EnvBroken, TypeOK
  <1>4. AbortStands'
    BY <1>1, <1>3 DEF EnvInv, AbortStands
  <1> QED
    BY <1>2, <1>4 DEF EnvInv

\* A step of the engine past the gates of a block, or after a green baseline.
LEMMA EnvGreen ==
  ASSUME TypeOK, EnvInv, okBase # 0, okBase' = okBase,
         \A b \in Blocks : verdict'[b] = "envAborted" => verdict[b] = "envAborted"
  PROVE  EnvInv'
  BY DEF EnvInv, Ungreen, AbortStands, EnvBroken

LEMMA EnvGates == TypeOK /\ EnvInv /\ Gates => EnvInv'
  <1> SUFFICES ASSUME TypeOK, EnvInv, Gates PROVE EnvInv'
    OBVIOUS
  <1>a. badBase \in Nat
    BY DEF TypeOK
  <1>b. pc = "gates" => cur \in Blocks
    BY DEF TypeOK
  <1>1. ASSUME NEW v \in Verdicts \ Scored, Dismiss(v), cur \in Blocks,
               v = "envAborted" => EnvBroken, UNCHANGED baseVars
        PROVE  EnvInv'
    BY <1>1, <1>a, EnvSettle DEF Dismiss, Settle, NextBlock, PastGates, baseVars
  <1> USE DEF Verdicts, Scored, InconclusiveWhys, SkipWhys
  <1>2. CASE RunnerMismatch
    BY <1>1, <1>2 DEF RunnerMismatch, AtBlock
  <1>3. CASE UnsupportedSourceSet
    BY <1>3, <1>a, EnvSettle DEF UnsupportedSourceSet, AtBlock, NextBlock, PastGates, baseVars
  <1>4. CASE CapUnanalysed
    BY <1>1, <1>4 DEF CapUnanalysed, AtBlock
  <1>5. CASE NotProbeable
    BY <1>1, <1>5 DEF NotProbeable, AtBlock
  <1>6. CASE Analyse
    BY <1>6 DEF Analyse, EnvInv, Ungreen, AbortStands, EnvBroken, PastGates, ledgerVars, baseVars
  <1>7. CASE Cap
    BY <1>1, <1>7, <1>b DEF Cap
  <1>8. CASE AbortOnEnv
    BY <1>1, <1>8, <1>b DEF AbortOnEnv
  <1>9. CASE AmbiguousTitle
    BY <1>1, <1>9, <1>b DEF AmbiguousTitle
  <1> QED
    BY <1>2, <1>3, <1>4, <1>5, <1>6, <1>7, <1>8, <1>9 DEF Gates

\* The fold and the drain settle a block, but never as aborted.
LEMMA EnvFold ==
  ASSUME TypeOK, FoldBlock \/ Starve, NEW b \in Blocks, verdict'[b] = "envAborted"
  PROVE  verdict[b] = "envAborted"
  <1>1. FoldVerdict(cur) # "envAborted"
    BY DEF FoldVerdict
  <1> QED
    BY <1>1 DEF FoldBlock, Starve, FlakeFirst, NoFlakeCheck, GutOpposite, Fold, RecheckLate,
       StubOne, AfterStub, Settle, SettleWith, ledgerVars, TypeOK

LEMMA EnvNext == TypeOK /\ EnvInv /\ [Next]_vars => EnvInv'
  <1> SUFFICES ASSUME TypeOK, EnvInv, [Next]_vars PROVE EnvInv'
    OBVIOUS
  <1> USE DEF ledgerVars, baseVars
  <1>a. pc \in PastGates => okBase # 0
    BY DEF EnvInv, Ungreen
  <1>1. CASE Gates
    BY <1>1, EnvGates
  <1>2. CASE BaselineBad
    <2>1. PICK v \in {"failing", "didNotRun"} : Dismiss(v)
      BY <1>2 DEF BaselineBad
    <2>2. cur \in Blocks /\ badBase' >= badBase /\ badBase' \in Nat /\ okBase' = okBase
      BY <1>2 DEF BaselineBad, TypeOK
    <2>3. v \in Verdicts \ Scored /\ v # "envAborted"
      BY DEF Verdicts, Scored, InconclusiveWhys
    <2> QED
      BY <2>1, <2>2, <2>3, EnvSettle DEF Dismiss, Settle, NextBlock, PastGates
  <1>3. CASE BaselineGreen
    <2>1. okBase' # 0 /\ ~EnvBroken /\ verdict' = verdict
      BY <1>3 DEF BaselineGreen, TypeOK
    <2> QED
      BY <2>1 DEF EnvInv, Ungreen, AbortStands
  <1>4. CASE GutValue \/ AfterValue \/ GutRelInline \/ AfterRelInline \/ GutRelLate \/ AfterRelLate
    <2>1. pc \in PastGates /\ verdict' = verdict /\ okBase' = okBase
      BY <1>4 DEF GutValue, AfterValue, GutRelInline, AfterRelInline, GutRelLate, AfterRelLate,
         Gut, PastGates
    <2> QED
      BY <2>1, <1>a, EnvGreen
  <1>5. CASE FoldBlock \/ Starve
    <2>1. pc \in PastGates /\ okBase' = okBase
      BY <1>5 DEF FoldBlock, FlakeFirst, NoFlakeCheck, GutOpposite, Fold, RecheckLate, StubOne,
         AfterStub, Starve, PastGates
    <2> QED
      BY <1>5, <2>1, <1>a, EnvFold, EnvGreen
  <1>6. CASE TakeDeferred
    <2>1. deferred # {} /\ verdict' = verdict /\ okBase' = okBase
      BY <1>6 DEF TakeDeferred, First
    <2>2. okBase # 0
      BY <2>1 DEF EnvInv, Ungreen
    <2> QED
      BY <2>1, <2>2, EnvGreen
  <1>7. CASE StartPass2 \/ Finish \/ TimeOut \/ UNCHANGED vars
    BY <1>7 DEF StartPass2, Finish, TimeOut, vars, EnvInv, Ungreen, AbortStands, EnvBroken,
       PastGates
  <1> QED
    BY <1>1, <1>2, <1>3, <1>4, <1>5, <1>6, <1>7 DEF Next, Engine, Probe, Drain

\* A run that gave up on its environment never had a green baseline, ran no mutant
\* and scored nothing, before the abort or after it.
THEOREM EnvAbortTheorem == Spec => []EnvAbortSound
  <1>1. EnvInv => EnvAbortSound
    BY DEF EnvInv, Ungreen, AbortStands, EnvBroken, EnvAbortSound
  <1> QED
    BY <1>1, EnvInit, EnvNext, TypeInit, TypeNext, PTL DEF Spec

(***************************************************************************)
(* The order of the two passes: no entry is gutted twice (NotYet), so what *)
(* is known of a value function when a block is deferred stays known.      *)
(***************************************************************************)
ValuesHeld(b) == ValueFns(b) # {} /\ \A v \in ValueFns(b) : pos[b][v] # "red"

OrderInv ==
  /\ IInv /\ NotYet /\ RelationalWaits
  /\ pc = "relInline" => ValuesHeld(cur)

LEMMA OrderInit == Init => OrderInv
  <1> SUFFICES ASSUME Init PROVE OrderInv
    OBVIOUS
  <1>1. IInv
    BY InvInit
  <1>2. NotYet /\ RelationalWaits /\ pc # "relInline"
    BY DEF Init, NotYet, RelationalWaits
  <1> QED
    BY <1>1, <1>2 DEF OrderInv

\* A step that guts nothing and defers nothing.
LEMMA WaitsQuiet ==
  ASSUME RelationalWaits, UNCHANGED <<kind, pos>>, deferred' \subseteq deferred,
         pass' = 1 => pass = 1
  PROVE  RelationalWaits'
  BY DEF RelationalWaits

\* Value functions which were all tried and held.
LEMMA HeldApart ==
  ASSUME IInv, ValuesHeld(cur), \A e \in ValueFns(cur) : Tried(cur, e)
  PROVE  /\ \E v \in Entries : kind[cur][v] = "value"
         /\ \A v \in Entries : kind[cur][v] = "value" => pos[cur][v] \notin {"red", "untried"}
  BY DEF ValuesHeld, ValueFns, Tried

LEMMA GutWaits ==
  ASSUME OrderInv, pc \in {"value", "relInline", "relLate"}, NEW e \in todo, Gut(e)
  PROVE  RelationalWaits' /\ (pc = "relInline" => ValuesHeld(cur)')
  <1>1. PICK out \in MutantRuns \cup {"unlocated"} : pos' = [pos EXCEPT ![cur][e] = out]
    BY DEF Gut
  <1>2. e \in Entries /\ cur \in Blocks /\ cur \notin deferred /\ deferred \subseteq Blocks
    BY DEF OrderInv, IInv, TypeOK, Open, Working
  <1>3. UNCHANGED <<kind, cur, deferred, pass>>
    BY DEF Gut
  <1>4. \A b \in Blocks, x \in Entries : pos'[b][x] = IF b = cur /\ x = e THEN out ELSE pos[b][x]
    BY <1>1, <1>2 DEF OrderInv, IInv, TypeOK
  <1>5. \A b \in deferred : \/ \A x \in Entries : kind[b][x] # "value"
                           \/ \E x \in Entries : kind[b][x] = "value" /\ pos'[b][x] = "red"
    BY <1>2, <1>4 DEF OrderInv, RelationalWaits
  <1>6. ASSUME pass = 1, NEW b \in Blocks, NEW x \in Entries, kind[b][x] = "rel",
               pos'[b][x] # "untried"
        PROVE  /\ \E v \in Entries : kind[b][v] = "value"
               /\ \A v \in Entries : kind[b][v] = "value" => pos'[b][v] \notin {"red", "untried"}
    <2>1. CASE b # cur
      BY <1>4, <1>6, <2>1 DEF OrderInv, RelationalWaits
    <2>2. CASE b = cur /\ pc = "value"
      <3>1. kind[cur][e] = "value" /\ pos[cur][x] = "untried" /\ x # e
        BY <1>2, <1>6, <2>2 DEF OrderInv, IInv, Loops, NotYet, Tried, ValueFns, RelFns
      <3> QED
        BY <1>2, <1>4, <1>6, <2>2, <3>1
    <2>3. CASE b = cur /\ pc = "relInline"
      <3>1. /\ kind[cur][e] = "rel"
            /\ \E v \in Entries : kind[cur][v] = "value"
            /\ \A v \in Entries : kind[cur][v] = "value" => pos[cur][v] \notin {"red", "untried"}
        BY <2>3, HeldApart DEF OrderInv, IInv, Loops, RelFns
      <3> QED
        BY <1>4, <2>3, <3>1
    <2>4. pc # "relLate"
      BY <1>6 DEF OrderInv, IInv, Passes
    <2> QED
      BY <2>1, <2>2, <2>3, <2>4
  <1>7. ASSUME pc = "relInline" PROVE ValuesHeld(cur)'
    <2>1. kind[cur][e] = "rel" /\ ValuesHeld(cur)
      BY <1>7 DEF OrderInv, IInv, Loops, RelFns
    <2>2. ValueFns(cur)' = ValueFns(cur) /\ \A v \in ValueFns(cur) : pos'[cur][v] = pos[cur][v]
      BY <1>2, <1>3, <1>4, <2>1 DEF ValueFns
    <2> QED
      BY <1>3, <2>1, <2>2 DEF ValuesHeld
  <1> QED
    BY <1>3, <1>5, <1>6, <1>7 DEF RelationalWaits

LEMMA WaitsNext ==
  OrderInv /\ [Next]_vars => RelationalWaits' /\ (pc' = "relInline" => ValuesHeld(cur)')
  <1> SUFFICES ASSUME OrderInv, [Next]_vars
               PROVE  RelationalWaits' /\ (pc' = "relInline" => ValuesHeld(cur)')
    OBVIOUS
  <1> USE DEF evidenceVars
  <1>a. TypeOK /\ Fresh /\ Loops /\ NotYet /\ RelationalWaits
    BY DEF OrderInv, IInv
  <1>1. CASE Analyse
    <2>1. /\ UNCHANGED <<pos, deferred, pass>> /\ pc' = "gates" /\ pass = 1 /\ pc = "block"
          /\ cur \in Blocks /\ \A b \in Blocks : b # cur => kind'[b] = kind[b]
      BY <1>1, <1>a DEF Analyse, AtBlock, TypeOK
    <2>2. \A e \in Entries : pos[cur][e] = "untried"
      BY <1>a, <2>1 DEF Fresh, Reached
    <2>3. cur \notin deferred /\ deferred \subseteq Blocks
      BY <1>a, <2>1 DEF OrderInv, IInv, Open, Working, TypeOK
    <2> QED
      BY <1>a, <2>1, <2>2, <2>3 DEF RelationalWaits
  <1>2. CASE Gates /\ ~Analyse
    BY <1>a, <1>2, WaitsQuiet DEF Gates, RunnerMismatch, UnsupportedSourceSet, CapUnanalysed,
       NotProbeable, Cap, AbortOnEnv, AmbiguousTitle, Dismiss, NextBlock
  <1>3. CASE BaselineBad \/ BaselineGreen
    BY <1>a, <1>3, WaitsQuiet DEF BaselineBad, BaselineGreen, Dismiss, NextBlock
  <1>4. CASE GutValue \/ GutRelInline \/ GutRelLate
    <2>1. PICK e \in todo : Gut(e) /\ pc \in {"value", "relInline", "relLate"}
      BY <1>4 DEF GutValue, GutRelInline, GutRelLate, First
    <2>2. pc' = pc
      BY <2>1 DEF Gut
    <2> QED
      BY <2>1, <2>2, GutWaits
  <1>5. CASE AfterValue
    <2>1. /\ pc = "value" /\ todo = {} /\ UNCHANGED <<kind, pos, pass>>
          /\ cur \in Blocks
      BY <1>5, <1>a DEF AfterValue, TypeOK
    <2>2. \A e \in BrokeFns(cur) : kind[cur][e] = "value"
      <3> SUFFICES ASSUME NEW e \in BrokeFns(cur) PROVE kind[cur][e] = "value"
        OBVIOUS
      <3>1. e \in Entries /\ Tried(cur, e)
        BY DEF BrokeFns, Tried
      <3>2. kind[cur][e] # "none"
        BY <1>a, <2>1, <3>1 DEF Loops
      <3>3. kind[cur][e] # "rel"
        BY <1>a, <2>1, <3>1 DEF NotYet, RelFns
      <3>4. kind[cur][e] \in {"none", "value", "rel"}
        BY <1>a, <2>1, <3>1 DEF TypeOK
      <3> QED
        BY <3>2, <3>3, <3>4
    <2>3. CASE pc' = "relInline"
      <3>1. AccusationShaped(cur) /\ UNCHANGED <<cur, deferred>>
        BY <1>5, <2>3 DEF AfterValue, NextBlock
      <3>2. ValuesHeld(cur)
        BY <3>1 DEF AccusationShaped, ValuesHeld, BrokeFns, ValueFns
      <3>3. ValuesHeld(cur)'
        BY <2>1, <3>1, <3>2 DEF ValuesHeld, ValueFns
      <3> QED
        BY <1>a, <2>1, <3>1, <3>3, WaitsQuiet
    <2>4. CASE deferred' = deferred \cup {cur} /\ ~AccusationShaped(cur) /\ pc' = "block"
      <3>1. \/ \A e \in Entries : kind[cur][e] # "value"
            \/ \E e \in Entries : kind[cur][e] = "value" /\ pos[cur][e] = "red"
        BY <2>2, <2>4 DEF AccusationShaped, ValueFns, BrokeFns
      <3> QED
        BY <1>a, <2>1, <2>4, <3>1 DEF RelationalWaits
    <2>5. CASE pc' = "fold" /\ UNCHANGED deferred
      BY <1>a, <2>1, <2>5, WaitsQuiet
    <2> QED
      BY <1>5, <2>3, <2>4, <2>5 DEF AfterValue, NextBlock, Queued
  <1>6. CASE AfterRelInline \/ AfterRelLate \/ Starve \/ StartPass2 \/ TakeDeferred \/ Finish
    BY <1>a, <1>6, WaitsQuiet DEF AfterRelInline, AfterRelLate, Starve, StartPass2, TakeDeferred,
       Dequeued, Finish
  <1>7. CASE FoldBlock
    BY <1>a, <1>7, WaitsQuiet DEF FoldBlock, FlakeFirst, NoFlakeCheck, GutOpposite, Fold,
       RecheckLate, StubOne, AfterStub, AfterFold
  <1>8. CASE TimeOut \/ UNCHANGED vars
    BY <1>a, <1>8, WaitsQuiet DEF TimeOut, vars, OrderInv, ValuesHeld, ValueFns
  <1> QED
    BY <1>1, <1>2, <1>3, <1>4, <1>5, <1>6, <1>7, <1>8 DEF Next, Engine, Probe, Drain

LEMMA OrderNext == OrderInv /\ [Next]_vars => OrderInv'
  BY WaitsNext, InvNext, NotYetNext DEF OrderInv, IInv, Position

LEMMA OrderInvariant == Spec => []OrderInv
  BY OrderInit, OrderNext, PTL DEF Spec

\* Pass 1 pays for a relational function only to settle an accusation, and no block
\* waits for pass 2 with one open.
THEOREM WaitsTheorem == Spec => []RelationalWaits
  <1>1. OrderInv => RelationalWaits
    BY DEF OrderInv
  <1> QED
    BY <1>1, OrderInvariant, PTL

(***************************************************************************)
(* Sizes of the sets the loops run over.                                   *)
(***************************************************************************)
LEMMA Few ==
  ASSUME NEW S, S \subseteq Entries
  PROVE  IsFiniteSet(S) /\ Cardinality(S) \in Nat /\ Cardinality(S) <= K
  <1>1. IsFiniteSet(Entries) /\ Cardinality(Entries) = K
    BY SizeAssumption, FS_Interval DEF Entries
  <1> QED
    BY <1>1, FS_Subset, FS_CardinalityType

LEMMA OneLess ==
  ASSUME NEW S, S \subseteq Entries, NEW e \in S
  PROVE  Cardinality(S \ {e}) = Cardinality(S) - 1 /\ Cardinality(S) >= 1 /\ K >= 1
  <1>1. IsFiniteSet(S) /\ Cardinality(S) \in Nat /\ Cardinality(S) <= K
    BY Few
  <1>2. Cardinality(S) # 0
    BY <1>1, FS_EmptySet
  <1>3. Cardinality(S \ {e}) = Cardinality(S) - 1
    BY <1>1, FS_RemoveElement
  <1> QED
    BY <1>1, <1>2, <1>3, SizeAssumption

LEMMA TwoKinds ==
  ASSUME NEW b
  PROVE  Cardinality(ValueFns(b)) + Cardinality(RelFns(b)) <= K
  <1>1. ValueFns(b) \subseteq Entries /\ RelFns(b) \subseteq Entries
    BY DEF ValueFns, RelFns
  <1>2. ValueFns(b) \cap RelFns(b) = {}
    BY DEF ValueFns, RelFns
  <1>3. IsFiniteSet(Entries) /\ Cardinality(Entries) = K
    BY SizeAssumption, FS_Interval DEF Entries
  <1>4. ~(Cardinality(ValueFns(b)) + Cardinality(RelFns(b)) > Cardinality(Entries))
    BY <1>1, <1>2, <1>3, FS_MajoritiesIntersect
  <1>5. Cardinality(ValueFns(b)) \in Nat /\ Cardinality(RelFns(b)) \in Nat
    BY <1>1, Few
  <1> QED
    BY <1>3, <1>4, <1>5, SizeAssumption

LEMMA NoneLeft == Cardinality({}) = 0
  BY FS_EmptySet

\* What gutting an entry of the current loop costs.
LEMMA GutCost ==
  ASSUME TypeOK, NEW e \in todo, Gut(e)
  PROVE  /\ Cardinality(todo) \in Nat /\ Cardinality(todo') = Cardinality(todo) - 1
         /\ probes' \in Nat /\ probes' <= probes + 1 /\ K >= 1
  <1>1. todo \subseteq Entries /\ todo' = todo \ {e} /\ probes \in Nat
    BY DEF TypeOK, Gut
  <1>2. probes' = probes \/ probes' = probes + 1
    BY DEF Gut
  <1>3. probes' \in Nat /\ probes' <= probes + 1
    BY <1>1, <1>2
  <1>4. Cardinality(todo) \in Nat
    BY <1>1, Few
  <1>5. Cardinality(todo \ {e}) = Cardinality(todo) - 1 /\ K >= 1
    BY <1>1, OneLess
  <1> QED
    BY <1>1, <1>3, <1>4, <1>5

LEMMA OppositeCost ==
  ASSUME TypeOK, GutOpposite \/ (StubOne)
  PROVE  /\ Cardinality(todo) \in Nat /\ Cardinality(todo') = Cardinality(todo) - 1
         /\ probes' \in Nat /\ probes' <= probes + 1
  <1>1. PICK e \in todo : todo' = todo \ {e}
    BY DEF GutOpposite, StubOne, FirstOpp, First
  <1>2. todo \subseteq Entries /\ probes \in Nat
    BY DEF TypeOK
  <1>3. probes' = probes \/ probes' = probes + 1
    BY DEF GutOpposite, StubOne
  <1> QED
    BY <1>1, <1>2, <1>3, OneLess, Few

(***************************************************************************)
(* The cap of a plain run.  It is consulted before a block and, in pass 2, *)
(* before each relational function.  A block put off to pass 2 was broken  *)
(* by a value function or has none, so it owes an opposite mutant only     *)
(* for what it runs below the cap.                                         *)
(***************************************************************************)
PlainBudget ==
  /\ probes < MaxProbes + 2 * K
  /\ pc = "value" => probes + Cardinality(todo) + Cardinality(RelFns(cur)) < MaxProbes + K
  /\ pc = "relInline" => probes + Cardinality(todo) < MaxProbes + K
  /\ pc \in {"relLate", "fold"} /\ BrokeFns(cur) = {} /\ AnyGutted(cur) => probes < MaxProbes + K
  /\ pc = "opposite" => probes + Cardinality(todo) < MaxProbes + 2 * K
  /\ pc # "stub"

LEMMA PlainInit == Init => PlainBudget
  BY SizeAssumption, BudgetAssumption DEF Init, PlainBudget

LEMMA PlainQuiet ==
  ASSUME PlainBudget, probes' = probes, pc' \in {"block", "gates", "drain", "done"}
  PROVE  PlainBudget'
  BY DEF PlainBudget

LEMMA PlainGut ==
  ASSUME OrderInv, PlainBudget, GutValue \/ GutRelInline \/ GutRelLate
  PROVE  PlainBudget'
  <1> USE SizeAssumption, BudgetAssumption
  <1>1. PICK e \in todo : Gut(e)
    BY DEF GutValue, GutRelInline, GutRelLate, First
  <1>2. TypeOK /\ pc' = pc /\ cur' = cur /\ RelFns(cur)' = RelFns(cur)
    BY <1>1 DEF OrderInv, IInv, Gut, RelFns
  <1>3. /\ Cardinality(todo) \in Nat /\ Cardinality(todo') = Cardinality(todo) - 1
        /\ probes' \in Nat /\ probes' <= probes + 1 /\ K >= 1
    BY <1>1, <1>2, GutCost
  <1>4. probes \in Nat /\ Cardinality(RelFns(cur)) \in Nat
    BY <1>2, Few DEF TypeOK, RelFns
  <1>5. CASE GutValue
    BY <1>2, <1>3, <1>4, <1>5 DEF GutValue, PlainBudget
  <1>6. CASE GutRelInline
    BY <1>2, <1>3, <1>4, <1>6 DEF GutRelInline, PlainBudget
  <1>7. CASE GutRelLate
    <2>1. probes < MaxProbes /\ pc = "relLate"
      BY <1>4, <1>7 DEF GutRelLate, BudgetSpent
    <2>2. probes' < MaxProbes + K
      BY <1>3, <1>4, <2>1
    <2> QED
      BY <1>2, <1>3, <2>1, <2>2 DEF PlainBudget
  <1> QED
    BY <1>5, <1>6, <1>7

LEMMA PlainNext == ASSUME ~Deep, OrderInv, PlainBudget, [Next]_vars PROVE PlainBudget'
  <1> USE SizeAssumption, BudgetAssumption
  <1> USE DEF evidenceVars
  <1>a. TypeOK /\ probes \in Nat /\ todo \subseteq Entries
    BY DEF OrderInv, IInv, TypeOK
  <1>b. \A b : RelFns(b) \subseteq Entries /\ ValueFns(b) \subseteq Entries
               /\ SurvivorFns(b) \subseteq Entries
    BY DEF RelFns, ValueFns, SurvivorFns
  <1>c. Cardinality({}) = 0
    BY NoneLeft
  <1>1. CASE Gates \/ BaselineBad
    BY <1>1, PlainQuiet DEF Gates, RunnerMismatch, UnsupportedSourceSet, CapUnanalysed,
       NotProbeable, Analyse, Cap, AbortOnEnv, AmbiguousTitle, BaselineBad, Dismiss, NextBlock
  <1>2. CASE BaselineGreen
    <2>1. /\ probes' = probes /\ probes < MaxProbes /\ pc' = "value" /\ todo' = ValueFns(cur)
          /\ RelFns(cur)' = RelFns(cur)
      BY <1>a, <1>2 DEF BaselineGreen, BudgetSpent, RelFns
    <2>2. Cardinality(ValueFns(cur)) + Cardinality(RelFns(cur)) <= K
      BY TwoKinds
    <2>3. Cardinality(ValueFns(cur)) \in Nat /\ Cardinality(RelFns(cur)) \in Nat
      BY <1>b, Few
    <2>4. /\ probes' < MaxProbes + 2 * K
          /\ probes' + Cardinality(todo') + Cardinality(RelFns(cur)') < MaxProbes + K
      BY <1>a, <2>1, <2>2, <2>3
    <2> QED
      BY <2>1, <2>4 DEF PlainBudget
  <1>3. CASE GutValue \/ GutRelInline \/ GutRelLate
    BY <1>3, PlainGut
  <1>4. CASE AfterValue
    <2>1. /\ probes' = probes /\ pc = "value" /\ todo = {}
          /\ probes + Cardinality(RelFns(cur)) < MaxProbes + K
          /\ Cardinality(RelFns(cur)) \in Nat
      BY <1>4, <1>a, <1>b, <1>c, Few DEF AfterValue, PlainBudget
    <2>2. probes < MaxProbes + K
      BY <1>a, <2>1
    <2>3. \/ pc' = "block" \/ pc' = "fold"
          \/ pc' = "relInline" /\ todo' = RelFns(cur)
      BY <1>4 DEF AfterValue, NextBlock
    <2> QED
      BY <1>a, <2>1, <2>2, <2>3 DEF PlainBudget
  <1>5. CASE AfterRelInline
    BY <1>5, <1>a, <1>c DEF AfterRelInline, PlainBudget
  <1>6. CASE StartPass2 \/ Finish \/ AfterStub
    BY <1>6, PlainQuiet DEF StartPass2, Finish, AfterStub, PlainBudget
  <1>7. CASE TakeDeferred
    <2>1. PICK b \in deferred : cur' = b /\ pc' = "relLate" /\ UNCHANGED <<kind, pos, probes>>
      BY <1>7 DEF TakeDeferred, First
    <2>2. b \in Blocks
      BY <1>a DEF TypeOK
    <2>3. CASE \E e \in Entries : kind[b][e] = "value" /\ pos[b][e] = "red"
      BY <2>1, <2>3 DEF PlainBudget, BrokeFns
    <2>4. CASE \A e \in Entries : kind[b][e] # "value"
      <3>1. \A e \in Entries : pos[b][e] = "untried"
        BY <1>a, <2>2, <2>4 DEF OrderInv, IInv, Loops, NotYet, RelFns, Tried, TypeOK
      <3>2. ~AnyGutted(cur)'
        BY <2>1, <3>1 DEF AnyGutted, Runs
      <3> QED
        BY <2>1, <3>2 DEF PlainBudget
    <2> QED
      BY <2>3, <2>4 DEF OrderInv, RelationalWaits
  <1>8. CASE AfterRelLate \/ Starve
    <2>1. /\ pc = "relLate" /\ pc' \in {"fold", "drain"}
          /\ UNCHANGED <<cur, kind, pos, probes>>
      BY <1>8 DEF AfterRelLate, Starve
    <2>2. BrokeFns(cur)' = BrokeFns(cur) /\ AnyGutted(cur)' = AnyGutted(cur)
      BY <2>1 DEF BrokeFns, AnyGutted
    <2> QED
      BY <2>1, <2>2 DEF PlainBudget
  <1>9. CASE FlakeFirst \/ NoFlakeCheck
    <2>1. /\ pc = "fold" /\ pc' = "opposite" /\ probes' = probes
          /\ todo' = {} \/ todo' = OppositeTargets(cur)
      BY <1>9 DEF FlakeFirst, NoFlakeCheck
    <2>2. CASE todo' = {}
      BY <2>1, <2>2, <1>a, <1>c DEF PlainBudget
    <2>3. CASE todo' # {}
      <3>1. BrokeFns(cur) = {} /\ todo' = SurvivorFns(cur) /\ SurvivorFns(cur) # {}
        BY <2>1, <2>3 DEF OppositeTargets
      <3>2. AnyGutted(cur)
        BY <3>1 DEF SurvivorFns, AnyGutted, Runs
      <3>3. probes < MaxProbes + K
        BY <2>1, <3>1, <3>2 DEF PlainBudget
      <3>4. Cardinality(todo') \in Nat /\ Cardinality(todo') <= K
        BY <1>b, <3>1, Few
      <3> QED
        BY <1>a, <2>1, <3>3, <3>4 DEF PlainBudget
    <2> QED
      BY <2>2, <2>3
  <1>10. CASE GutOpposite
    <2>1. pc = "opposite" /\ pc' = "opposite"
      BY <1>10 DEF GutOpposite
    <2>2. /\ Cardinality(todo) \in Nat /\ Cardinality(todo') = Cardinality(todo) - 1
          /\ probes' \in Nat /\ probes' <= probes + 1
      BY <1>a, <1>10, OppositeCost
    <2>3. Cardinality(todo') \in Nat
      BY <1>a, <1>10, Few DEF GutOpposite
    <2> QED
      BY <1>a, <2>1, <2>2, <2>3 DEF PlainBudget
  <1>11. CASE Fold \/ RecheckLate
    BY <1>11, PlainQuiet DEF Fold, RecheckLate, AfterFold
  <1>12. CASE StubOne
    BY <1>12 DEF StubOne, PlainBudget
  <1>13. CASE TimeOut \/ UNCHANGED vars
    BY <1>13 DEF TimeOut, vars, PlainBudget, RelFns, BrokeFns, AnyGutted
  <1> QED
    BY <1>1, <1>2, <1>3, <1>4, <1>5, <1>6, <1>7, <1>8, <1>9, <1>10, <1>11, <1>12, <1>13
       DEF Next, Engine, Probe, Drain, FoldBlock

(***************************************************************************)
(* The cap with --deep, where every block put off to pass 2 may still pay  *)
(* for its opposites and stubs, up to 2 K runs, after the cap is reached.  *)
(* Allowance is what the blocks that are behind the engine may have spent. *)
(***************************************************************************)
Waiting == Cardinality(deferred)

Behind ==
  IF pass = 1 THEN IF pc \in {"block", "gates"} THEN cur - 1 - Waiting ELSE 0
  ELSE IF pc \in {"drain", "done"} THEN N - Waiting ELSE N - Waiting - 1

Allowance(n) == 2 * K * n

Excess == IF pc = "opposite" THEN K ELSE IF pc = "stub" THEN 2 * K ELSE 0

Due ==
  (IF pc \in {"value", "relInline", "opposite", "stub"} THEN Cardinality(todo) ELSE 0)
    + (IF pc = "value" THEN Cardinality(RelFns(cur)) ELSE 0)

DeepBudget ==
  /\ pass = 1 => Waiting <= cur - 1
  /\ Behind \in Nat
  /\ probes + Due < MaxProbes + K + Allowance(Behind) + Excess

LEMMA AllowanceStep ==
  ASSUME NEW n \in Nat
  PROVE  Allowance(n) \in Nat /\ Allowance(n + 1) = Allowance(n) + 2 * K
  BY SizeAssumption DEF Allowance

LEMMA AllowanceGrows ==
  ASSUME NEW m \in Nat, NEW n \in Nat, m <= n
  PROVE  Allowance(m) <= Allowance(n)
  <1>1. n - m \in Nat /\ n = m + (n - m)
    OBVIOUS
  <1>2. Allowance(n) = Allowance(m) + 2 * K * (n - m)
    BY <1>1, SizeAssumption DEF Allowance
  <1>3. 2 * K * (n - m) \in Nat /\ Allowance(m) \in Nat
    BY <1>1, SizeAssumption DEF Allowance
  <1> QED
    BY <1>2, <1>3

\* Blocks that wait are behind the engine in pass 1, and other than its block in pass 2.
LEMMA WaitingBlocks ==
  ASSUME TypeOK
  PROVE  IsFiniteSet(deferred) /\ Waiting \in Nat /\ Waiting <= N
  <1>1. IsFiniteSet(Blocks) /\ Cardinality(Blocks) = N
    BY SizeAssumption, FS_Interval DEF Blocks
  <1>2. deferred \in SUBSET Blocks
    BY DEF TypeOK
  <1> QED
    BY <1>1, <1>2, FS_Subset, FS_CardinalityType DEF Waiting

LEMMA DeepInit == Init => DeepBudget
  <1> SUFFICES ASSUME Init PROVE DeepBudget
    OBVIOUS
  <1>1. Waiting = 0 /\ Behind = 0 /\ Due = 0 /\ Excess = 0 /\ probes = 0 /\ cur = 1
    BY NoneLeft DEF Init, Waiting, Behind, Due, Excess
  <1>2. Allowance(0) = 0
    BY SizeAssumption DEF Allowance
  <1> QED
    BY <1>1, <1>2, SizeAssumption, BudgetAssumption DEF DeepBudget

\* A step that runs nothing, leaves no loop to run and may move past a block.
LEMMA DeepQuiet ==
  ASSUME TypeOK, DeepBudget, probes' = probes, Due' = 0, Excess = 0, Excess' = 0, Due \in Nat,
         Behind' \in Nat, Behind' >= Behind, pass' = 1 => Waiting' <= cur' - 1
  PROVE  DeepBudget'
  <1>1. Allowance(Behind) \in Nat /\ Allowance(Behind') \in Nat
        /\ Allowance(Behind) <= Allowance(Behind')
    BY AllowanceStep, AllowanceGrows DEF DeepBudget
  <1> QED
    BY <1>1, SizeAssumption, BudgetAssumption DEF DeepBudget, TypeOK

\* A run of the current loop.
LEMMA DeepRun ==
  ASSUME TypeOK, DeepBudget, UNCHANGED <<pc, pass, cur, deferred, kind>>,
         pc \in {"value", "relInline", "opposite", "stub"},
         Cardinality(todo) \in Nat, Cardinality(todo') = Cardinality(todo) - 1,
         probes' \in Nat, probes' <= probes + 1
  PROVE  DeepBudget'
  <1>1. Waiting' = Waiting /\ Behind' = Behind /\ Excess' = Excess
    BY DEF Waiting, Behind, Excess
  <1>2. RelFns(cur)' = RelFns(cur) /\ Cardinality(RelFns(cur)) \in Nat
    BY Few DEF RelFns
  <1>3. Due \in Nat /\ Due' = Due - 1
    BY <1>2 DEF Due
  <1>4. Allowance(Behind) \in Nat /\ Excess \in Nat /\ probes \in Nat
    BY AllowanceStep, SizeAssumption DEF DeepBudget, Excess, TypeOK
  <1>5. probes' + Due' <= probes + Due
    <2>1. PICK d, next : d = Due /\ next = Due'
      OBVIOUS
    <2>2. d \in Int /\ next \in Int /\ next = d - 1
      BY <1>3, <2>1
    <2>3. PICK p, q : p = probes /\ q = probes'
      OBVIOUS
    <2>4. p \in Int /\ q \in Int /\ q <= p + 1
      BY <1>4, <2>3
    <2>5. q + next <= p + d
      BY <2>2, <2>4
    <2>6. probes' + next <= probes + d
      BY <2>3, <2>5
    <2> QED
      BY <2>1, <2>6
  <1>6. probes' + Due' < MaxProbes + K + Allowance(Behind) + Excess
    BY <1>3, <1>4, <1>5, SizeAssumption, BudgetAssumption DEF DeepBudget
  <1> QED
    BY <1>1, <1>6 DEF DeepBudget

\* The next loop of a block: it starts with at most K runs to make, which the excess
\* of its point allows for.
LEMMA DeepEnter ==
  ASSUME TypeOK, DeepBudget, UNCHANGED <<pass, cur, deferred, probes>>, Due \in Nat,
         pc \notin {"block", "gates", "drain", "done", "stub"},
         pc' \in {"fold", "opposite", "stub"},
         Due' \in Nat, Due' + Excess <= Excess' + Due
  PROVE  DeepBudget'
  <1>1. Waiting' = Waiting /\ Behind' = Behind
    BY DEF Waiting, Behind
  <1>2. /\ Allowance(Behind) \in Nat /\ Excess \in Nat /\ Excess' \in Nat /\ probes \in Nat
    BY AllowanceStep, SizeAssumption DEF DeepBudget, Excess, TypeOK
  <1>3. probes + Due' < MaxProbes + K + Allowance(Behind) + Excess'
    <2>1. PICK d, next, x, more, a : /\ d = Due /\ next = Due' /\ x = Excess /\ more = Excess'
                                     /\ a = Allowance(Behind)
      OBVIOUS
    <2>2. /\ d \in Nat /\ next \in Nat /\ x \in Nat /\ more \in Nat /\ a \in Nat
          /\ next + x <= more + d /\ probes + d < MaxProbes + K + a + x
      BY <1>2, <2>1 DEF DeepBudget
    <2>3. probes + next < MaxProbes + K + a + more
      BY <1>2, <2>2, SizeAssumption, BudgetAssumption
    <2> QED
      BY <2>1, <2>3
  <1> QED
    BY <1>1, <1>3 DEF DeepBudget

\* Leaving a block after its stubs, or after its fold when there are none.
LEMMA DeepLeave ==
  ASSUME TypeOK, Passes, DeepBudget, UNCHANGED <<pass, deferred, probes>>,
         pc \in {"opposite", "stub"}, Due \in Nat,
         pc' = (IF pass = 1 THEN "block" ELSE "drain"),
         cur' = (IF pass = 1 THEN cur + 1 ELSE cur)
  PROVE  DeepBudget'
  <1>1. Waiting \in Nat /\ Waiting' = Waiting /\ cur \in Nat /\ pass \in {1, 2}
    BY WaitingBlocks DEF Waiting, TypeOK
  <1>2. Behind' \in Nat /\ Behind + 1 <= Behind'
    BY <1>1, SizeAssumption DEF Behind, DeepBudget
  <1>3. /\ Allowance(Behind) \in Nat /\ Allowance(Behind + 1) = Allowance(Behind) + 2 * K
        /\ Allowance(Behind') \in Nat /\ Behind \in Nat
    BY <1>2, AllowanceStep DEF DeepBudget
  <1>4. Behind + 1 \in Nat /\ Allowance(Behind + 1) <= Allowance(Behind')
    BY <1>2, <1>3, AllowanceGrows
  <1>5. Due' = 0 /\ Excess' = 0 /\ Excess \in Nat /\ Excess <= 2 * K /\ probes \in Nat
    BY SizeAssumption DEF Due, Excess, TypeOK
  <1>6. probes < MaxProbes + K + Allowance(Behind) + Excess
    BY <1>3, <1>5, SizeAssumption, BudgetAssumption DEF DeepBudget
  <1>7. probes < MaxProbes + K + Allowance(Behind')
    BY <1>3, <1>4, <1>5, <1>6, SizeAssumption, BudgetAssumption
  <1>8. pass' = 1 => Waiting' <= cur' - 1
    BY <1>1 DEF DeepBudget
  <1>9. probes' + Due' < MaxProbes + K + Allowance(Behind') + Excess'
    <2>1. PICK next, more, a : next = Due' /\ more = Excess' /\ a = Allowance(Behind')
      OBVIOUS
    <2>2. next = 0 /\ more = 0 /\ a \in Nat /\ probes < MaxProbes + K + a
      BY <1>3, <1>5, <1>7, <2>1
    <2>3. probes' + next < MaxProbes + K + a + more
      BY <1>5, <2>2, SizeAssumption, BudgetAssumption
    <2> QED
      BY <2>1, <2>3
  <1>10. Allowance(Behind)' = Allowance(Behind')
    BY DEF Allowance
  <1> QED
    BY <1>2, <1>8, <1>9, <1>10 DEF DeepBudget

LEMMA DeepGates == ASSUME OrderInv, DeepBudget, Gates \/ BaselineBad PROVE DeepBudget'
  <1>1. TypeOK /\ pass = 1 /\ pc \in {"block", "gates"} /\ cur \in Nat
    BY DEF OrderInv, IInv, Passes, TypeOK, Gates, RunnerMismatch, UnsupportedSourceSet, CapUnanalysed,
       NotProbeable, Analyse, Cap, AbortOnEnv, AmbiguousTitle, BaselineBad, AtBlock
  <1>2. /\ pc' \in {"block", "gates"} /\ cur' \in {cur, cur + 1}
        /\ UNCHANGED <<pass, deferred, probes>>
    BY DEF Gates, RunnerMismatch, UnsupportedSourceSet, CapUnanalysed, NotProbeable, Analyse, Cap,
       AbortOnEnv, AmbiguousTitle, BaselineBad, Dismiss, NextBlock
  <1>3. Due = 0 /\ Due' = 0 /\ Excess = 0 /\ Excess' = 0
    BY <1>1, <1>2 DEF Due, Excess
  <1>4. Waiting \in Nat /\ Waiting' = Waiting /\ Waiting <= cur - 1
    BY <1>1, <1>2, WaitingBlocks DEF Waiting, DeepBudget
  <1>5. Behind = cur - 1 - Waiting /\ Behind' = cur' - 1 - Waiting
    BY <1>1, <1>2, <1>4 DEF Behind
  <1>6. Behind' \in Nat /\ Behind' >= Behind /\ Waiting' <= cur' - 1
    <2>1. PICK w, c, next : w = Waiting /\ c = cur /\ next = cur'
      OBVIOUS
    <2>2. w \in Nat /\ c \in Nat /\ next \in {c, c + 1} /\ w <= c - 1
      BY <1>1, <1>2, <1>4, <2>1
    <2>3. next - 1 - w \in Nat /\ next - 1 - w >= c - 1 - w /\ w <= next - 1
      BY <2>2
    <2> QED
      BY <1>4, <1>5, <2>1, <2>3
  <1> QED
    BY <1>1, <1>2, <1>3, <1>6, DeepQuiet

LEMMA DeepBaseline == ASSUME OrderInv, DeepBudget, BaselineGreen PROVE DeepBudget'
  <1>1. /\ TypeOK /\ pass = 1 /\ pc' = "value" /\ todo' = ValueFns(cur) /\ RelFns(cur)' = RelFns(cur)
        /\ UNCHANGED <<pass, cur, deferred, probes>> /\ probes \in Nat /\ probes < MaxProbes
    BY BudgetAssumption DEF OrderInv, IInv, Passes, BaselineGreen, BudgetSpent, RelFns, evidenceVars,
       TypeOK
  <1>2. /\ ValueFns(cur) \subseteq Entries /\ RelFns(cur) \subseteq Entries
    BY DEF ValueFns, RelFns
  <1>3. PICK v, r : v = Cardinality(ValueFns(cur)) /\ r = Cardinality(RelFns(cur))
    OBVIOUS
  <1>4. v \in Nat /\ r \in Nat /\ v + r <= K
    BY <1>2, <1>3, Few, TwoKinds
  <1>5. Due' = v + r /\ Excess' = 0 /\ Behind' = 0 /\ Waiting' = Waiting
    BY <1>1, <1>3 DEF Due, Excess, Behind, Waiting
  <1>6. Allowance(0) = 0
    BY SizeAssumption DEF Allowance
  <1>7. probes' + Due' < MaxProbes + K + Allowance(Behind)' + Excess'
    <2>1. Allowance(Behind)' = 0
      BY <1>5, SizeAssumption DEF Allowance
    <2>2. probes + (v + r) < MaxProbes + K + 0 + 0
      BY <1>1, <1>4, SizeAssumption, BudgetAssumption
    <2> QED
      BY <1>1, <1>5, <2>1, <2>2
  <1> QED
    BY <1>1, <1>5, <1>7 DEF DeepBudget

\* After the value functions: the relational ones inline, the fold, or pass 2.
LEMMA DeepValue == ASSUME OrderInv, DeepBudget, AfterValue PROVE DeepBudget'
  <1>1. /\ TypeOK /\ pass = 1 /\ pc = "value" /\ todo = {} /\ cur \in Blocks /\ cur \in Nat
        /\ UNCHANGED <<pass, probes, kind>> /\ probes \in Nat
    BY DEF OrderInv, IInv, Passes, AfterValue, evidenceVars, TypeOK, Blocks
  <1>2. PICK r : r = Cardinality(RelFns(cur))
    OBVIOUS
  <1>3. r \in Nat
    BY <1>2, Few DEF RelFns
  <1>4. Due = r /\ Excess = 0 /\ Behind = 0
    BY <1>1, <1>2, <1>3, NoneLeft DEF Due, Excess, Behind
  <1>5. Allowance(0) = 0
    BY SizeAssumption DEF Allowance
  <1>6. probes + r < MaxProbes + K
    <2>1. probes + r < MaxProbes + K + 0 + 0
      BY <1>4, <1>5 DEF DeepBudget
    <2> QED
      BY <2>1, <1>1, <1>3, SizeAssumption, BudgetAssumption
  <1>7. Waiting \in Nat /\ Waiting <= cur - 1 /\ IsFiniteSet(deferred)
    BY <1>1, WaitingBlocks DEF DeepBudget
  <1>8. CASE pc' \in {"fold", "relInline"} /\ UNCHANGED <<cur, deferred>>
                /\ (pc' = "relInline" => todo' = RelFns(cur))
    <2>1. Excess' = 0 /\ Behind' = 0 /\ Waiting' = Waiting
      BY <1>1, <1>8 DEF Excess, Behind, Waiting
    <2>2. CASE pc' = "fold"
      <3>1. Due' = 0
        BY <2>2 DEF Due
      <3> QED
        BY <1>1, <1>3, <1>6, <1>7, <1>8, <2>1, <3>1, SizeAssumption, BudgetAssumption
           DEF DeepBudget, Allowance
    <2>3. CASE pc' = "relInline"
      <3>1. Due' = r
        BY <1>2, <1>3, <1>8, <2>3 DEF Due
      <3> QED
        BY <1>1, <1>3, <1>6, <1>7, <1>8, <2>1, <3>1, SizeAssumption, BudgetAssumption
           DEF DeepBudget, Allowance
    <2> QED
      BY <1>8, <2>2, <2>3
  <1>9. CASE pc' = "block" /\ deferred' = deferred \cup {cur} /\ cur' = cur + 1
    <2>1. cur \notin deferred
      BY <1>1 DEF OrderInv, IInv, Open, Working
    <2>2. Waiting' = Waiting + 1
      BY <1>7, <1>9, <2>1, FS_AddElement DEF Waiting
    <2>3. Due' = 0 /\ Excess' = 0 /\ Behind' = cur - Waiting - 1
      BY <1>1, <1>7, <1>9, <2>2 DEF Due, Excess, Behind
    <2>4. PICK n \in Nat : n = Behind'
      BY <1>1, <1>7, <2>3
    <2>5. Allowance(n) \in Nat /\ Allowance(Behind)' = Allowance(n)
      BY <2>4, AllowanceStep DEF Allowance
    <2>6. probes < MaxProbes + K + Allowance(n)
      BY <1>1, <1>3, <1>6, <2>5, SizeAssumption, BudgetAssumption
    <2>7. probes' + Due' < MaxProbes + K + Allowance(Behind)' + Excess'
      BY <1>1, <2>3, <2>5, <2>6, SizeAssumption, BudgetAssumption
    <2> QED
      BY <1>1, <1>7, <1>9, <2>2, <2>4, <2>7 DEF DeepBudget
  <1> QED
    BY <1>8, <1>9 DEF AfterValue, NextBlock, Queued

\* The loop of pass 2 runs below the cap.
LEMMA DeepLate == ASSUME OrderInv, DeepBudget, GutRelLate PROVE DeepBudget'
  <1>1. PICK e \in todo : Gut(e)
    BY DEF GutRelLate, First
  <1>2. /\ TypeOK /\ pc = "relLate" /\ pass = 2 /\ probes \in Nat /\ probes < MaxProbes
        /\ UNCHANGED <<pc, pass, cur, deferred>>
    BY <1>1, BudgetAssumption DEF OrderInv, IInv, Passes, GutRelLate, BudgetSpent, Gut, TypeOK
  <1>3. probes' \in Nat /\ probes' <= probes + 1 /\ K >= 1
    BY <1>1, <1>2, GutCost
  <1>4. Due' = 0 /\ Excess' = 0 /\ Behind' = Behind /\ Waiting' = Waiting
    BY <1>2 DEF Due, Excess, Behind, Waiting
  <1>5. PICK a : a = Allowance(Behind) /\ a \in Nat
    BY AllowanceStep DEF DeepBudget
  <1>6. probes' < MaxProbes + K + a
    BY <1>2, <1>3, <1>5, SizeAssumption, BudgetAssumption
  <1>7. Allowance(Behind)' = a
    BY <1>4, <1>5 DEF Allowance
  <1>8. probes' + Due' < MaxProbes + K + Allowance(Behind)' + Excess'
    BY <1>3, <1>4, <1>5, <1>6, <1>7, SizeAssumption, BudgetAssumption
  <1> QED
    BY <1>2, <1>4, <1>8 DEF DeepBudget

LEMMA DeepTake == ASSUME OrderInv, DeepBudget, TakeDeferred PROVE DeepBudget'
  <1>1. PICK b \in deferred : /\ cur' = b /\ deferred' = deferred \ {b} /\ pc' = "relLate"
                              /\ pc = "drain" /\ UNCHANGED <<pass, probes>>
    BY DEF TakeDeferred, First, Dequeued
  <1>2. TypeOK /\ pass = 2
    BY <1>1 DEF OrderInv, IInv, Passes
  <1>3. IsFiniteSet(deferred) /\ Waiting \in Nat /\ Waiting <= N
    BY <1>2, WaitingBlocks
  <1>4. Waiting' = Waiting - 1
    BY <1>1, <1>3, FS_RemoveElement DEF Waiting
  <1>5. Behind = N - Waiting /\ Behind' = N - (Waiting - 1) - 1
    BY <1>1, <1>2, <1>4 DEF Behind
  <1>6. Behind' = Behind
    BY <1>3, <1>5, SizeAssumption
  <1>7. Due = 0 /\ Due' = 0 /\ Excess = 0 /\ Excess' = 0
    BY <1>1 DEF Due, Excess
  <1>8. Behind' \in Nat /\ Behind' >= Behind
    BY <1>6 DEF DeepBudget
  <1> QED
    BY <1>1, <1>2, <1>7, <1>8, DeepQuiet

\* The end of pass 1, the end of the run, and a block of pass 2 that is capped or
\* goes on to its fold.
LEMMA DeepMove ==
  ASSUME OrderInv, DeepBudget, StartPass2 \/ Finish \/ AfterRelLate \/ Starve \/ AfterRelInline
  PROVE  DeepBudget'
  <1>1. TypeOK /\ UNCHANGED <<cur, deferred, probes>> /\ Waiting' = Waiting
    BY DEF OrderInv, IInv, StartPass2, Finish, AfterRelLate, Starve, AfterRelInline, Waiting
  <1>2. Waiting \in Nat /\ Waiting <= N /\ N \in Nat
    BY <1>1, WaitingBlocks, SizeAssumption
  <1>3. CASE StartPass2
    <2>1. /\ pass = 1 /\ pc = "block" /\ pass' = 2 /\ pc' = "drain" /\ cur = N + 1
      BY <1>1, <1>3, SizeAssumption DEF StartPass2, TypeOK, Blocks
    <2>2. Behind = cur - 1 - Waiting
      BY <2>1 DEF Behind
    <2>3. Behind' = N - Waiting'
      BY <2>1 DEF Behind
    <2>4. PICK w, b, d, c : w = Waiting /\ b = Behind /\ d = Behind' /\ c = cur
      OBVIOUS
    <2>5. b = c - 1 - w /\ c = N + 1
      BY <2>1, <2>2, <2>4
    <2>6. d = N - w
      BY <1>1, <2>3, <2>4
    <2>7. b = d
      BY <1>2, <2>4, <2>5, <2>6
    <2>8. Behind' \in Nat /\ Behind' >= Behind
      BY <2>4, <2>7 DEF DeepBudget
    <2>9. Due = 0 /\ Due' = 0 /\ Excess = 0 /\ Excess' = 0
      BY <2>1 DEF Due, Excess
    <2> QED
      BY <1>1, <2>1, <2>8, <2>9, DeepQuiet
  <1>4. CASE Finish
    <2>1. pc = "drain" /\ pc' = "done" /\ pass' = pass /\ pass = 2
      BY <1>4 DEF Finish, OrderInv, IInv, Passes
    <2>2. Behind' = Behind /\ Due = 0 /\ Due' = 0 /\ Excess = 0 /\ Excess' = 0
      BY <1>1, <2>1 DEF Behind, Due, Excess
    <2>3. Behind' \in Nat /\ Behind' >= Behind
      BY <2>2 DEF DeepBudget
    <2> QED
      BY <1>1, <2>1, <2>2, <2>3, DeepQuiet
  <1>5. CASE AfterRelLate \/ Starve
    <2>1. pc = "relLate" /\ pc' \in {"fold", "drain"} /\ pass' = pass /\ pass = 2
      BY <1>5 DEF AfterRelLate, Starve, OrderInv, IInv, Passes
    <2>2. Behind = N - Waiting - 1 /\ Behind' \in {N - Waiting, N - Waiting - 1}
      BY <1>1, <2>1 DEF Behind
    <2>3. Due = 0 /\ Due' = 0 /\ Excess = 0 /\ Excess' = 0
      BY <2>1 DEF Due, Excess
    <2>4. Behind \in Nat
      BY DEF DeepBudget
    <2>5. Behind' \in Nat /\ Behind' >= Behind
      BY <1>2, <2>2, <2>4
    <2> QED
      BY <1>1, <2>1, <2>3, <2>5, DeepQuiet
  <1>6. CASE AfterRelInline
    <2>1. pc = "relInline" /\ pc' = "fold" /\ pass' = pass /\ todo = {}
      BY <1>6 DEF AfterRelInline
    <2>2. Behind' = Behind
      BY <1>1, <2>1 DEF Behind
    <2>3. Due = 0 /\ Due' = 0 /\ Excess = 0 /\ Excess' = 0
      BY <2>1, NoneLeft DEF Due, Excess
    <2>4. Behind' \in Nat /\ Behind' >= Behind
      BY <2>2 DEF DeepBudget
    <2>5. pass' = 1 => Waiting' <= cur' - 1
      BY <1>1, <2>1 DEF DeepBudget
    <2> QED
      BY <1>1, <2>1, <2>3, <2>4, <2>5, DeepQuiet
  <1> QED
    BY <1>3, <1>4, <1>5, <1>6

LEMMA DeepFold == ASSUME OrderInv, DeepBudget, FoldBlock PROVE DeepBudget'
  <1>a. TypeOK /\ Passes
    BY DEF OrderInv, IInv
  <1>b. /\ OppositeTargets(cur) \subseteq Entries /\ BrokeFns(cur) \subseteq Entries
    BY DEF OppositeTargets, BrokeFns, SurvivorFns
  <1>1. CASE FlakeFirst \/ NoFlakeCheck
    <2>1. /\ pc = "fold" /\ pc' = "opposite" /\ UNCHANGED <<pass, cur, deferred, probes>>
          /\ todo' \subseteq Entries
      BY <1>1, <1>b DEF FlakeFirst, NoFlakeCheck
    <2>2. Cardinality(todo') \in Nat /\ Cardinality(todo') <= K
      BY <2>1, Few
    <2>3. Due = 0 /\ Due' = Cardinality(todo') /\ Excess = 0 /\ Excess' = K
      BY <2>1, <2>2 DEF Due, Excess
    <2>4. Due \in Nat /\ Due' \in Nat /\ Due' + Excess <= Excess' + Due
      BY <2>2, <2>3, SizeAssumption
    <2> QED
      BY <1>a, <2>1, <2>4, DeepEnter
  <1>2. CASE GutOpposite \/ StubOne
    <2>1. UNCHANGED <<pc, pass, cur, deferred, kind>> /\ pc \in {"opposite", "stub"}
      BY <1>2 DEF GutOpposite, StubOne, evidenceVars
    <2> QED
      BY <1>2, <1>a, <2>1, OppositeCost, DeepRun
  <1>3. CASE Fold \/ RecheckLate
    <2>1. pc = "opposite" /\ todo = {} /\ UNCHANGED <<pass, deferred, probes>> /\ AfterFold
      BY <1>3 DEF Fold, RecheckLate
    <2>2. Due = 0 /\ Excess = K
      BY <2>1, NoneLeft DEF Due, Excess
    <2>3. CASE Deep
      <3>1. pc' = "stub" /\ cur' = cur /\ todo' \subseteq Entries
        BY <2>1, <2>3, <1>b DEF AfterFold
      <3>2. Cardinality(todo') \in Nat /\ Cardinality(todo') <= K
        BY <3>1, Few
      <3>3. Due' = Cardinality(todo') /\ Excess' = 2 * K
        BY <3>1, <3>2 DEF Due, Excess
      <3>4. Due \in Nat /\ Due' \in Nat /\ Due' + Excess <= Excess' + Due
        BY <2>2, <3>2, <3>3, SizeAssumption
      <3> QED
        BY <1>a, <2>1, <3>1, <3>4, DeepEnter
    <2>4. CASE ~Deep
      BY <1>a, <2>1, <2>2, <2>4, DeepLeave DEF AfterFold
    <2> QED
      BY <2>3, <2>4
  <1>4. CASE AfterStub
    <2>1. pc = "stub" /\ todo = {} /\ UNCHANGED <<pass, deferred, probes>>
      BY <1>4 DEF AfterStub
    <2>2. Due = 0
      BY <2>1, NoneLeft DEF Due
    <2> QED
      BY <1>a, <1>4, <2>1, <2>2, DeepLeave DEF AfterStub
  <1> QED
    BY <1>1, <1>2, <1>3, <1>4 DEF FoldBlock

LEMMA DeepNext == ASSUME OrderInv, DeepBudget, [Next]_vars PROVE DeepBudget'
  <1>1. CASE Gates \/ BaselineBad
    BY <1>1, DeepGates
  <1>2. CASE BaselineGreen
    BY <1>2, DeepBaseline
  <1>3. CASE GutValue \/ GutRelInline
    <2>1. PICK e \in todo : Gut(e) /\ pc \in {"value", "relInline"}
      BY <1>3 DEF GutValue, GutRelInline, First
    <2>2. TypeOK /\ UNCHANGED <<pc, pass, cur, deferred, kind>>
      BY <2>1 DEF Gut, OrderInv, IInv
    <2>3. /\ Cardinality(todo) \in Nat /\ Cardinality(todo') = Cardinality(todo) - 1
          /\ probes' \in Nat /\ probes' <= probes + 1
      BY <2>1, <2>2, GutCost
    <2> QED
      BY <2>1, <2>2, <2>3, DeepRun
  <1>4. CASE AfterValue
    BY <1>4, DeepValue
  <1>5. CASE GutRelLate
    BY <1>5, DeepLate
  <1>6. CASE TakeDeferred
    BY <1>6, DeepTake
  <1>7. CASE StartPass2 \/ Finish \/ AfterRelLate \/ Starve \/ AfterRelInline
    BY <1>7, DeepMove
  <1>8. CASE FoldBlock
    BY <1>8, DeepFold
  <1>9. CASE TimeOut \/ UNCHANGED vars
    <2>1. UNCHANGED <<pc, pass, cur, todo, deferred, kind, probes>>
      BY <1>9 DEF TimeOut, vars, evidenceVars
    <2> QED
      BY <2>1 DEF DeepBudget, Behind, Waiting, Due, Excess, RelFns, Allowance
  <1> QED
    BY <1>1, <1>2, <1>3, <1>4, <1>5, <1>6, <1>7, <1>8, <1>9 DEF Next, Engine, Probe, Drain

\* Nobody is behind the engine but the blocks there are.
LEMMA DeepBound == OrderInv /\ DeepBudget => probes < MaxProbes + (2 * N + 1) * K
  <1> SUFFICES ASSUME OrderInv, DeepBudget PROVE probes < MaxProbes + (2 * N + 1) * K
    OBVIOUS
  <1>1. /\ TypeOK /\ Waiting \in Nat /\ Waiting <= N /\ Behind \in Nat /\ N \in Nat /\ K \in Nat
        /\ probes \in Nat
    BY WaitingBlocks, SizeAssumption DEF OrderInv, IInv, DeepBudget, TypeOK
  <1>2. PICK a : a = Allowance(Behind) /\ a \in Nat
    BY AllowanceStep, <1>1
  <1>3. Allowance(N) = 2 * K * N /\ Allowance(N) \in Nat
    BY <1>1, AllowanceStep DEF Allowance
  <1>4. MaxProbes + (2 * N + 1) * K = MaxProbes + K + Allowance(N)
    BY <1>1, <1>3, BudgetAssumption
  <1>5. Due \in Nat
    <2>1. todo \subseteq Entries /\ RelFns(cur) \subseteq Entries
      BY <1>1 DEF TypeOK, RelFns
    <2>2. PICK t, r : t = Cardinality(todo) /\ r = Cardinality(RelFns(cur))
      OBVIOUS
    <2>3. t \in Nat /\ r \in Nat
      BY <2>1, <2>2, Few
    <2> QED
      BY <2>2, <2>3 DEF Due
  <1>6. CASE pc \in {"opposite", "stub"}
    <2>1. Behind + 1 <= N
      <3>1. cur \in Blocks /\ N >= 1
        BY <1>1, <1>6 DEF TypeOK, Blocks
      <3>2. CASE pass = 1
        BY <1>6, <3>1, <3>2 DEF Behind
      <3>3. CASE pass = 2
        <4>1. Behind = N - Waiting - 1
          BY <1>6, <3>3 DEF Behind
        <4> QED
          BY <1>1, <4>1
      <3> QED
        BY <1>1, <3>2, <3>3 DEF TypeOK
    <2>2. Allowance(Behind + 1) = a + 2 * K /\ Allowance(Behind + 1) <= Allowance(N)
      BY <1>1, <1>2, <2>1, AllowanceStep, AllowanceGrows
    <2>3. PICK d, x, n : d = Due /\ x = Excess /\ n = Allowance(N)
      OBVIOUS
    <2>4. d \in Nat /\ x \in Nat /\ x <= 2 * K /\ n \in Nat /\ a + 2 * K <= n
          /\ probes + d < MaxProbes + K + a + x
      BY <1>1, <1>2, <1>3, <1>5, <1>6, <2>2, <2>3 DEF Excess, DeepBudget
    <2>5. probes < MaxProbes + K + n
      BY <1>1, <1>2, <2>4, BudgetAssumption
    <2> QED
      BY <1>4, <2>3, <2>5
  <1>7. CASE pc \notin {"opposite", "stub"}
    <2>1. Behind <= N
      <3>1. cur \in 1 .. N + 1 /\ pass \in {1, 2}
        BY <1>1 DEF TypeOK
      <3>2. Behind \in {0, cur - 1 - Waiting, N - Waiting, N - Waiting - 1}
        BY <3>1 DEF Behind
      <3> QED
        BY <1>1, <3>1, <3>2
    <2>2. a <= Allowance(N)
      BY <1>1, <1>2, <2>1, AllowanceGrows
    <2>3. PICK d, n : d = Due /\ n = Allowance(N)
      OBVIOUS
    <2>4. d \in Nat /\ n \in Nat /\ a <= n /\ probes + d < MaxProbes + K + a + 0
      BY <1>2, <1>3, <1>5, <1>7, <2>2, <2>3 DEF Excess, DeepBudget
    <2>5. probes < MaxProbes + K + n
      BY <1>1, <1>2, <2>4, BudgetAssumption
    <2> QED
      BY <1>4, <2>3, <2>5
  <1> QED
    BY <1>6, <1>7

\* However the two passes and the queue divide the work, a run passes its probe cap
\* by less than two functions' worth of one block, with --deep of every block.
THEOREM BudgetTheorem == Spec => []BudgetBound
  <1>1. Spec => []DeepBudget
    BY DeepInit, DeepNext, OrderInvariant, PTL DEF Spec
  <1>2. ~Deep => (Spec => []PlainBudget)
    <2> SUFFICES ASSUME ~Deep PROVE Spec => []PlainBudget
      OBVIOUS
    <2>1. OrderInv /\ PlainBudget /\ [Next]_vars => PlainBudget'
      BY PlainNext
    <2> QED
      BY <2>1, PlainInit, OrderInvariant, PTL DEF Spec
  <1>3. CASE Deep
    <2>1. OrderInv /\ DeepBudget => BudgetBound
      BY <1>3, DeepBound DEF BudgetBound
    <2> QED
      BY <1>1, <2>1, OrderInvariant, PTL
  <1>4. CASE ~Deep
    <2>1. PlainBudget => BudgetBound
      BY <1>4 DEF PlainBudget, BudgetBound
    <2>2. Spec => []PlainBudget
      BY <1>2, <1>4
    <2> QED
      BY <2>1, <2>2, PTL
  <1> QED
    BY <1>3, <1>4
=============================================================================
