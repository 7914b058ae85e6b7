------------------------------ MODULE Changes ------------------------------
(***************************************************************************)
(* What a diff-scoped run says of every changed function.  prove() leaves  *)
(* one record for each test block it meets, whatever became of the block:  *)
(* cut off, dismissed, not run, or folded into a verdict.  When the run is *)
(* over, classifyChanges weighs all the records against each changed       *)
(* function, (fn, file) by (fn, file), and gives it one status: a positive *)
(* claim only from the function's own mutants, "untested" only when no     *)
(* record refers to it.                                                    *)
(*                                                                         *)
(* How a mutant fares and which blocks a budget reaches is ProbeEngine's   *)
(* matter; here a block's fate is free, and it is the record it leaves and *)
(* the weighing of the records that are modelled.                          *)
(***************************************************************************)
EXTENDS Naturals, Sequences, FiniteSets

CONSTANTS
  Decls,         \* functions of the source, each one (name, file)
  NameOf,        \* their bare names, which may coincide
  Changed,       \* the functions the diff touches
  InChangedFile, \* the functions declared in a file of the diff
  MaxRecords     \* test blocks met, a bound of the model

ASSUME ChangesAssumption ==
  /\ Changed \subseteq InChangedFile /\ InChangedFile \subseteq Decls
  /\ MaxRecords \in Nat

NamesOf(ds) == {NameOf[d] : d \in ds}
Names == NamesOf(Changed)

\* A test block as parsing and resolution leave it.  targets are its eligible
\* functions, found by their names in its body, no two of one name: a block that
\* imports two functions of one name keeps one file for both (sutOf), which is
\* StaleBuild's matter.  file is the text of the whole test file.  A shadow, on the JVM alone, asserts a copy of the logic
\* against itself without contact with production code; its title names shadows.
Blocks ==
  {b \in [body : SUBSET Names, file : SUBSET Names, targets : SUBSET Decls,
          shadows : SUBSET Changed, dynamicTitle : BOOLEAN] :
     /\ b.body \subseteq b.file
     /\ NamesOf(b.targets) \cap Names \subseteq b.body
     /\ \A d, e \in b.targets : NameOf[d] = NameOf[e] => d = e
     /\ b.shadows # {} => b.targets = {} /\ ~b.dynamicTitle
     /\ ~b.dynamicTitle => b.file = b.body}

ScanWhy == {"no-pin", "pin-unresolved", "sut-unresolved"}
\* A baseline's reason carries its counts: two texts of one kind are two reasons.
BaselineWhy == {"baseline 0p/1f", "baseline 1p/1f", "did-not-run 0p/0f"}
EXECUTION_WHY == BaselineWhy \cup {"ungutable", "flaky baseline", "ambiguous title"}
Whys == ScanWhy \cup EXECUTION_WHY
          \cup {"", "dynamic-title", "probe-cap", "env-abort", "runner-mismatch",
                "instrumented-test", "relation-unbound", "mutant ran 0 tests"}
Verdicts == {"caught", "hollow", "one-sided", "inconclusive", "skipped"}
Fates == {"red", "blind", "oneSided", "unbound", "norun", "void"}

Record(b, verdict, why) ==
  [verdict |-> verdict, why |-> why, body |-> b.body, file |-> {},
   red |-> {}, blind |-> {}, oneSided |-> {}, shadows |-> b.shadows]

VARIABLES
  records,   \* blockRecords, in the order they are pushed
  spent,     \* the time budget is exhausted
  changes,   \* per changed function, its row; none before the run is over
  named,     \* history: names that a test the run looked at refers to
  bound, accused  \* history: functions a fold found bound, and found blind

history == <<named, bound, accused>>
vars == <<records, spent, changes, history>>

None == <<>>

Init ==
  /\ records = <<>> /\ spent = FALSE /\ changes = None
  /\ named = {} /\ bound = {} /\ accused = {}

-----------------------------------------------------------------------------
(***************************************************************************)
(* The records of the block loop.                                          *)
(***************************************************************************)
Push(r) ==
  /\ changes = None /\ Len(records) < MaxRecords
  /\ records' = Append(records, r)
  /\ UNCHANGED changes

Mention(b) == named' = named \cup b.body /\ UNCHANGED <<bound, accused>>

\* A test in a language the runner cannot run is recorded before the scope is
\* looked at, and so is no shadow.
RunnerMismatch(b) ==
  /\ Push([Record(b, "skipped", "runner-mismatch") EXCEPT !.shadows = {}])
  /\ Mention(b)
  /\ UNCHANGED spent

\* A JVM test in a source set no task runs; in a file the diff did not touch
\* it leaves no record.
SourceSetGate(b) ==
  /\ ~b.dynamicTitle
  /\ \/ Push([Record(b, "skipped", "instrumented-test") EXCEPT !.shadows = {}])
        /\ Mention(b)
     \/ changes = None /\ UNCHANGED <<records, changes, history>>
  /\ UNCHANGED spent

\* The time budget is looked at before a block is analysed: no shadow, no file.
CutOff(b) ==
  /\ Push([Record(b, "skipped", "probe-cap") EXCEPT !.shadows = {}])
  /\ spent' = TRUE
  /\ Mention(b)

\* Out of the diff's scope, without an eligible function, or with a title no
\* selection can name: dismissed, with the file's text when the title is why.
FileMasked(b) == IF b.dynamicTitle THEN b.file ELSE {}
Why0(b) ==
  IF b.dynamicTitle THEN {"dynamic-title"}
  ELSE IF b.targets # {} THEN {"sut-unresolved"} ELSE ScanWhy

Dismiss(b) ==
  /\ ~spent
  /\ b.dynamicTitle \/ b.targets \cap InChangedFile = {}
  /\ \E why \in Why0(b) :
       Push([Record(b, "skipped", why) EXCEPT !.file = FileMasked(b)])
  /\ named' = named \cup b.body \cup FileMasked(b)
  /\ UNCHANGED <<spent, bound, accused>>

Probeable(b) == b.targets # {} /\ ~b.dynamicTitle

\* A probeable block that is not probed, or not past its baseline.
Capped == {"probe-cap", "env-abort"}
NotRun == Capped \cup BaselineWhy \cup {"ambiguous title"}

Hold(b) ==
  /\ ~spent /\ Probeable(b)
  /\ \E why \in NotRun :
       Push(Record(b, IF why \in Capped THEN "skipped" ELSE "inconclusive", why))
  /\ Mention(b)
  /\ UNCHANGED spent

\* foldBlock: the first verdict the fates of the eligible functions allow.  Its
\* pairs of functions the diff does not touch decide no row and are left out.
\* A block put off to the second pass is folded after the time is up, too.
Of(fate, f) == {d \in DOMAIN fate : fate[d] = f}
Ours(ds) == ds \cap Changed
Verdict(b, fate, flaky, starved) ==
  LET red == Of(fate, "red")
      blind == Of(fate, "blind")
      one == Of(fate, "oneSided")
      with(r) == [r EXCEPT !.oneSided = Ours(one)]
  IN IF red # {} THEN [with(Record(b, "caught", "")) EXCEPT !.red = Ours(red)]
     ELSE IF flaky THEN Record(b, "inconclusive", "flaky baseline")
     ELSE IF starved /\ blind \cup one # {} THEN Record(b, "skipped", "probe-cap")
     ELSE IF blind # {} THEN [with(Record(b, "hollow", "")) EXCEPT !.blind = Ours(blind)]
     ELSE IF one # {} THEN with(Record(b, "one-sided", ""))
     ELSE IF Of(fate, "unbound") # {} THEN Record(b, "skipped", "relation-unbound")
     ELSE IF Of(fate, "norun") # {} THEN Record(b, "inconclusive", "mutant ran 0 tests")
     ELSE Record(b, "skipped", IF Of(fate, "void") # {} THEN "ungutable" ELSE "sut-unresolved")

Fold(b) ==
  /\ Probeable(b)
  /\ \E fate \in UNION {[ds -> Fates] : ds \in SUBSET b.targets}, starved, flaky \in BOOLEAN :
       /\ flaky => \/ Of(fate, "blind") \cup Of(fate, "unbound") # {} /\ Of(fate, "oneSided") = {}
                   \/ Of(fate, "blind") # {} /\ ~starved
       /\ starved => Of(fate, "red") \cup Of(fate, "blind") \cup Of(fate, "oneSided")
                       \cup Of(fate, "unbound") \cup Of(fate, "norun") # {}
       /\ LET r == Verdict(b, fate, flaky, starved)
          IN /\ Push(r)
             /\ bound' = bound \cup Ours(Of(fate, "red"))
             /\ accused' = IF r.verdict = "hollow"
                            THEN accused \cup Ours(Of(fate, "blind")) ELSE accused
  /\ named' = named \cup b.body
  /\ UNCHANGED spent

-----------------------------------------------------------------------------
(***************************************************************************)
(* classifyChanges.                                                        *)
(***************************************************************************)
Indices == 1..Len(records)

\* Mutant: a function some test catches is not called hollow.
HollowUnlessCaught(d) ==
  {i \in Indices : /\ records[i].verdict = "hollow" /\ d \in records[i].blind
                   /\ \A j \in Indices : d \notin records[j].red}
HollowIn(d) == {i \in Indices : records[i].verdict = "hollow" /\ d \in records[i].blind}
\* Mutant: attribution by bare name.
ProvenByName(d) ==
  {i \in Indices : records[i].verdict = "caught" /\ NameOf[d] \in NamesOf(records[i].red)}
ProvenIn(d) == {i \in Indices : records[i].verdict = "caught" /\ d \in records[i].red}
OneSidedIn(d) == {i \in Indices : d \in records[i].oneSided}
ShadowIn(d) == {i \in Indices : d \in records[i].shadows}

\* Mutant: a block with a verdict refers to nothing else.
OnlyUnverdicted(r, d) == r.verdict \in {"skipped", "inconclusive"}
RefEligible(r, d) ==
  \/ r.verdict \in {"skipped", "inconclusive"}
  \/ r.verdict = "caught" /\ d \notin r.red
  \/ r.verdict = "hollow" /\ d \notin r.blind
  \/ r.verdict = "one-sided" /\ d \notin r.oneSided

Refs(d) == {i \in Indices : RefEligible(records[i], d) /\ NameOf[d] \in records[i].body}
DynFileRefs(d) ==
  {i \in Indices : records[i].why = "dynamic-title" /\ NameOf[d] \in records[i].file}

\* The reason of an unverifiable row: the commonest, then one EXECUTION_WHY
\* lists, then the one met first.
\* Mutant: no reason for a one-sided block.
BareWhy(r) == IF r.verdict \in {"caught", "hollow"} THEN "no-pin" ELSE r.why
WhyOf(r) ==
  IF r.verdict \in {"caught", "hollow"} THEN "no-pin"
  ELSE IF r.why = "" THEN "inconclusive" ELSE r.why
Reasons(d) == {WhyOf(records[i]) : i \in Refs(d)}
With(d, w) == {i \in Refs(d) : WhyOf(records[i]) = w}
Count(d, w) == Cardinality(With(d, w))
Earlier(d, w, v) == \E i \in With(d, w) : \A j \in With(d, v) : i < j
TieBreak(d, w, v) ==
  \/ w \in EXECUTION_WHY /\ v \notin EXECUTION_WHY
  \/ /\ w \in EXECUTION_WHY <=> v \in EXECUTION_WHY
     /\ Earlier(d, w, v)
Ahead(d, w, v) ==
  \/ Count(d, w) > Count(d, v)
  \/ Count(d, w) = Count(d, v) /\ TieBreak(d, w, v)
Reason(d) == CHOOSE w \in Reasons(d) : \A v \in Reasons(d) \ {w} : Ahead(d, w, v)

Row(status, reason) == [status |-> status, reason |-> reason]
Classified(d) ==
  IF HollowIn(d) # {} THEN Row("hollow", "")
  ELSE IF ProvenIn(d) # {} THEN Row("proven", "")
  ELSE IF OneSidedIn(d) # {} THEN Row("unverifiable", "one-sided")
  ELSE IF ShadowIn(d) # {} THEN Row("hollow", "wrong-layer-shadow")
  ELSE IF Refs(d) # {} THEN Row("unverifiable", Reason(d))
  ELSE IF DynFileRefs(d) # {} THEN Row("unverifiable", "dynamic-title")
  ELSE Row("untested", "")

ClassifyChanges ==
  /\ changes = None
  /\ changes' = [d \in Changed |-> Classified(d)]
  /\ UNCHANGED <<records, spent, history>>

BlockStep(b) ==
  \/ RunnerMismatch(b) \/ SourceSetGate(b) \/ CutOff(b)
  \/ Dismiss(b) \/ Hold(b) \/ Fold(b)

Next == (\E b \in Blocks : BlockStep(b)) \/ ClassifyChanges

Spec == Init /\ [][Next]_vars

-----------------------------------------------------------------------------
(***************************************************************************)
(* Properties.                                                             *)
(***************************************************************************)
Statuses == {"hollow", "proven", "unverifiable", "untested"}
RecordType ==
  [verdict : Verdicts, why : Whys, body : SUBSET Names, file : SUBSET Names,
   red : SUBSET Changed, blind : SUBSET Changed, oneSided : SUBSET Changed,
   shadows : SUBSET Changed]
Reasoned == Whys \cup {"inconclusive", "one-sided", "wrong-layer-shadow"}

\* The state is well typed: in particular every verdict, reason and row is one
\* the report knows how to word, and an unverifiable row has a reason.
TypeOK ==
  /\ records \in Seq(RecordType) /\ Len(records) <= MaxRecords
  /\ spent \in BOOLEAN
  /\ \/ changes = None
     \/ /\ changes \in [Changed -> [status : Statuses, reason : Reasoned]]
        /\ \A d \in Changed : changes[d].status = "unverifiable" => changes[d].reason # ""
  /\ named \subseteq Names
  /\ bound \subseteq Changed /\ accused \subseteq Changed

Reported(d, status) == changes # None /\ changes[d].status = status

\* A positive claim about a function is made of its own mutants, never of those
\* of another function of the same name or of a test that only mentions it:
\* "proven" needs a run its own mutant turned red, "hollow" a fold that found it
\* blind, or a shadow titled after it when no test binds it.
ClaimsBacked ==
  \A d \in Changed :
    /\ Reported(d, "proven") => d \in bound
    /\ Reported(d, "hollow") =>
         \/ d \in accused
         \/ d \notin bound /\ \E i \in Indices : d \in records[i].shadows

\* No verdict is lost among the records: a function that one fold accused is
\* hollow whatever other tests say of it, and one that a test binds is reported
\* with a verdict, proven or hollow, and never hidden as unverifiable or untested
\* by what was capped, flaky, one-sided or only mentioned elsewhere.
VerdictKept ==
  \A d \in Changed : changes # None =>
    /\ d \in accused => Reported(d, "hollow")
    /\ d \in bound => Reported(d, "proven") \/ Reported(d, "hollow")

\* "No test mentions it" is true of the tests the run looked at: no body names
\* the function, capped, dismissed and failing blocks included, nor does the
\* file of an analysed test with a dynamic title.
UntestedTrue ==
  \A d \in Changed : Reported(d, "untested") => NameOf[d] \notin named
=============================================================================
