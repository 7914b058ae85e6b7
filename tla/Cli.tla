-------------------------------- MODULE Cli --------------------------------
(***************************************************************************)
(* One invocation of the gutcheck command: it refuses a call it does not   *)
(* understand, puts the prober to its own test, runs prove() over what was *)
(* asked for, runs it again when the ref does not resolve or the diff has  *)
(* nothing to probe, and turns the last result into a report and an exit   *)
(* code; or it runs prove() over one file and explains one block of it.    *)
(*                                                                         *)
(* prove() is ProbeEngine's matter: a result here is any that it can       *)
(* return.  Another process may take the repository's lock, and the agent  *)
(* may edit the tree, between two calls of prove(), so their results have  *)
(* nothing to do with each other.  The lint, gate and demo commands are    *)
(* not this module's.                                                      *)
(***************************************************************************)
EXTENDS Naturals, Sequences

CONSTANT Commands \* "probe" and "explain"

ASSUME CliAssumption == Commands \subseteq {"probe", "explain"}

\* Bodies the self-check plants: the sound tests must be proven, the hollow one
\* flagged.
PLANTED_SOUND == {"block", "wrapped arrow"}
PLANTED_HOLLOW == "wrapped chain"
Shapes == PLANTED_SOUND \cup {PLANTED_HOLLOW}

Formats == {"human", "json", "sarif", "github", "markdown"}
machine(a) == a.format # "human"

\* A call as parseArgs leaves it; a value option without its value is a flag,
\* which every VALUE_FLAGS option may be.
Calls ==
  [command : Commands, unknown : BOOLEAN, since : {"none", "bare", "good", "bad"},
   format : Formats, noFallback : BOOLEAN, noSelfCheck : BOOLEAN]

Since(a) == a.since \in {"good", "bad"}
UsageError(a) == a.unknown \/ (a.format = "markdown" /\ ~Since(a))

\* Where it is called.  ref is what resolveSinceFallback finds: a candidate's
\* merge base, nothing, or no repository at all.
Places == [isDirectory : BOOLEAN, fallback : {"found", "none", "not a repo"}]

Scopes == {"diff", "full", "file"}
Fates == {"hollow", "skipped", "inconclusive", "proven", "one-sided", "env-abort"}
NoBlock == "no such block"

\* What prove() returns.  mine and twin are the fates of the explained block and
\* of another of its name, in the same file or one whose path contains it.
Results ==
  [scope : Scopes, scopeError : {"none", "ref", "held", "path"}, changed : BOOLEAN,
   outOfScope : BOOLEAN, scored : BOOLEAN, probes : BOOLEAN,
   hollow : BOOLEAN, shadow : BOOLEAN, mine : Fates \cup {NoBlock}, twin : Fates \cup {NoBlock}]

Refusal(scope, why) ==
  [scope |-> scope, scopeError |-> why, changed |-> FALSE, outOfScope |-> FALSE,
   scored |-> FALSE, probes |-> FALSE, hollow |-> FALSE, shadow |-> FALSE,
   mine |-> NoBlock, twin |-> NoBlock]

\* Verdicts need probes, and a hollow test is one; only a diff has a scope to be
\* out of, and changed functions for a shadow to be charged to.
Runs(scope) ==
  {r \in Results :
     /\ r.scope = scope /\ r.scopeError = "none"
     /\ r.hollow => r.scored
     /\ r.scored => r.probes
     /\ r.changed \/ r.outOfScope \/ r.shadow => scope = "diff"
     /\ r.shadow \/ (r.probes /\ scope = "diff") => r.changed
     /\ scope # "file" => r.mine = NoBlock /\ r.twin = NoBlock
     /\ scope = "file" => r.mine # NoBlock
     /\ "hollow" \in {r.mine, r.twin} => r.hollow
     /\ {r.mine, r.twin} \cap {"hollow", "proven", "one-sided"} # {} => r.scored}

\* The self-check's own outcome depends on the bodies the prober gets right.
SelfCheck(good) == PLANTED_SOUND \subseteq good /\ PLANTED_HOLLOW \in good

VARIABLES
  args, place,  \* the call and where it is made
  right,        \* planted bodies on which the prober's verdict is right
  pc,
  results,      \* history: what each prove() of the call returned
  printed,      \* the report, the explanation, or a refusal
  code          \* the exit code

vars == <<args, place, right, pc, results, printed, code>>

Running == 9  \* no exit code yet
Nothing == "nothing"

Init ==
  /\ args \in Calls /\ place \in Places /\ right \in SUBSET Shapes
  /\ pc = "usage" /\ results = <<>> /\ printed = Nothing /\ code = Running

r == results[Len(results)]

Exit(what, c) ==
  /\ pc' = "done" /\ printed' = what /\ code' = c
  /\ UNCHANGED <<args, place, right, results>>
Goto(label) == pc' = label /\ UNCHANGED <<args, place, right, results, printed, code>>

Returned(res, label) ==
  /\ results' = Append(results, res) /\ pc' = label
  /\ UNCHANGED <<args, place, right, printed, code>>

\* Once its scope is resolved a run may still find the repository locked, or
\* its directory unreadable.
Prove(scope, label) ==
  \E res \in Runs(scope) \cup {Refusal(scope, why) : why \in {"held", "path"}} :
    Returned(res, label)

-----------------------------------------------------------------------------
(***************************************************************************)
(* main                                                                    *)
(***************************************************************************)
Usage ==
  /\ pc = "usage"
  /\ \/ UsageError(args) /\ Exit("usage", 2)
     \/ ~UsageError(args) /\ args.command = "explain" /\ Goto("explain")
     \/ ~UsageError(args) /\ args.command = "probe" /\ ~place.isDirectory /\ Exit("usage", 2)
     \/ ~UsageError(args) /\ args.command = "probe" /\ place.isDirectory /\ Goto("selfcheck")

\* selfCheck: prove() over the planted tests, in a directory of its own.
Startup ==
  /\ pc = "selfcheck"
  /\ IF args.noSelfCheck \/ SelfCheck(right) THEN Goto("prove") ELSE Exit("refused", 2)

\* A ref that git does not know is refused before the lock is asked for.
FirstProve ==
  /\ pc = "prove"
  /\ \/ args.since = "bad" /\ Returned(Refusal("diff", "ref"), "fallback")
     \/ args.since = "good" /\ Prove("diff", "widen")
     \/ ~Since(args) /\ Prove("full", "report")

Fallback ==
  /\ pc = "fallback"
  /\ \/ place.fallback = "found" /\ Prove("diff", "widen")
     \/ place.fallback = "none" /\ Exit("no ref", 2)
     \/ place.fallback = "not a repo" /\ Goto("report")

\* No changed file, or a diff with nothing to probe.
NothingChanged == r.scopeError = "none" /\ ~r.changed
\* Mutant: the Markdown report is widened too.
UnlessTold(a) == ~a.noFallback
MayWiden(a) == ~a.noFallback /\ a.format # "markdown"
\* Mutant: a shadow does not keep the diff.
NothingProbed == r.outOfScope /\ ~r.scored /\ ~r.probes
NothingFound == r.outOfScope /\ ~r.scored /\ ~r.probes /\ ~r.shadow

Widen ==
  /\ pc = "widen"
  /\ \/ NothingChanged /\ ~machine(args) /\ Exit("nothing changed", 0)
     \/ NothingChanged /\ machine(args) /\ Goto("report")
     \/ ~NothingChanged /\ r.scopeError = "none" /\ MayWiden(args) /\ NothingFound /\ Goto("full")
     \/ ~NothingChanged /\ ~(r.scopeError = "none" /\ MayWiden(args) /\ NothingFound) /\ Goto("report")

FullScan == pc = "full" /\ Prove("full", "report")

ExitCode == IF r.scopeError # "none" THEN 2 ELSE IF r.hollow \/ r.shadow THEN 1 ELSE 0

Report == pc = "report" /\ Exit("report", ExitCode)

-----------------------------------------------------------------------------
(***************************************************************************)
(* explain: prove() over one file, no self-check; the block is looked up   *)
(* by name in one list of the result after the other.                      *)
(***************************************************************************)
ExplainProve ==
  /\ pc = "explain"
  /\ \/ Exit("usage", 2)
     \/ Prove("file", "explained")

Listed(fate) == fate \in {r.mine, r.twin}

Explain ==
  /\ pc = "explained"
  /\ \/ Listed("hollow") /\ Exit("HOLLOW", 1)
     \/ ~Listed("hollow") /\ Listed("skipped") /\ Exit("not probed", 0)
     \/ ~Listed("hollow") /\ ~Listed("skipped") /\ Listed("inconclusive") /\ Exit("inconclusive", 0)
     \/ /\ ~Listed("hollow") /\ ~Listed("skipped") /\ ~Listed("inconclusive")
        /\ Exit("PROVEN", 0)

Next ==
  \/ Usage \/ Startup \/ FirstProve \/ Fallback \/ Widen \/ FullScan \/ Report
  \/ ExplainProve \/ Explain

Spec == Init /\ [][Next]_vars

-----------------------------------------------------------------------------
(***************************************************************************)
(* Properties.                                                             *)
(***************************************************************************)
Steps == {"usage", "selfcheck", "prove", "fallback", "widen", "full", "report",
          "explain", "explained", "done"}

\* The state is well typed: in particular no call runs prove() more than thrice.
TypeOK ==
  /\ args \in Calls /\ place \in Places /\ right \in SUBSET Shapes
  /\ pc \in Steps
  /\ results \in Seq(Results) /\ Len(results) <= 3
  /\ printed \in {Nothing, "usage", "refused", "no ref", "nothing changed", "report",
                  "HOLLOW", "not probed", "inconclusive", "PROVEN"}
  /\ code \in {0, 1, 2, Running}

\* Some prove() of this call found a test that binds nothing.
Found == \E i \in 1..Len(results) : results[i].hollow \/ results[i].shadow

\* The exit code answers for the whole call, not for its last prove() alone:
\* 1 exactly when some run of it found a hollow test, a shadow included, so
\* widening never drops one; and 0 only if the last run was not refused.
ExitTruthful ==
  args.command = "probe" /\ pc = "done" =>
    /\ code = 1 <=> Found
    /\ code = 0 => results # <<>> /\ r.scopeError = "none"

\* A call that may not leave its diff does not: what the agent's gate and the
\* Markdown report read is never a scan of the whole suite.
DiffKept ==
  /\ args.command = "probe" /\ Since(args)
  /\ args.noFallback \/ args.format = "markdown"
  => \A i \in 1..Len(results) : results[i].scope = "diff"

\* --explain says PROVEN of a block only when the run it made proved that block.
ExplainedProven == printed = "PROVEN" => r.mine = "proven"
=============================================================================
