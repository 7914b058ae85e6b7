------------------------------- MODULE Outcome -------------------------------
(***************************************************************************)
(* What the prober reads from one run of the test runner: testCmdFor's     *)
(* task, parseRun, nodeEffectiveCounts and runOne of mutation/runners.mjs, *)
(* parseGradleResults and the source-set rules of jvm.mjs, and the         *)
(* baseline gate of prove.mjs.                                             *)
(*                                                                         *)
(* A run is the numbers of selected tests that passed and failed and       *)
(* whether it was killed at its timeout.  A console c says what the tests  *)
(* themselves print: a summary-shaped text ("none", "pass" or "fail") and  *)
(* the stream it goes to.  A place j says where a JVM test file lies.      *)
(***************************************************************************)
EXTENDS Naturals, Sequences

TapRunners == {"node20", "node22", "mocha", "ava"}

Line(what, n) == <<[what |-> what, n |-> n]>>

\* TAP states both numbers, the others leave a zero out.
Summary(runner, run) ==
  IF run.killed THEN <<>>
  ELSE (IF run.passed > 0 \/ runner \in TapRunners THEN Line("pass", run.passed) ELSE <<>>)
       \o (IF run.failed > 0 \/ runner \in TapRunners THEN Line("fail", run.failed) ELSE <<>>)

Said(c, stream) == IF c.said # "none" /\ c.on = stream THEN Line(c.said, 2) ELSE <<>>

\* stdout, then stderr; jest's summary is on stderr.
Output(runner, run, c) ==
  IF runner = "jest"
  THEN Said(c, "stdout") \o Said(c, "stderr") \o Summary(runner, run)
  ELSE Said(c, "stdout") \o Summary(runner, run) \o Said(c, "stderr")

LastOf(out, what) ==
  LET at == {i \in DOMAIN out : out[i].what = what}
  IN  IF at = {} THEN 0 ELSE out[CHOOSE i \in at : \A k \in at : k <= i].n

parseRun(runner, out) == [passed |-> LastOf(out, "pass"), failed |-> LastOf(out, "fail")]

\* Nothing selected: node 22 reports its file wrapper as a pass.
FileWrapper(runner, run) ==
  IF runner = "node22" /\ ~run.killed /\ run.passed + run.failed = 0
  THEN [run EXCEPT !.passed = 1] ELSE run

\* Mutant: the wrapper is a pass like any other.
CountedAsIs(runner, run, counts) == counts
\* A green that is only the file wrapper (plan 1..0) is discounted.
nodeEffectiveCounts(runner, run, counts) ==
  IF /\ runner \in {"node20", "node22"} /\ counts.failed = 0
     /\ ~run.killed /\ run.passed + run.failed = 0
  THEN [passed |-> 0, failed |-> 0] ELSE counts

\* The results directory is emptied before the run: no file, no count.
parseGradleResults(run) ==
  IF run.killed THEN [passed |-> 0, failed |-> 0]
  ELSE [passed |-> run.passed, failed |-> run.failed]

-----------------------------------------------------------------------------
(***************************************************************************)
(* The gradle task of a test file.  set: its source set; kmp: the module   *)
(* has a JVM target; android: "no", "visible" or "hidden" behind a         *)
(* convention plugin.                                                      *)
(***************************************************************************)
jvmSourceSetGate(j) ==
  j.set \in {"test", "jvmTest"} \/ (j.set = "commonTest" /\ j.kmp)
gradleTask(j) ==
  IF j.set = "jvmTest" \/ (j.set = "commonTest" /\ j.kmp) THEN "jvmTest"
  ELSE IF j.android = "visible" THEN "testDebugUnitTest" ELSE "test"
\* The task that would run the file.
RunsUnder(j) ==
  IF j.set \in {"jvmTest", "commonTest"} THEN "jvmTest"
  ELSE IF j.android # "no" THEN "testDebugUnitTest" ELSE "test"

\* A task that does not run the file fails or selects nothing.
Reached(runner, j, run) ==
  IF runner = "gradle" /\ gradleTask(j) # RunsUnder(j)
  THEN [run EXCEPT !.passed = 0, !.failed = 0] ELSE run

runOne(runner, run, c, j) ==
  IF runner = "gradle" THEN parseGradleResults(Reached(runner, j, run))
  ELSE nodeEffectiveCounts(runner, run,
         parseRun(runner, Output(runner, FileWrapper(runner, run), c)))

\* What a baseline is taken for, and a mutant run.
baseline(counts) ==
  IF counts.failed > 0 THEN "failing" ELSE IF counts.passed < 1 THEN "didNotRun" ELSE "green"
\* Mutant: a run in which nothing passes is red.
NoPassIsRed(counts) == IF counts.passed = 0 THEN "red" ELSE "green"
evidence(counts) ==
  IF counts.failed > 0 THEN "red" ELSE IF counts.passed > 0 THEN "green" ELSE "zero"

(***************************************************************************)
(* The last-match rule reads the test's own text where the runner prints   *)
(* no such number after it: a zero it leaves out, a run that was killed,   *)
(* text on the stream that comes second.                                   *)
(***************************************************************************)
Spoofable(runner, c, killed) ==
  /\ c.said # "none" /\ runner # "gradle"
  /\ killed \/ runner \notin TapRunners \/ (c.on = "stderr" /\ runner # "jest")
=============================================================================
