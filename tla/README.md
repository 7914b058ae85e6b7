# Formal models of gutcheck

gutcheck decides whether a test really tests something. It guts the body of a
function the test exercises, reruns the test on a copy of the repository, and
calls a test that stays green *hollow*. A wrong answer costs either a false
accusation or false confidence, so most of the code is about when **not** to
give a verdict. These models are about that: what has to be true before a block
is accused or cleared, and what crashes, budgets, caches, several processes and
several runs in one call can do to it.

`dist/` is a copy that the build script makes; every model is translated from the
`.mjs` files under `mutation/`, from `checker/lexer.mjs` and from `hooks/`. Paths below
are relative to the root of the repository; a file named without its directory is in
`mutation/`.

## 1. The parts of the system

| part | code | state | operations | modules |
|---|---|---|---|---|
| probe engine | `mutation/prove.mjs` `prove()` | per block: eligible functions, outcomes, opposite outcomes, flake check; deferred queue; probe and baseline counters; public lists; `blockRecords` | gates, baseline, gut, opposite, fold, recheck, stub, drain | `ProbeEngine`, `ProbeLedger` |
| block probe | `mutation/prove.mjs`, one block of `prove()` from its text to its verdict | eligible functions, reds, greens, opposite reds | analysis, selection, baseline, gut, recheck, opposite, fold | `BlockProbe` |
| lexer | `checker/lexer.mjs` `codeOnly` | position, last token, output | blank the comments and literals of a text | `Masking`, `Lexis` |
| Gradle evidence gate | `mutation/prove.mjs` 105-175, `runners.mjs` | the classes on disk, `lastCompiled` | `survivorEvidenceValid`, each build | `StaleBuild` |
| repository lock, work-copy reaper | `mutation/lock.mjs` | lock file, work copies and their markers | acquire, take over, release, mark, reap | `RepoLock` |
| change classification | `mutation/changes.mjs` `classifyChanges` | `blockRecords`, one row per changed function | one record per block, then the rows | `Changes` |
| command line | `mutation/gutcheck.mjs` `main` | the result, the exit code | self-check, probe, ref fallback, widening, explain | `Cli` |
| self-check | `mutation/selfcheck.mjs` | none | planted tests | `Cli` (`SelfCheck`) |
| stop gate | `mutation/gate.mjs` `runGate` | one-entry memo, one-shot stamp | parse event, hash diff, memo, probe, block, residue | `StopGate` |
| session-start hook | `hooks/session-start` | `<git-dir>/gutcheck-baseline` | record HEAD | `StopGate` (`SessionStart`) |
| stop hook wrappers | `hooks/check-changed-tests`, `integrations/` | none | start the gate, kill it at a timeout | `StopGate` (`Kill`) |
| confirmation | `mutation/confirm.mjs` | none | static candidate to probe | not modelled |
| runners | `mutation/runners.mjs` | none | command lines, output parsers | `Selection`, `Outcome`, `StaleBuild` |
| mutators and locators | `probe.mjs`, `jvm.mjs`, `parse-utils.mjs`, `py_blocks.py` | none | text to pinned functions, bodies and mutants | `Linking`, `Receivers`, `Outcome` |
| module resolution | `prove.mjs`, `alias.mjs`, `python-resolve.mjs`, `jvm.mjs` | none | name to file to declaration | `Resolution` |
| wrong-layer shadow | `wrongLayerShadow.mjs` | none | textual test | input of `Changes` |
| advice, reports | `advise.mjs`, `report.mjs` | none | wording, SARIF, Markdown | not modelled |
| static checker | `checker/`, all but the lexer | none | patterns over text | not modelled |
| detection | `configure/` | none | reads manifests | not modelled |
| CI and build glue | `action.yml`, `scripts/` | none | packaging | not modelled |

How they interact. An agent harness stops a turn and starts the **stop gate**.
The gate hashes the diff against the **session baseline**, answers from its
memo or spawns the **command line** with `--no-fallback --format=json`. The
command line runs the **self-check**, then `prove()`, perhaps a second and a
third time with another scope. `prove()` takes the **repository lock**, reaps
work copies of dead processes, makes and marks its own, and runs the **engine**
there; on Gradle every green is weighed by the **evidence gate**. What the engine is
told of one block, its functions and the outcome of each run, comes from the **block
probe**: the fragments of its assertions, read over a text the **lexer** has masked, the
declarations the locators find, the tests the runner selects and the counts it prints.
The engine's
records go to the **change classification**, whose rows, with the hollow list,
make the report; the exit code goes back to the gate or to CI.

### Behaviours that are hard to test

- *Two passes and a queue under a budget.* Relational functions wait for pass 2,
  and the budget can run out between any two of them.
- *Evidence of three kinds* (a first mutant, its opposite, an unmutated rerun),
  which the fold combines, with `--deep` changing which of them are collected.
- *Processes killed anywhere*, including inside the lock's create-then-write and
  read-then-unlink, and between making a work copy and marking it.
- *Builds that miss a write*, so that a test runs on the classes of another mutant.
- *A cache of one entry* that also carries the loop guard, written without
  atomic replacement, in a hook that may be killed at its timeout.
- *Several results of one call*, of which only the last is printed.
- *Text read against program run*: the prober guts the declaration its scan finds, runs
  the tests its title selects and believes the last count on the console. The test
  calls the declaration the language binds, and prints what it likes.
- *A scan whose state is one token*: whether a slash divides depends on the word before
  it, and several callers mask a text that is already a mask.
- *Many records, one row*: a function is hollow for one test, proven by another,
  capped in a third.

`PROJECT.json` lists the hazards at their lines with the property that covers
each; those without a property say why.

### What makes each part correct

- Engine: one verdict per block, no accusation on partial or unstable evidence,
  no more probes than the budget's slack.
- Block probe: a hollow test passes over every mutant of the functions it is accused of,
  and does compare their values; a proven one notices a mutant itself; failing and
  passing are said of this test and not of its neighbours.
- Lexer: lines and offsets stay; what is blanked is exactly the comments and literals of
  the language; masking again changes nothing.
- Evidence gate: a survivor survived its own mutant.
- Lock: one prober per repository; a crash locks nobody out; nobody else removes a live
  process's work copy; a dead one's is removed.
- Classification: positive claims only from a function's own mutants, an accusation
  outranks everything else, "untested" only when no test names the function.
- Command line: the exit code answers for the whole call.
- Gate: a block is about the tree as it is; the whole session is in scope; the
  agent is not blocked for ever; nobody is blocked twice for one diff; an unfixed
  finding is spoken of.

## 2. The modules

Every definition that stands for code is in the `map` of `PROJECT.json` with the
lines it models. Operators marked "Mutant" are plausible wrong versions of the
definition next to them; nothing in the specifications uses them.

**ProbeEngine** (`prove()` from the moment it owns lock and copy to the last
verdict). One step is one call of the runner with the edit before and the revert
after it, or one decision between two such calls. `kind`, `pos` and `opp` are
what analysis, the first mutant and the opposite mutant of each eligible entry
`(fn, sutRel)` showed; `opp` is keyed by the bare name, as `oppRed` is in the
code. `Analyse` chooses what the text analysis finds, `Gut` and `GutOpposite`
choose what the run shows. `Dismiss` covers the gates with their records;
`AfterValue` is the decision to defer; `TakeDeferred`, `GutRelLate`, `Starve`
are pass 2; `FlakeFirst`, `NoFlakeCheck`, `GutOpposite`, `Fold`, `RecheckLate`,
`StubOne` are `foldBlock` and the `--deep` loop after it. `TimeOut` may happen
between any two steps when a time budget is set.

**ProbeLedger** is what the readers of the result rely on, without passes,
queues and budgets: evidence is observed, then each block gets one final verdict
backed by it, then the ledger is closed. `ProbeEngine` implements it under
`ledger <- verdict, seen <- Seen, closed <- (pc = "done")`, and so does `BlockProbe`,
for its one block: `ledger` is its `row`, `seen` what `reds` and `greens` show, and it
never closes, for the result is returned by the loop over the blocks.

**BlockProbe** follows one plain run of one block over what the block, the sources and
the runner *really* are. A scenario, chosen in `Init`, is that world; the steps are
those of `prove()` without a budget (`SourceSet`, `Skip`, `Link`, `AmbiguousTitle`,
`Baseline`, `Gut`, `Verify`, `GutOpposite`, `Fold`). Its five parts each put what the
prober reads beside what is so:

- `Selection`: a title as a sequence of words; `collidesPair`, the two stages of the
  collision check and its anchoring, against the tests each of eight runners selects for
  the argument it is passed.
- `Linking`: a body as assignments and assertions; the forms each fragment list reads,
  the variable hop and the scan texts, against the functions whose values a
  comparison depends on.
- `Resolution`: the files a specifier can mean, those the prober sees and the one its walk
  of the directory meets first (`FirstMet`), the bases an alias gives (`Targets`), the swap
  to TypeScript sources, the search for a declaration and then for a re-export in each file
  (`resolveSpecMember`); against them the file the runtime loads and what that binds the
  name to.
- `Receivers`: the class of a receiver, how it was made and what else the file does to it;
  the member that is credited against the one the call dispatches to. The member of a
  namespace is resolved by `resolveSpecMember` like an imported name (`jsNamespaceSuts`), and
  runs what the module binds.
- `Outcome`: the lines of a console; `parseRun` and `nodeEffectiveCounts` against the
  tests that passed and failed; Gradle's task against the source set of the file.

A declaration is kept as its kind and file, a text as what the scanners tell apart of it.
`Possible` says which scenarios exist, for every set `Families` of sets of them; each
property names the *shapes* outside which it holds, and section 4 says what each of
those is in the code.

**Masking** (`stripComments` as `codeOnly` calls it, with its consume functions). A text
is a sequence of symbols; one step is one iteration of the scan's loop or of the loop of
a consume function. A finished mask is masked again, since `eligibleFnsDetail` and
`pinnedFragmentsByKind` do that. `names` is a history variable: where the first pass
kept a Kotlin identifier in backquotes, for the proofs. **Lexis** is the reference: it reads
a text forward, token by token, by the lexical grammar of ECMAScript, and collects the
positions in comments and literals. `Token` reads one (`Pass` over code, `Cover` a literal,
`Chars` a piece of a template, `Stop` if none begins), `Readings` is the recursive function of
the state after k tokens, and `Lexical` says that the text was read to its end. On the way it
notes the *shapes* of a text: masks that differ from the language have one of the three of
`Misread` (`Property`, `Joined`, `Braced`); `Divided` is the shape in which a second mask
differs from the first.

**StaleBuild** (`survivorEvidenceValid`, `mainCompileExecuted`,
`lastCompiled`). The state that `ProbeEngine` leaves out of a run on Gradle: the
content each file's classes were built from. `Build` is Gradle, external: when
`racy` it may label a compile task as up to date and keep any classes. What the test says of
the classes it runs on is free. The sequence of builds is the engine's: baseline, first
mutants, the unmutated rerun, opposite mutants, the late recheck of `--deep` and the
identity stubs; the last two, like the baseline, leave classes behind and record nothing.
An opposite mutant is remembered for the file `sutOf` gives for its bare name, as in the
code, which need not be the file it is written to.

**RepoLock** (`acquireRepoLock`, `markWorkOwned`, `reapStaleWork` and the parts
of `prove()` around them). One step is one file-system call: the exclusive
create and the write of the text are two steps, so are the read and the unlink.
`Die` may come anywhere; `MakeWorkThrows` and `RemoveWorkThrows` are the two
places where an exception leaves the lock behind in a living process.

**Changes** (`blockRecords` and `classifyChanges`). One action per way a block
leaves a record: `RunnerMismatch`, `SourceSetGate`, `CutOff`, `Dismiss`,
`Hold` (capped or not past the baseline), `Fold`. `Verdict` is the record
`foldBlock` makes from the fates of the functions; `Classified` is the order of
tests of `classifyChanges`, and `Reason` its ranking of reasons.

**Cli** (`main`, `explainBlock`, `selfCheck`). A call, the place it is made in
and the bodies on which the prober errs are chosen in `Init`; each `prove()` of
the call returns any result `prove()` can return (`Runs`, `Refusal`). `Usage`,
`Startup`, `FirstProve`, `Fallback`, `Widen`, `FullScan` and `Report` are the
steps of `main`, `ExplainProve` and `Explain` those of `--explain`.

**StopGate** (`runGate`, the memo, the five harness adapters, the session-start
hook). A tree is the set of flawed tests in it, so equal diffs mean equal trees.
The steps of the gate are its reads and writes of shared files; `Written` is
what an in-place write can leave when the disk may fail; `Kill` is the harness
timeout, anywhere.

How they compose: `BlockProbe` derives for one block the `kind`, `pos` and `opp` that
`ProbeEngine` takes as they come, and both keep the promise of `ProbeLedger`;
`Masking` produces the text `Linking` reads. `StaleBuild` refines what one `Gut` of `ProbeEngine` may
return on Gradle; the fates of `Changes` and the results of `Cli` are what
`ProbeEngine` can produce; `Probe` in `StopGate` is one call of `Cli` with
`--no-fallback`. Each of the upper models leaves the lower one free, so it holds
for whatever the lower one does within the stated range. `MC*` modules hold the
values TLC needs. `*Proofs` modules hold the theorems of section 5; the type invariants of
`BlockProbe`, `RepoLock`, `StaleBuild`, `StopGate` and `Cli` are theorems there and no run
repeats them.

## 3. The runs

| run | question | bounds |
|---|---|---|
| `engine_plain` | are verdicts accounted for and complete, do relational functions wait, is the environment abort sound | 2 blocks, 2 functions of different names, cap 2, abort after 1, a time budget |
| `engine_deep_jvm` | are accusations earned with `--deep` and void runs, is the cap kept, and the refinement of `ProbeLedger` | 2 blocks, 2 functions of one name in two files, cap 2, abort after 2 |
| `block_probe` | is every verdict on a block true of the test, its callees and the run; the refinement of `ProbeLedger` | six families of scenarios, see below |
| `block_rebound` | **violated**: does a hollow test notice none of the functions it compares | bodies of two assignments to one variable |
| `masking` | do lines stay, is the mask that of the language, is masking idempotent | all texts up to 5 symbols over six alphabets and up to 4 over two; up to 4 whole words or literals; up to 4 pieces of templates, 6 of nested ones; up to 5 of keywords and operators with white space or comments between |
| `build_gate` | did the first survivor of a mutant run on it, when Gradle may miss writes | 2 blocks, 3 functions in two files and two of them of one name, one Gradle module, `--deep` |
| `lock_takeover` | exclusion and what a release removes, until a live lock is stolen; crash recovery, work copies | 2 processes, 2 calls each, one repository |
| `lock_collide` | **violated**: mutual exclusion outright | 3 processes, 1 call each |
| `changes` | are the rows of changed functions backed, is no verdict hidden, is untested true | 2 changed functions of one name in two files, 1 other, 3 records |
| `cli` | is the exit code true of the whole call; is the scope kept | every call, place and result |
| `cli_explain` | **violated**: does `--explain` say PROVEN only of a proven block | all calls of `--explain` |
| `gate_harnesses` | is a block current, in scope, not repeated; does the turn end | 1 session, 2 tests, three harnesses, good and bad disks |

Why the bounds are enough. In the engine, the first block creates the queue and
the second is what a budget or queue mistake can hit; two functions give one of
each kind, a red and a green, and a name shared or not; a cap of 2 falls within a
block, between blocks and within the drain; with an abort after one failing baseline
there is a block that fails and one that is passed over. The scenario families vary
one part of an ordinary block against the parts it interacts with: all pairs of
titles with and without describes, and some triples, under all runners; every assertion form over every kind of
expression; up to three files that could be meant by one specifier, seen or not, under both walk
orders and four kinds of specifier, and re-exports from either of two to two others, each as a
bare name and as a member of an ES and of a required namespace; receivers by two or three of their traits at a time; every runner's console with every
subset of its runs killed. The parts are independent otherwise, for each enters a
verdict through one operator (`Runs`, `pinned`, `GutSites`, `RunsSites`, `Run`).
For masks, five symbols hold a literal, an operator and what stands on both sides of
them; texts of whole pieces add nested templates with strings, comments and regular
expressions in their code, and keywords at a distance from what they belong to. For the lock, two
processes and two rounds give a takeover, a leak and the re-entry of one's own
lock file, and a third process is the one that gets in after a wrong unlink. For
the classification, three records give a majority, a tie and an odd one out, and
a shared name is what attribution can go wrong on. In the gate two tests make
two different non-empty diffs, which is what a one-entry memo can forget; claude,
codex and copilot cover every combination of loop flag, one-shot stamp and residue
except cursor's flag with a stamp, whose guard is the flag's. In the build model
two functions of a file give a mutant whose classes the other's mutant may leave behind, the
third is looked up under the first's name, and two blocks let a mutant be built again. `MaxRecords`, `MaxBlocks`, `MaxRounds`
are bounds of the model only.

Deadlock is not checked where the system stops: a run of the engine, of the
block probe, of the classification and of the command line ends, and so does a scan; processes of `RepoLock` die;
`StaleBuild` stops at `MaxBlocks`. `StopGate` never ends and is checked for deadlock.

Fairness. `RepoLock!FairSpec` is weak fairness of each process's own steps: a process that
has begun a call goes on with it until it returns or dies; no process has to
start, and no crash or ageing has to happen. `StopGate!FairSpec` lets the agent
stop sooner or later and the gate answer, its calls being bounded by timeouts;
edits, commits, sessions and kills are free. `SettledTurnEnds` adds the hypothesis
that the tree stops changing and that the memo can be written: on a harness
without a loop flag nothing else ends the turn.

## 4. What the violated runs show

- `lock_collide`: two processes hold the lock of one repository, either because the
  second reads the file before its text is written and takes it for damaged, or
  because it unlinks a file that is no longer the one it read. `lock_takeover`
  shows that such removals of a live owner's file are the *only* way.
- `cli_explain`: `--explain` looks the block up by name in the lists of the result
  and says PROVEN when it is in none of them: of a refused run, a one-sided block or
  one the environment abort passed over.
- `block_rebound`: in `let x = f(); x = g(); expect(x).toBe(..)` the hop credits `f` by
  the declaration and nothing looks for a later assignment (`prove.mjs:733`), so a test
  that does notice `g` is called hollow over `f`.

Each is quoted in `findings` with the line it disagrees with. Further
disagreements met while modelling, for which no run is kept:

Engine and classification:

- `sutOf` maps a bare name to the last file with that name, so the red of one file's
  function is tallied, and reported in `pairs`, for the other's (`prove.mjs:2009`, against
  the comment at 1564-1566 and `docs/how-it-works.md:33`).
- `oppRed` is keyed by the bare name too (`prove.mjs:1649-1668`): with `--deep`, the green
  opposite of one file's function demotes the red of its namesake in another file although
  both of that one's mutants were seen red, and the block can become hollow. `HollowEarned`
  takes the evidence as it is keyed.
- A block with a dynamic title that the time budget cuts off is recorded without the text
  of its file, so a function mentioned only there is reported untested
  (`prove.mjs:1908`, against 2048-2050).
- A survivor whose opposite run timed out or could not be made is hollow all the same
  (`docs/how-it-works.md:25`).
- `--deep` can make a block hollow that a plain run clears: when every red is
  demoted by its opposite, a sibling that stayed green leads to the hollow branch
  (`prove.mjs:1730`; the comment at 1750-1751 says advisory).
- A survivor can be credited to the original's classes when a mutant is built a
  second time (`prove.mjs:167`); `FirstSurvivorReal` is the part that holds. One
  executed compile line of a sibling module vouches for a missed write
  (`prove.mjs:132`). A red is always taken as valid (`prove.mjs:166`), though stale
  classes of an earlier mutant can cause it (comment 154-156). The green of an identity stub
  is counted without looking at what was compiled (`prove.mjs:1790-1796`).
- A one-shot harness that returns to an earlier diff, after another diff has
  overwritten the one memo entry, is blocked on it again (`gate.mjs:243`).
- The residue notice is silent after any edit, as it is looked up under the new
  diff (`hooks/README.md:31-33`). A payload is stored under the hash taken before
  the probe copied the tree (`gate.mjs:209-211`). Two sessions in one repository
  share a baseline (`README.md:58-59`). A memo that cannot be written leaves a
  harness without a loop flag with no guard (`gate.mjs:12`).
- Releasing the lock reads, then unlinks (`lock.mjs:24`).
- The source-set gate drops an untouched file's block without a record
  (`prove.mjs:1860`, against 2033-2035).
- Command line: a value flag without its value (`--since`, `--runner`, `--format`,
  `--max-probes`) is ignored without a word, and `--max-probes=abc` or `0` means no
  cap (`prove.mjs:1479`), against "a CI typo must never silently pass, silently
  change semantics" (`gutcheck.mjs:409-410`). A run whose only finding is a shadow
  exits 1 while SARIF and GitHub output show no error (`gutcheck.mjs:496-501`); the
  direct `prove.mjs` entry point ignores shadows in its exit code. `--explain` gives its
  verdict without a self-check (`gutcheck.mjs:255`, against `selfcheck.mjs:1-5`).
- Classification: "mutant ran 0 tests" and "relation-unbound" were observed running
  and are not in `EXECUTION_WHY` (`changes.mjs:373`, comment 368-372), so a static guess can
  win a tie over them; and one reason whose text holds counts ("baseline 0p/1f") is as many
  reasons as there are texts (`changes.mjs:363-374`). A survivor
  within a block that another function's red proves does not make its function
  hollow (comment at `changes.mjs:276-278`). A dynamic title in a file the runner
  cannot run records no file text. A block out of the diff's scope whose target
  resolved is labelled `sut-unresolved` (`prove.mjs:2031`).


Block probe. Each item is a shape that a property of `BlockProbe` excludes by name:

- *Selection.* A title that stands at top level and again in a describe is swept with it
  (`SweepNeedsDescribe` shows a describe is needed); under node 22 the qualified pattern
  `a b` also selects a top-level test `a b`, and under node 20 a match of a describe takes
  all of its tests. A neighbour's red then makes the block proven, a neighbour's failure
  makes it failing.
- *Linking.* Besides a variable assigned twice: `expect(known || f())`, and Kotlin's
  `if (c) known else f()`, credit a call that does not run. A value-blind survivor that is
  also compared relationally and one-sided is still hollow.
- *Resolution.* A default or renamed import is looked up under the local name (`Misnamed`);
  `export {x as fn}` beside `export *` is followed to the star (`AliasedStar`); a private
  function of that name in the barrel shadows its re-export (`Shadowed`). Of two files that
  answer to one specifier the walk of the directory decides (`prove.mjs:77-81`, 865): `x/`
  is entered before `x.js` is met, so `x/index.js` is gutted where the runtime loads `x.js`,
  and a file that is no source to the prober (a test, a build directory) leaves the name to
  the other (`Twins`; for a `.js` file beside its TypeScript source, `Built`). Of a subpath
  import with conditions the `default` target is taken first (`alias.mjs:71`), node takes
  the condition that matches (`Conditional`; "by construction what `node --test` does",
  `alias.mjs:4-7`). Of `export const fn = memo(..)` the located body may be a method or an
  inner function of that name (`Wrapped`); the members of a module that is one value are
  taken for its declarations, unless a namespace is required (`OneValue`); a JVM bare name may be
  the test's own helper. All but the JVM's reach the members of namespaces as well.
- *Receivers.* On the JVM no mock, lambda parameter or local class is looked for; in
  script a constructor that assigns `this.fn` hides the method that is gutted.
- *Outcome.* Runners that leave out a zero count, killed runs, and text on stderr let
  what a test prints stand in for the summary; the comment at `runners.mjs:187-190` speaks
  of the last match as the runner's own.

Lexer:

- `lexer.mjs:273` joins a keyword to a word that only white space or a comment parts
  it from, so `else return /'/` is read as a division and a quote opens a string, against
  `test/lexer.test.mjs`, "regex after a keyword (return) is recognized".
- A property named like a keyword (`counts.delete / 2`) admits a regular expression, also
  where white space stands between the period and the name.
- Braces are counted wherever they stand within `${ }`: in a string, a comment or a regular
  expression, and in the text of a template nested there. The template then ends early or late.
- "codeOnly is idempotent on already-masked text" (`prove.mjs:693`) is false when a literal is
  divided: `''/x/` or `return 'a' / 2 / 3` leave slashes that the second scan takes for a
  regular expression.

## 5. What is proved

TLAPS checks these for every value of the constants; TLC has found each of them
to hold on the instance above first.

**ProbeEngineProofs.** `TypeCorrect`, `AccountedTheorem`, `HollowEarnedTheorem`,
`NoPartialVerdictTheorem`, `Refinement`. None of the three is inductive: a hollow
verdict is given in one step from evidence collected in many, possibly in two
passes. `IInv` adds

- `Passes`, `Open`: where the engine stands determines which blocks are still
  pending (the current one, those after it in pass 1, and the deferred ones);
- `Fresh`: a block not reached yet has no evidence, a deferred one no opposite and
  no rerun;
- `Loops`: at each loop, the entries of the block are exactly those tried and those
  in `todo`, so that an empty `todo` means a complete block or a starved one;
- `PlainOpp`: without `--deep` the fold has opposite evidence only when nothing broke;
- `RowsMatch`: rows and records follow the verdict.

The refinement needs one more part, `NotYet`, on entries not yet tried when a
block is folded; each step is then an `Observe`, a `Decide`, a `Close` or a stutter.

The module's second half has `EnvAbortTheorem`, `WaitsTheorem` and `BudgetTheorem`. `EnvInv` says that before the first green baseline nothing is past the gates. `OrderInv`
adds `NotYet` and `ValuesHeld`: a block whose relational functions pass 1 guts has value
functions, none of which went red. The cap is shown by a potential. Without `--deep`, the runs made and those the block at hand still owes
stay under it (`PlainBudget`). With it, a block put off to pass 2 pays for its
opposites and stubs after the cap, so `DeepBudget` counts `Behind`, the blocks that are
done and not waiting, at most N, and allows each of them 2 K runs. The sizes of `todo` and
`deferred` are the library's facts on finite sets.

**BlockProbeProofs.** `TypeCorrect`, `AccusationsAreCompared`, `FlatFilesAreNotSwept`,
`VerdictsJudgeTheTest`, `ProvenNotices`, `AccusedTestsAreBlind`, `BlockRefinement`. The constant is any set
of families of `Possible` scenarios: bodies, titles and files of any size. `IInv` says what
each phase has established (what was selected, that the baseline was green, which of the
outcomes are reds and greens of which mutant), so the verdict follows from the phase before
it. Over it, one lemma a part: what `Credits` holds when the receiver is none of the shapes
is what `Dispatched` holds, the file resolution stops at is the loaded one whatever the walk
met first (`FoundIsLoaded`), what is gutted there, or behind the re-export that is followed, is
what the name is bound to (`DeclaredIsBound`, `FollowedIsBound`, `OnlyDeclarationIsBound`), what `parseRun` reads of a
quiet console is what happened, and a lone title selects its block alone. For the
refinement, a `Gut` is an `Observe` or a stutter, a report is a `Decide` (`ReportDecides`)
that what was seen backs (`FoldIsBacked`), and every other step is a stutter.

**MaskingProofs.** `LinesTheorem`, `LexicalTheorem` and `TwiceTheorem`, for texts of any
length. `Kept` relates every emitted piece to the text it was made from; `Progress` says
where the scan stands; from there the languages part.

In Kotlin, Java and Python the second mask needs to know what a mask looks like: in pass 1
(`First`) a symbol that is not blank either stands within a kept identifier or opens nothing
at its place; in pass 2 (`Second`) the output is the text so far, whatever was kept is skipped
over at the same places, and no literal opens.

In script both theorems compare the scan with the readings of `Lexis`. `Readings` is a
recursive function, so its equation comes first: a trace of the first k steps exists for every
k and two traces agree, by induction over k (`AllNumbers`, itself from the library's
well-founded order on the naturals: the induction theorems with an operator for a parameter
cannot be instantiated). `ReadingsLater` and `GoodFacts` then say that what a reading has found
to be a literal is never revised, and `StepGoes` what each token covers. The invariant
`FirstScript` ties the scan to *some* reading of the text:
at its token (`AtToken`), behind the first symbol of a word or of `++`, in a comment, string
or regular expression whose end `Lexis` defines as a least position (each of those loops is
shown to look for that position), or in a template, where the scan runs through the nested
tokens without noticing them and only its count `depth` agrees with `nest`. `Prev` says what
the scan still knows of the token before from `prevSig`, `prevWord` and the text emitted;
`Pair` that a `+` before a `+` is the second of its own pair, without which `postfixIncDec`
would look at the wrong two. `LitOK` is the theorem itself on the part emitted. `Property` and
`Joined` are used where the scan would take the wrong side of a keyword, and `Braced` where
`depth` would leave `nest`. The
second pass reads the same text once more (`SecondScript`): where a literal was there are
blanks, nothing opens that did not open before, and a slash that is left divides, since
`Known` holds of what it follows unless that is a literal (`Divided`).

**RepoLockProofs.** `LockTypeCorrect`, `ExclusionTheorem`, `ReleaseTheorem`,
`LiveWorkTheorem`. `Owned(p)` says that a process that believes it holds an
unstolen lock is the creator of the file; two believers then are one. The
last uses that only copies of the dead grow old (`OldDead`).

**StaleBuildProofs.** `BuildTypeCorrect`, and `FirstSurvivorTheorem` for
projects of one Gradle module. `Remembered` says that
`lastCompiled` of a file is the original or a mutant the run has watched compile.

**StopGateProofs.** `GateTypeCorrect`, and under one session `BlockTheorem` and
`ScopeTheorem`, for any number of tests, every harness and every disk. `SoloInv`:
the memo answers its own key truthfully or not at all, the running gate's key is
the baseline and the tree, its payload answers that key, and the baseline is the
HEAD of the session's start. `NoRepeatTheorem` and `ResidueTheorem` add `LoopInv`:
between two gates the memo keeps the last block with its stamp, and a gate that has gone
past its lookup is about another diff or has read the stamp.

**ChangesProofs.** `ClaimsTheorem`, `VerdictTheorem`, `UntestedTheorem`. `IInv`
ties the three histories to the records: what a fold found bound is red in a record
(`BoundFound`), what it accused is blind in a hollow one (`AccusedFound`), what a
test names is in a record that refers to it, mask included (`NamedFound`), and a
finished report is the classification of the final records (`RowsRead`). `ChangesTypeCorrect`
needs that the reason exists: it is a CHOOSE of what is ahead of all
others. `ReasonFound` shows one by two least numbers, the fewest records a reason lacks and
then the first record of a reason among those left, which the library's well-founded
order on the naturals provides without an induction.

**CliProofs.** `CliTypeCorrect`, `ExitTheorem`, `DiffTheorem`, for any set of
commands. The properties speak of a finished call. `IInv` says what it was before: no refused
run finds anything (`Consistent`), which step has how many results of which kind of call
(`Stands`), no result but the last found anything (`Quiet`), so that a call that exits 0 over
its last run is clean in all of them; the runs that may be widened are of the diff
(`InDiff`).

**Only model-checked.** Liveness (`LoneRunGetsIn`, `OrphanReaped`,
`TurnEnds`, `SettledTurnEnds`): fairness and ENABLED are out of the prover's reach. Every
invariant and action property of a passing run is stated by a theorem, some of them
under the condition named above: `FirstSurvivorReal` for one Gradle module, and those of the gate for one session.
`FirstSurvivorReal`, `BlockIsCurrent` and `SessionScope` are false without theirs.

## 6. Assumptions

- Process identifiers are not reused, and no run lasts the 24 hours after which an
  unmarked work copy may be reaped. The reaper's own failing removals are left out.
- `ProbeEngine` takes the work copy as restored between steps (nothing else reads
  it); the stale classes a build may keep are `StaleBuild`'s.
- An executed compile task reads the current source, and the source is restored
  before anything else happens.
- The gate's diff key is injective, and the probe may miss a flawed test but never
  flags a sound one.
- In `Changes` no block has two targets of one name (section 4, `sutOf`), and a reason whose
  text holds counts stands for the texts named in `BaselineWhy`.
- In `Resolution` re-exports are one hop deep, a re-export names one file, no file exports a
  name twice, and a `.js` specifier beside a TypeScript source is relative or an alias of one
  target. A call of an overloaded name, and of a method another declaration may hide, is taken
  to run the other one.
- In `BlockProbe` describes are one level deep, a second function `g` is the one
  function of its name, functions return what no assertion but a comparison tells from
  the sentinel, and a mutant is noticed only by an assertion that compares the value.
- In `Masking` the letters of a word are one symbol, a closing parenthesis ends an operand (the
  gap `test/lexer-codeonly.test.mjs` pins), and `Lexis` leaves out braces, and backslashes, outside
  literals and `${ }`: a text with one is not `Lexical`.
- `SIGKILL` is the only way a process stops besides returning or throwing.

## 7. Not modelled

- *Bracket and block scanning* (`probe.mjs`, `jvm.mjs`, `parse-utils.mjs`,
  `py_blocks.py`): where a body or a test begins and ends. Its results are the scenarios
  of `BlockProbe`, in which a property that holds does so for any of them.
- *Manifests*: how `tsconfig`, `package.json` and `pyproject` are read; the files an
  alias may mean are the `disk` of `Resolution`.
- *The shell grammar* of the lexer, with its here-documents, and the variants of
  `stripComments` that keep strings.
- *Confirmation* (`confirm.mjs`), *static checker*, *wrong-layer shadow*: pure functions
  of a text whose answers are wording or inputs of `Changes`; nothing is kept between
  two calls.
- *Reports, advice, detection, packaging, the lint and demo commands, the prompt hook,
  the gate's wording and scope warnings*: no state, no interleaving, and covered by
  fixtures.

## 8. Plan

Done, in this order: `ProbeLedger`, `ProbeEngine`; `RepoLock`; `StopGate`; `StaleBuild`;
`Changes`; `Cli`; `Selection`, `Linking`, `Resolution`, `Receivers`, `Outcome` and `BlockProbe`;
`Lexis` and `Masking`; each with its proofs where the prover reaches.

Next, most important first:

1. *Payload of the gate*: the scope warnings, the clean-run voice and the parsing of
   the probe's output, as a part of `StopGate`.
2. *Composition*: `StopGate` over `RepoLock`, for the probe that is refused because
   another session holds the repository.
3. *Confirmation*: candidate, resolution, probe, and what it says of a refused or
   capped probe.
4. *The shell mode of the lexer*, with its here-documents.

Runs stay few: a new one replaces one whose question it subsumes.
