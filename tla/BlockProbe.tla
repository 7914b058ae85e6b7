----------------------------- MODULE BlockProbe -----------------------------
(***************************************************************************)
(* The probe of one test block, from its text to its verdict, over what    *)
(* the block, the sources and the runner really are: the gates of prove()  *)
(* in mutation/prove.mjs, which functions the assertions pin (Linking),    *)
(* which declaration each stands for (Resolution, Receivers), which tests  *)
(* a run selects (Selection) and what is read from it (Outcome).           *)
(*                                                                         *)
(* ProbeEngine takes the outcome of a run as it comes and follows budgets  *)
(* and order over many blocks; here one plain run of one block is followed *)
(* without a budget, and the outcomes come from the world it runs in.  A   *)
(* scenario sc is that world:                                              *)
(*   body     the text of the block, see Linking                           *)
(*   how      it calls functions by a "bare" name, as a "member" or as a   *)
(*            "jvmMember" of a receiver                                    *)
(*   lib      what the bare name "f" stands for, see Resolution            *)
(*   recv     what the receiver of "f" is, see Receivers; if a namespace,  *)
(*            its member "f" is what lib says                              *)
(*   runner, bs   the runner and the titles in the file; block 1 is ours   *)
(*   own, sib     whether our test, and the others, "pass", "fail" or      *)
(*            "skip" on the unmutated source                               *)
(*   uses     the other tests compare values of f                          *)
(*   console, place   see Outcome                                          *)
(*   returns  what f and g return: a "number", "text" or a "boolean"       *)
(*   kills    the runs that hit the timeout                                *)
(* A second function "g" is always the one function of its name.           *)
(***************************************************************************)
EXTENDS Selection, Linking, Receivers, Outcome

CONSTANT Families  \* sets of scenarios

Fns == {"f", "g"}
Sentinels == {"gross", "opposite"}

Possible(s) ==
  /\ s.bs \in Seq([under : Seq(STRING), name : Seq(STRING)]) /\ s.bs # <<>>
  /\ s.runner \in Runners
  /\ s.how \in {"bare", "member", "jvmMember"}
  /\ WellFormed(s.body) /\ Callees(s.body) \subseteq Fns
  /\ Importable(s.lib) /\ Receivable(s.recv)
  /\ s.recv.via \in Namespaces => s.lib.lang = "js" /\ s.lib.direct
  /\ s.own \in {"pass", "fail", "skip"}
  /\ s.console \in [said : {"none", "pass", "fail"}, on : {"stdout", "stderr"}]

ASSUME FamiliesAssumption == \A family \in Families : \A s \in family : Possible(s)

Rows == {"none", "sourceSet", "noPin", "pinUnresolved", "sutUnresolved", "ambiguous",
         "failing", "didNotRun", "flaky", "caught", "hollow", "oneSided", "relUnbound",
         "zeroTests", "ungutable"}

VARIABLES sc,        \* the scenario, never changed
          pc,        \* where prove() is with the block
          eligible,  \* functions whose file was resolved
          todo,      \* those not yet gutted in this phase
          reds,      \* red when gutted (brokeFns)
          greens,    \* green when gutted (survivorFns)
          oppReds,   \* survivors red under the opposite sentinel
          row        \* the row the block is reported in
vars == <<sc, pc, eligible, todo, reds, greens, oppReds, row>>

Init ==
  /\ \E family \in Families : sc \in family
  /\ pc = "analyse" /\ row = "none"
  /\ eligible = {} /\ todo = {} /\ reds = {} /\ greens = {} /\ oppReds = {}

-----------------------------------------------------------------------------
\* The declarations a call of fn runs, and the one the prober guts.
ByNamespace == sc.how # "bare" /\ sc.recv.via \in Namespaces
RunsSites(fn) ==
  IF fn = "g" THEN {<<"g", "function">>}
  ELSE IF sc.how = "bare" \/ (ByNamespace /\ Untouched(sc.recv)) THEN Bound(sc.lib)
  ELSE IF ByNamespace THEN {<<"namespace", "elsewhere">>}
  ELSE {<<"class", d>> : d \in Dispatched(sc.recv)}
GutSites(fn) ==
  IF fn = "g" THEN {<<"g", "function">>}
  ELSE IF sc.how = "bare" THEN Gutted(sc.lib)
  ELSE IF ByNamespace THEN UNION {GuttedIn(sc.lib, f) : f \in jsNamespaceSuts(sc.recv, sc.lib)}
  ELSE {<<"class", d>> : d \in Credits(sc.recv)}

\* A name and a namespace's member count when a file declares them; the method of
\* a class is credited together with its body.
Located(fn) ==
  \/ fn = "g"
  \/ sc.how = "bare" /\ Resolved(sc.lib) # {}
  \/ ByNamespace /\ jsNamespaceSuts(sc.recv, sc.lib) # {}
  \/ sc.how # "bare" /\ ~ByNamespace /\ Credits(sc.recv) # {}

pinned == ValueCredit(sc.how, sc.body) \cup relationalOnly(sc.how, sc.body)

Mine == 1
Others == Selected(sc.runner, sc.bs, Mine) \ {Mine}
Runs == Selected(sc.runner, sc.bs, Mine)

\* The constant a mutant returns.  Script gets the number whatever it returned;
\* on the JVM a number in the place of a boolean does not compile.
Typed == sc.runner = "gradle"
gutValueFor == IF Typed /\ sc.returns = "text" THEN "text" ELSE "number"
Compiles == ~Typed \/ gutValueFor = sc.returns
HasOpposite == gutValueFor # "text"

\* Test i fails on the unmutated source, or because of a gutted fn.
FailsAtHead(i) == (IF i = Mine THEN sc.own ELSE sc.sib) = "fail"
Skipped(i) == (IF i = Mine THEN sc.own ELSE sc.sib) = "skip"
Reddens(i, fn, sentinel) ==
  /\ GutSites(fn) \cap RunsSites(fn) # {}
  /\ IF i = Mine THEN fn \in Notices(sc.body, sentinel) ELSE sc.uses /\ fn = "f"

\* One run of the selected tests, of which those in failed fail, and what is read of it.
Run(failed, stage) ==
  LET ran == {i \in Runs : ~Skipped(i)}
  IN  runOne(sc.runner,
             [passed |-> Cardinality(ran \ failed), failed |-> Cardinality(ran \cap failed),
              killed |-> stage \in sc.kills],
             sc.console, sc.place)
Broken == {i \in DOMAIN sc.bs : FailsAtHead(i)}
MutantRun(fn, sentinel) ==
  Run(Broken \cup {i \in DOMAIN sc.bs : Reddens(i, fn, sentinel)}, sentinel)

-----------------------------------------------------------------------------
Report(why) == row' = why /\ pc' = "done"

\* jvmSourceSetGate: the whole file is skipped.
SourceSet ==
  /\ pc = "analyse" /\ sc.runner = "gradle" /\ ~jvmSourceSetGate(sc.place)
  /\ Report("sourceSet")
  /\ UNCHANGED <<sc, eligible, todo, reds, greens, oppReds>>

Analysed == pc = "analyse" /\ (sc.runner = "gradle" => jvmSourceSetGate(sc.place))
Found == {fn \in pinned : Located(fn)}

\* why0: a bare name that is pinned is unresolved; a receiver that is not
\* credited leaves a pin without a function.
Skip ==
  /\ Analysed /\ Found = {}
  /\ Report(IF sc.how = "bare" /\ pinned # {} THEN "sutUnresolved"
            ELSE IF hadPin(sc.body) THEN "pinUnresolved" ELSE "noPin")
  /\ UNCHANGED <<sc, eligible, todo, reds, greens, oppReds>>

Link ==
  /\ Analysed /\ Found # {}
  /\ eligible' = Found /\ pc' = "select"
  /\ UNCHANGED <<sc, todo, reds, greens, oppReds, row>>

AmbiguousTitle ==
  /\ pc = "select" /\ Residual(sc.runner, sc.bs, Mine)
  /\ Report("ambiguous")
  /\ UNCHANGED <<sc, eligible, todo, reds, greens, oppReds>>

Baseline ==
  /\ pc = "select" /\ ~Residual(sc.runner, sc.bs, Mine)
  /\ LET seen == baseline(Run(Broken, "base"))
     IN  IF seen = "green" THEN pc' = "gut" /\ todo' = eligible /\ UNCHANGED row
         ELSE Report(seen) /\ UNCHANGED todo
  /\ UNCHANGED <<sc, eligible, reds, greens, oppReds>>

\* gutOneFn: without a located body nothing is written and nothing runs; a mutant
\* that does not compile is no mutant.
Mutable(fn) == GutSites(fn) # {} /\ Compiles
Gut ==
  /\ pc = "gut"
  /\ \E fn \in todo :
       LET seen == IF ~Mutable(fn) THEN "none" ELSE evidence(MutantRun(fn, "gross"))
       IN  /\ reds' = IF seen = "red" THEN reds \cup {fn} ELSE reds
           /\ greens' = IF seen = "green" THEN greens \cup {fn} ELSE greens
           /\ todo' = todo \ {fn}
  /\ UNCHANGED <<sc, pc, eligible, oppReds, row>>

\* The flake guard: the unmutated source once more.
Recheck == Run(Broken, "recheck")
Verify ==
  /\ pc = "gut" /\ todo = {}
  /\ IF reds # {} \/ greens = {} THEN pc' = "fold" /\ UNCHANGED <<todo, row>>
     ELSE IF baseline(Recheck) = "green"
          THEN pc' = "opposite" /\ todo' = greens /\ UNCHANGED row
          ELSE Report("flaky") /\ UNCHANGED todo
  /\ UNCHANGED <<sc, eligible, reds, greens, oppReds>>

GutOpposite ==
  /\ pc = "opposite"
  /\ IF todo = {} THEN pc' = "fold" /\ UNCHANGED <<todo, oppReds>>
     ELSE /\ \E fn \in todo :
               /\ oppReds' = IF HasOpposite /\ evidence(MutantRun(fn, "opposite")) = "red"
                             THEN oppReds \cup {fn} ELSE oppReds
               /\ todo' = todo \ {fn}
          /\ UNCHANGED pc
  /\ UNCHANGED <<sc, eligible, reds, greens, row>>

\* Mutant: every function that did not go red is a survivor, run or not.
NotBroken == eligible \ (reds \cup oppReds)

blindAll == greens \ oppReds
blindFns == blindAll \ relationalOnly(sc.how, sc.body)

Fold ==
  /\ pc = "fold"
  /\ Report(IF reds # {} THEN "caught"
            ELSE IF blindFns # {} THEN "hollow"
            ELSE IF oppReds # {} THEN "oneSided"
            ELSE IF blindAll # {} THEN "relUnbound"
            ELSE IF \E fn \in eligible : Mutable(fn) THEN "zeroTests"
            ELSE IF \E fn \in eligible : GutSites(fn) # {} THEN "ungutable"
            ELSE "sutUnresolved")
  /\ UNCHANGED <<sc, eligible, todo, reds, greens, oppReds>>

Next == \/ SourceSet \/ Skip \/ Link \/ AmbiguousTitle \/ Baseline \/ Gut \/ Verify
        \/ GutOpposite \/ Fold
Spec == Init /\ [][Next]_vars

-----------------------------------------------------------------------------
\* Type correctness; the functions judged are among those that were located.
TypeOK ==
  /\ pc \in {"analyse", "select", "gut", "opposite", "fold", "done"} /\ row \in Rows
  /\ (row = "none") = (pc # "done")
  /\ eligible \subseteq Fns /\ \A fn \in eligible : Located(fn)
  /\ todo \subseteq eligible /\ reds \subseteq eligible /\ greens \subseteq eligible \ reds
  /\ oppReds \subseteq greens

(***************************************************************************)
(* The places where text and run are known to come apart.                  *)
(***************************************************************************)
Spoofed == Spoofable(sc.runner, sc.console, sc.kills # {})
Swept == Others # {}
Misresolved ==
  IF sc.how = "bare" THEN Misread(sc.lib)
  ELSE IF ByNamespace THEN MisreadMember(sc.recv, sc.lib) ELSE Misdispatched(sc.recv)

\* A hollow test really passes over each mutant there is of a function it is
\* accused of (text has no opposite, and an opposite run that timed out says
\* nothing), for the body it calls is the body that was replaced: outside the shapes
\* Resolution and Receivers name, and a swept or spoofed run.
NoFalseHollow ==
  row = "hollow" /\ ~Misresolved /\ ~Swept /\ ~Spoofed
    => \A fn \in blindFns :
         /\ fn \notin Notices(sc.body, "gross")
         /\ HasOpposite /\ "opposite" \notin sc.kills => fn \notin Notices(sc.body, "opposite")

\* A test is accused over a function only when an equality it states compares a
\* value computed by that function, unless the value is assigned again or comes
\* past a call on a branch not taken.
AccusedIsCompared ==
  row = "hollow" /\ ~Rebound(sc.body) /\ ~DeadBranch(sc.body)
    => blindFns \subseteq Compared(sc.body)

\* A proven test went red itself, over a function it notices, when no other test
\* was selected with it and nothing was read into its own text.
ProvenByItself ==
  row = "caught" /\ ~Swept /\ ~Spoofed => reds \cap Notices(sc.body, "gross") # {}

\* hollow and proven are said of a test that ran and passed before the mutant,
\* failing of one that ran and failed.
JudgedByItself ==
  ~Swept /\ ~Spoofed => /\ (row \in {"hollow", "caught"} => sc.own = "pass")
                       /\ (row = "failing" => sc.own = "fail")

\* A run of one block brings in another test only in a file with a describe: the
\* bare titles of a flat file are compared exactly as the runner matches them.
SweepNeedsDescribe ==
  pc \in {"gut", "opposite", "fold"} /\ Swept => \E i \in DOMAIN sc.bs : sc.bs[i].under # <<>>

\* docs/how-it-works.md:33: no path produces a false hollow.  A test that notices
\* a function its assertions compare is not called hollow.
HollowNoticesNothing ==
  row = "hollow" => \A sentinel \in Sentinels : Notices(sc.body, sentinel) \cap Compared(sc.body) = {}
-----------------------------------------------------------------------------
(***************************************************************************)
(* The probe of one block implements ProbeLedger with that block alone.    *)
(* Its verdict is final with the record, the result is returned later, by  *)
(* the loop over the blocks (ProbeEngine).                                 *)
(***************************************************************************)
Shown == (IF reds = {} THEN {} ELSE {"red"}) \cup (IF greens = {} THEN {} ELSE {"green"})

Ledger == INSTANCE ProbeLedger
            WITH Blocks <- {Mine}, Verdicts <- Rows \ {"none"},
                 ledger <- [b \in {Mine} |-> IF row = "none" THEN "pending" ELSE row],
                 seen <- [b \in {Mine} |-> Shown], closed <- FALSE

\* The block gets one verdict, never taken back and never followed by a run that
\* is charged to it; proven has seen red, hollow has seen green, and a block said
\* to have no body to gut was never run against a mutant.
ImplementsLedger == Ledger!Spec
=============================================================================
