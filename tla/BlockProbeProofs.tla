-------------------------- MODULE BlockProbeProofs --------------------------
(***************************************************************************)
(* Theorems about the probe of one block, for every set of scenarios: any  *)
(* number of blocks, titles of any length, bodies of any length.           *)
(***************************************************************************)
EXTENDS BlockProbe, FiniteSetTheorems, SequenceTheorems, TLAPS

-----------------------------------------------------------------------------
(***************************************************************************)
(* Titles of a flat file.                                                  *)
(***************************************************************************)
Titled == [under : Seq(STRING), name : Seq(STRING)]

\* Every title occurs in itself.
LEMMA WithinItself ==
  ASSUME NEW a \in Seq(STRING)
  PROVE  Within(a, a)
<1>1. SubSeq(a, 0 + 1, 0 + Len(a)) = a
  OBVIOUS
<1>2. 0 \in 0 .. Len(a) /\ 0 + Len(a) <= Len(a)
  OBVIOUS
<1> QED BY <1>1, <1>2 DEF Within

\* A block outside every describe is named by its own title.
LEMMA FlatName ==
  ASSUME NEW b \in Titled, b.under = <<>>
  PROVE  qualifiedName(b) = b.name
BY DEF Titled, qualifiedName

\* Whatever the runner would select beside a flat block that passed the second
\* stage, stage 1 has flagged and stage 2 refused.
LEMMA FlatSelection ==
  ASSUME NEW runner \in Runners, NEW bs \in Seq(Titled),
         NEW i \in DOMAIN bs, NEW j \in DOMAIN bs,
         \A k \in DOMAIN bs : bs[k].under = <<>>,
         ~Residual(runner, bs, i), j \in Selected(runner, bs, i)
  PROVE  j = i
<1> SUFFICES ASSUME j # i PROVE FALSE
  OBVIOUS
<1>1. bs[i] \in Titled /\ bs[j] \in Titled
  OBVIOUS
<1>2. qualifiedName(bs[i]) = bs[i].name /\ qualifiedName(bs[j]) = bs[j].name
  BY <1>1, FlatName
<1> DEFINE m == bs[i].name
           n == bs[j].name
<1>3. selectName(runner, bs, i) = m
  BY <1>2 DEF selectName
<1>4. Selects(runner, m, selectQualified(runner, bs, i), bs[j])
  BY <1>3 DEF Selected
<1>5. ~(runner = "ava" /\ avaSpecial(m))
  BY DEF Residual, Ambiguous
<1>6. m = n => Ambiguous(runner, bs, i)
  <2> SUFFICES ASSUME m = n PROVE collidesPair(m, n, runner, FALSE)
    BY DEF Ambiguous
  <2>1. Within(m, m)
    BY <1>1, WithinItself DEF Titled
  <2> QED BY <2>1 DEF collidesPair
<1>7. ~collidesPair(m, n, runner, FALSE)
  <2> SUFFICES ASSUME collidesPair(m, n, runner, FALSE) PROVE FALSE
    OBVIOUS
  <2>1. Ambiguous(runner, bs, i)
    BY DEF Ambiguous
  <2>2. runner # "ava" /\ ~collidesPair(m, n, runner, runner = "mocha")
    BY <2>1, <1>2 DEF Residual
  <2>3. CASE runner = "mocha"
    <3>1. selectQualified(runner, bs, i)
      BY <2>1, <2>3 DEF selectQualified
    <3>2. m = n
      BY <3>1, <2>3, <1>2, <1>4 DEF Selects
    <3> QED BY <3>2, <2>2, <2>3 DEF collidesPair
  <2>4. CASE runner # "mocha"
    BY <2>2, <2>4
  <2> QED BY <2>3, <2>4
<1>8. m # n
  <2> SUFFICES ASSUME m = n PROVE FALSE
    OBVIOUS
  <2>1. Within(m, m)
    BY <1>1, WithinItself DEF Titled
  <2> QED BY <2>1, <1>7 DEF collidesPair
<1>9. CASE runner \in {"node20", "node22", "ava", "gradle"}
  BY <1>9, <1>8, <1>5, <1>4, <1>2 DEF Selects
<1>10. CASE runner \in {"vitest", "jest", "mocha", "pytest"}
  BY <1>10, <1>8, <1>7, <1>4, <1>2 DEF Selects, collidesPair, ExactRunners
<1> QED BY <1>9, <1>10 DEF Runners

-----------------------------------------------------------------------------
(***************************************************************************)
(* What the scanners credit.                                               *)
(***************************************************************************)
\* The only assignment of a variable is its last.
LEMMA SingleAssignment ==
  ASSUME NEW body, ~Rebound(body), DOMAIN body.assigns \subseteq Nat,
         NEW i \in DOMAIN body.assigns, NEW v \in body.assigns[i].vars
  PROVE  i \in Last(body, v)
<1> SUFFICES ASSUME NEW k \in DOMAIN body.assigns, v \in body.assigns[k].vars
             PROVE  k <= i
  BY DEF Last
<1>1. k = i
  BY DEF Rebound
<1> QED BY <1>1

\* Without an assignment that hides another, and without a call that is written
\* but not made, a value pin is credited only with functions it compares.
LEMMA CreditCompared ==
  ASSUME NEW body, WellFormed(body), ~Rebound(body), ~DeadBranch(body),
         NEW how \in {"bare", "member", "jvmMember"}
  PROVE  ValueCredit(how, body) \subseteq Compared(body)
<1>1. ASSUME NEW a \in Frags(body, "value")
      PROVE  a \in body.asserts /\ a.form \in ValueForms
  BY <1>1 DEF Frags, pinKind
<1>2. ASSUME NEW a \in Frags(body, "value"), NEW f \in Flows(body, a)
      PROVE  f \in Compared(body)
  BY <1>1, <1>2 DEF Compared
<1>3. ASSUME NEW a \in Frags(body, "value"), NEW f \in a.expr.calls
      PROVE  f \in Compared(body)
  <2>1. f \in a.expr.live
    BY <1>1, <1>3 DEF DeadBranch
  <2> QED BY <2>1, <1>2 DEF Flows
<1>4. ASSUME NEW i \in Binds(body, "value"), NEW f \in body.assigns[i].rhs.live
      PROVE  f \in Compared(body)
  <2>1. PICK a \in Frags(body, "value") : body.assigns[i].vars \cap a.vars # {}
    BY <1>4 DEF Binds, Mentioned
  <2>2. PICK v \in a.vars : v \in body.assigns[i].vars
    BY <2>1
  <2>3. i \in DOMAIN body.assigns
    BY DEF Binds
  <2>4. i \in Last(body, v)
    BY <2>2, <2>3, SingleAssignment DEF WellFormed
  <2>5. f \in UNION {body.assigns[k].rhs.live : k \in Last(body, v)}
    BY <1>4, <2>4
  <2>6. f \in Flows(body, a)
    BY <2>2, <2>5 DEF Flows
  <2> QED BY <2>6, <1>2
<1>5. ASSUME NEW i \in Binds(body, "value"), ~body.assigns[i].rhs.branching,
             NEW f \in body.assigns[i].rhs.calls
      PROVE  f \in Compared(body)
  <2>1. f \in body.assigns[i].rhs.live
    BY <1>5 DEF Binds, DeadBranch, DeadCall
  <2> QED BY <2>1, <1>4
<1>6. ASSUME NEW f \in Inline(body, "value") PROVE f \in Compared(body)
  BY <1>6, <1>3 DEF Inline
<1>7. ASSUME NEW f \in ScriptHop(body, "value") PROVE f \in Compared(body)
  <2>1. PICK i \in Binds(body, "value") :
          ~body.assigns[i].rhs.branching /\ f \in body.assigns[i].rhs.top
    BY <1>7 DEF ScriptHop
  <2>2. f \in body.assigns[i].rhs.calls
    BY <2>1 DEF WellFormed, Binds
  <2> QED BY <2>1, <2>2, <1>5
<1>8. ASSUME NEW f \in KotlinHop(body, "value") PROVE f \in Compared(body)
  <2>1. PICK i \in Binds(body, "value") : f \in body.assigns[i].rhs.lead
    BY <1>8 DEF KotlinHop
  <2>2. f \in body.assigns[i].rhs.live
    BY <2>1 DEF Binds, DeadBranch, DeadCall
  <2> QED BY <2>1, <2>2, <1>4
<1>9. ASSUME NEW f \in memberCredit(body, "value") PROVE f \in Compared(body)
  <2>1. PICK t \in pinnedScanTexts(body, "value") : ~t.branching /\ f \in t.calls
    BY <1>9 DEF memberCredit
  <2>2. CASE \E a \in Frags(body, "value") : t = a.expr
    BY <2>1, <2>2, <1>3
  <2>3. CASE \E i \in Binds(body, "value") : t = body.assigns[i].rhs
    BY <2>1, <2>3, <1>5
  <2> QED BY <2>2, <2>3 DEF pinnedScanTexts
<1> QED
  BY <1>6, <1>7, <1>8, <1>9 DEF ValueCredit, Credit, creditFrom, jvmMemberCredit

\* What is credited is called in the text.
LEMMA CreditCalled ==
  ASSUME NEW body, WellFormed(body), NEW kind, NEW how \in {"bare", "member", "jvmMember"}
  PROVE  Credit(how, body, kind) \subseteq Callees(body)
<1>1. Inline(body, kind) \subseteq Callees(body)
  BY DEF Inline, Frags, Callees
<1>2. ASSUME NEW i \in Binds(body, kind), NEW f \in body.assigns[i].rhs.calls
      PROVE  f \in Callees(body)
  <2>1. i \in DOMAIN body.assigns
    BY DEF Binds
  <2>2. f \in UNION {body.assigns[k].rhs.calls : k \in DOMAIN body.assigns}
    BY <1>2, <2>1
  <2> QED BY <2>2 DEF Callees
<1>3. \A i \in Binds(body, kind) :
        body.assigns[i].rhs.top \cup body.assigns[i].rhs.lead \subseteq body.assigns[i].rhs.calls
  BY DEF Binds, WellFormed
<1>4. ScriptHop(body, kind) \cup KotlinHop(body, kind) \subseteq Callees(body)
  BY <1>2, <1>3 DEF ScriptHop, KotlinHop
<1>5. ASSUME NEW t \in pinnedScanTexts(body, kind) PROVE t.calls \subseteq Callees(body)
  <2>1. CASE \E a \in Frags(body, kind) : t = a.expr
    BY <2>1 DEF Frags, Callees
  <2>2. CASE \E i \in Binds(body, kind) : t = body.assigns[i].rhs
    BY <2>2, <1>2
  <2> QED BY <2>1, <2>2 DEF pinnedScanTexts
<1>6. memberCredit(body, kind) \subseteq Callees(body)
  BY <1>5 DEF memberCredit
<1> QED
  BY <1>1, <1>4, <1>6 DEF Credit, creditFrom, jvmMemberCredit

-----------------------------------------------------------------------------
(***************************************************************************)
(* What is read from one run.                                              *)
(***************************************************************************)
Lines == [what : {"pass", "fail"}, n : Nat]
OneRun == [passed : Nat, failed : Nat, killed : BOOLEAN]

LEMMA JoinedPair ==
  ASSUME NEW S, NEW a \in S, NEW b \in S
  PROVE  <<a>> \o <<b>> = <<a, b>>
<1>1. <<a>> \in Seq(S) /\ <<b>> \in Seq(S) /\ <<a, b>> \in Seq(S)
  OBVIOUS
<1>2. ASSUME NEW i \in 1 .. 2 PROVE (<<a>> \o <<b>>)[i] = <<a, b>>[i]
  <2>1. i = 1 \/ i = 2
    OBVIOUS
  <2> QED BY <2>1, <1>1, ConcatProperties
<1>3. <<a>> \o <<b>> \in Seq(S) /\ Len(<<a>> \o <<b>>) = 2 /\ Len(<<a, b>>) = 2
  BY <1>1, ConcatProperties
<1> QED BY <1>1, <1>2, <1>3, SeqEqual

LEMMA JoinedTriple ==
  ASSUME NEW S, NEW a \in S, NEW b \in S, NEW c \in S
  PROVE  <<a>> \o <<b, c>> = <<a, b, c>>
<1>1. <<a>> \in Seq(S) /\ <<b, c>> \in Seq(S) /\ <<a, b, c>> \in Seq(S)
  OBVIOUS
<1>2. ASSUME NEW i \in 1 .. 3 PROVE (<<a>> \o <<b, c>>)[i] = <<a, b, c>>[i]
  <2>1. i = 1 \/ i = 2 \/ i = 3
    OBVIOUS
  <2> QED BY <2>1, <1>1, ConcatProperties
<1>3. <<a>> \o <<b, c>> \in Seq(S) /\ Len(<<a>> \o <<b, c>>) = 3 /\ Len(<<a, b, c>>) = 3
  BY <1>1, ConcatProperties
<1> QED BY <1>1, <1>2, <1>3, SeqEqual

LEMMA LastAt ==
  ASSUME NEW out \in Seq(Lines), NEW what, NEW i \in DOMAIN out, out[i].what = what,
         \A k \in DOMAIN out : out[k].what = what => k <= i
  PROVE  LastOf(out, what) = out[i].n
<1> DEFINE at == {k \in DOMAIN out : out[k].what = what}
<1>1. i \in at /\ at \subseteq Nat /\ \A k \in at : k <= i
  OBVIOUS
<1>2. (CHOOSE j \in at : \A k \in at : k <= j) = i
  BY <1>1
<1> QED BY <1>1, <1>2 DEF LastOf

LEMMA NoneAt ==
  ASSUME NEW out, NEW what, \A k \in DOMAIN out : out[k].what # what
  PROVE  LastOf(out, what) = 0
BY DEF LastOf

\* The summary of a run that ended states its numbers, a zero by leaving it out.
LEMMA SummaryRead ==
  ASSUME NEW runner, NEW run \in OneRun
  PROVE  /\ LastOf(Summary(runner, run), "pass") = IF run.killed THEN 0 ELSE run.passed
         /\ LastOf(Summary(runner, run), "fail") = IF run.killed THEN 0 ELSE run.failed
<1> DEFINE p == [what |-> "pass", n |-> run.passed]
           f == [what |-> "fail", n |-> run.failed]
           out == Summary(runner, run)
<1>1. p \in Lines /\ f \in Lines /\ run.passed \in Nat /\ run.failed \in Nat
  BY DEF OneRun, Lines
<1>2. CASE out = <<>> /\ (run.killed \/ (run.passed = 0 /\ run.failed = 0))
  BY <1>1, <1>2, NoneAt
<1>3. CASE out = <<p>> /\ ~run.killed /\ run.failed = 0
  <2>1. out \in Seq(Lines) /\ DOMAIN out = {1} /\ out[1] = p
    BY <1>1, <1>3
  <2>2. LastOf(out, "pass") = run.passed
    BY <2>1, LastAt
  <2>3. LastOf(out, "fail") = 0
    BY <2>1, NoneAt
  <2> QED BY <2>2, <2>3, <1>3
<1>4. CASE out = <<f>> /\ ~run.killed /\ run.passed = 0
  <2>1. out \in Seq(Lines) /\ DOMAIN out = {1} /\ out[1] = f
    BY <1>1, <1>4
  <2>2. LastOf(out, "fail") = run.failed
    BY <2>1, LastAt
  <2>3. LastOf(out, "pass") = 0
    BY <2>1, NoneAt
  <2> QED BY <2>2, <2>3, <1>4
<1>5. CASE out = <<p, f>> /\ ~run.killed
  <2>1. out \in Seq(Lines) /\ DOMAIN out = {1, 2} /\ out[1] = p /\ out[2] = f
    BY <1>1, <1>5
  <2>2. LastOf(out, "fail") = run.failed
    BY <2>1, LastAt
  <2>3. LastOf(out, "pass") = run.passed
    BY <2>1, LastAt
  <2> QED BY <2>2, <2>3, <1>5
<1>6. \/ out = <<>> /\ (run.killed \/ (run.passed = 0 /\ run.failed = 0))
      \/ out = <<p>> /\ ~run.killed /\ run.failed = 0
      \/ out = <<f>> /\ ~run.killed /\ run.passed = 0
      \/ out = <<p, f>> /\ ~run.killed
  <2>1. CASE run.killed
    BY <2>1 DEF Summary
  <2>2. CASE ~run.killed
    <3>1. out = (IF run.passed > 0 \/ runner \in TapRunners THEN <<p>> ELSE <<>>)
                \o (IF run.failed > 0 \/ runner \in TapRunners THEN <<f>> ELSE <<>>)
      BY <2>2 DEF Summary, Line
    <3>2. /\ <<>> \o <<>> = <<>> /\ <<p>> \o <<>> = <<p>>
          /\ <<>> \o <<f>> = <<f>> /\ <<p>> \o <<f>> = <<p, f>>
      <4>1. <<p>> \in Seq(Lines) /\ <<f>> \in Seq(Lines) /\ <<>> \in Seq(Lines)
        BY <1>1
      <4>2. <<p>> \o <<f>> = <<p, f>>
        BY <1>1, JoinedPair
      <4> QED BY <4>1, <4>2, ConcatEmptySeq
    <3>3. (run.passed > 0 \/ run.passed = 0) /\ (run.failed > 0 \/ run.failed = 0)
      BY <1>1
    <3> QED BY <2>2, <3>1, <3>2, <3>3
  <2> QED BY <2>1, <2>2
<1> QED BY <1>2, <1>3, <1>4, <1>5, <1>6

\* A console that cannot be mistaken for the summary.
Quiet(runner, c, killed) ==
  c.said = "none" \/ (runner \in TapRunners /\ c.said \in {"pass", "fail"} /\ c.on # "stderr" /\ ~killed)

\* What such a console leaves of the output is the summary.
LEMMA OutputRead ==
  ASSUME NEW runner, NEW run \in OneRun, NEW c, Quiet(runner, c, run.killed)
  PROVE  parseRun(runner, Output(runner, run, c))
         = [passed |-> IF run.killed THEN 0 ELSE run.passed,
            failed |-> IF run.killed THEN 0 ELSE run.failed]
<1> DEFINE out == Output(runner, run, c)
           p == [what |-> "pass", n |-> run.passed]
           f == [what |-> "fail", n |-> run.failed]
<1>1. Summary(runner, run) \in Seq(Lines)
  <2>1. /\ Line("pass", run.passed) \in Seq(Lines) /\ Line("fail", run.failed) \in Seq(Lines)
        /\ <<>> \in Seq(Lines)
    BY DEF Line, Lines, OneRun
  <2> QED BY <2>1, ConcatProperties DEF Summary
<1>2. CASE c.said = "none" \/ c.on \notin {"stdout", "stderr"}
  <2>1. Said(c, "stdout") = <<>> /\ Said(c, "stderr") = <<>>
    BY <1>2 DEF Said
  <2>2. out = Summary(runner, run)
    BY <1>1, <2>1, ConcatEmptySeq, EmptySeq DEF Output
  <2> QED BY <2>2, SummaryRead DEF parseRun
<1>3. CASE c.said # "none" /\ c.on = "stdout"
  <2> DEFINE said == [what |-> c.said, n |-> 2]
  <2>1. Said(c, "stdout") = <<said>> /\ Said(c, "stderr") = <<>>
    BY <1>3 DEF Said, Line
  <2>2. runner \in TapRunners /\ ~run.killed /\ runner # "jest"
    BY <1>3 DEF Quiet, TapRunners
  <2>3. said \in Lines /\ p \in Lines /\ f \in Lines
    BY <1>3 DEF Quiet, Lines, OneRun
  <2>4. Summary(runner, run) = <<p>> \o <<f>>
    BY <2>2 DEF Summary, Line
  <2>5. Summary(runner, run) = <<p, f>>
    BY <2>3, <2>4, JoinedPair
  <2>6. <<said, p, f>> \in Seq(Lines) /\ <<said>> \o <<p, f>> = <<said, p, f>>
    BY <2>3, JoinedTriple
  <2>7. out = <<said>> \o <<p, f>> \o <<>>
    BY <2>1, <2>2, <2>5 DEF Output
  <2>8. out = <<said, p, f>>
    BY <2>6, <2>7, ConcatEmptySeq
  <2>9. /\ out \in Seq(Lines) /\ DOMAIN out = {1, 2, 3}
        /\ out[2] = p /\ out[3] = f
    BY <2>3, <2>8
  <2>10. LastOf(out, "fail") = run.failed
    BY <2>9, LastAt
  <2>11. LastOf(out, "pass") = run.passed
    BY <2>9, LastAt
  <2> QED BY <2>2, <2>10, <2>11 DEF parseRun
<1>4. CASE c.said # "none" /\ c.on = "stderr"
  BY <1>4 DEF Quiet
<1> QED BY <1>2, <1>3, <1>4

\* What is counted of a run whose console stays apart from its summary: a failure
\* only where a test failed, a pass only where one passed, nothing where nothing
\* ran.
LEMMA RunRead ==
  ASSUME NEW runner \in Runners, NEW run \in OneRun, NEW c, NEW j,
         runner = "gradle" \/ Quiet(runner, c, run.killed)
  PROVE  LET seen == runOne(runner, run, c, j)
             lost == run.killed \/ (runner = "gradle" /\ gradleTask(j) # RunsUnder(j))
         IN  seen.passed = (IF lost THEN 0 ELSE run.passed) /\ seen.failed = IF lost THEN 0 ELSE run.failed
<1>1. CASE runner = "gradle"
  BY <1>1 DEF runOne, parseGradleResults, Reached, OneRun
<1>2. CASE runner # "gradle"
  <2> DEFINE wrapped == FileWrapper(runner, run)
             counts == parseRun(runner, Output(runner, wrapped, c))
  <2>1. wrapped \in OneRun /\ wrapped.killed = run.killed /\ wrapped.failed = run.failed
    BY DEF FileWrapper, OneRun
  <2>2. counts = [passed |-> IF run.killed THEN 0 ELSE wrapped.passed,
                  failed |-> IF run.killed THEN 0 ELSE wrapped.failed]
    BY <1>2, <2>1, OutputRead
  <2>3. runOne(runner, run, c, j) = nodeEffectiveCounts(runner, run, counts)
    BY <1>2 DEF runOne
  <2>4. CASE runner = "node22" /\ ~run.killed /\ run.passed + run.failed = 0
    <3>1. run.passed = 0 /\ run.failed = 0
      BY <2>4 DEF OneRun
    <3> QED BY <3>1, <1>2, <2>1, <2>2, <2>3, <2>4 DEF nodeEffectiveCounts
  <2>5. CASE ~(runner = "node22" /\ ~run.killed /\ run.passed + run.failed = 0)
    <3>1. wrapped = run
      BY <2>5 DEF FileWrapper
    <3>2. run.passed + run.failed = 0 => run.passed = 0 /\ run.failed = 0
      BY DEF OneRun
    <3> QED BY <3>1, <3>2, <1>2, <2>2, <2>3 DEF nodeEffectiveCounts
  <2> QED BY <2>4, <2>5
<1> QED BY <1>1, <1>2

-----------------------------------------------------------------------------
(***************************************************************************)
(* What is gutted is what runs.                                            *)
(***************************************************************************)
\* The declaration a receiver's call is credited with is the one it dispatches to.
LEMMA CreditedDispatches ==
  ASSUME NEW r, Receivable(r), r.via \notin Namespaces, ~Misdispatched(r)
  PROVE  Credits(r) \subseteq Dispatched(r)
<1>1. CASE r.lang = "js"
  <2> SUFFICES ASSUME jsInstanceSuts(r) PROVE "own" \in Dispatched(r)
    BY <1>1 DEF Credits
  <2>1. r.homes = 1 /\ r.head = "plain" /\ ownPlainMember(r)
    BY DEF jsInstanceSuts, jsCreditTypeMethod
  <2>2. r.stir = "none"
    BY <1>1 DEF jsInstanceSuts, jsCreditTypeMethod, Receivable, Stirs
  <2>3. r.via = "inline" \/ r.made = "new"
    BY DEF jsInstanceSuts, inferReceiverTypeFromCtor
  <2>4. ~r.factory
    BY <1>1 DEF Receivable
  <2>5. MadeHere(r)
    BY <2>1, <2>2, <2>3, <2>4 DEF MadeHere
  <2>6. "own" \in r.sites /\ "overload" \notin r.sites
    BY <2>1 DEF ownPlainMember, Counted, Sites
  <2>7. "assigned" \notin r.sites
    BY <1>1 DEF Misdispatched, Reassigned
  <2> QED BY <1>1, <2>1, <2>5, <2>6, <2>7 DEF Dispatched
<1>2. CASE r.lang # "js"
  <2> SUFFICES ASSUME jvmInstanceSuts(r) PROVE "own" \in Dispatched(r)
    BY <1>2 DEF Credits
  <2>1. r.homes = 1 /\ r.head = "plain" /\ ownPlainMember(r) /\ r.parent # "far"
    BY DEF jvmInstanceSuts, jvmCreditTypeMethod, supertypeClear
  <2>2. r.stir = "none"
    BY <1>2 DEF Misdispatched, Unguarded
  <2>3. r.via = "inline" \/ r.made = "new"
    BY DEF jvmInstanceSuts, inferReceiverTypeFromCtor
  <2>4. ~r.factory
    BY <1>2 DEF jvmInstanceSuts, jvmCreditTypeMethod, Receivable
  <2>5. MadeHere(r)
    BY <2>1, <2>2, <2>3, <2>4 DEF MadeHere
  <2>6. "own" \in r.sites /\ "overload" \notin r.sites
    BY <2>1 DEF ownPlainMember, Counted, Sites
  <2>7. "assigned" \notin r.sites
    BY <1>2 DEF Receivable
  <2> QED BY <1>2, <2>1, <2>5, <2>6, <2>7 DEF Dispatched
<1> QED BY <1>1, <1>2

\* A set with one element.
LEMMA Only ==
  ASSUME NEW S, IsFiniteSet(S), Cardinality(S) = 1
  PROVE  \E x : S = {x}
BY FS_Singleton

LEMMA FilesAndKindsFinite == IsFiniteSet(Files) /\ IsFiniteSet(Kinds) /\ IsFiniteSet(Files \X Kinds)
<1>1. Files = {"a"} \cup {"b"} \cup {"s"} \cup {"p"} \cup {"q"}
  BY DEF Files
<1>2. Kinds = {"function"} \cup {"wrapped"} \cup {"class"} \cup {"inner"} \cup {"method"}
              \cup {"overload"}
  BY DEF Kinds
<1>3. IsFiniteSet(Files) /\ IsFiniteSet(Kinds)
  BY <1>1, <1>2, FS_Singleton, FS_Union
<1> QED BY <1>3, FS_Product

\* An exported declaration that is a plain function is the one that is located.
LEMMA LocatedIsExported ==
  ASSUME NEW w, w.sites \subseteq Files \X Kinds, w.lang \in {"js", "python"}, NEW f,
         Exported(w, f) # {}, \A site \in Exported(w, f) : site[2] \notin {"wrapped", "class"}
  PROVE  {<<f, k>> : k \in locateBody(w.lang, KindsIn(w, f))} \subseteq Exported(w, f)
<1> DEFINE kinds == KindsIn(w, f)
           sigs == kinds \cap jsSigRegex(w.lang)
<1>1. f \in w.exports /\ Exported(w, f) = {<<f, k>> : k \in kinds \cap TopKinds}
  BY DEF Exported
<1>2. PICK k \in kinds \cap TopKinds : TRUE
  BY <1>1
<1>3. <<f, k>> \in Exported(w, f) /\ <<f, k>>[2] = k
  BY <1>1, <1>2
<1>4. k = "function"
  BY <1>2, <1>3 DEF TopKinds
<1>5. "function" \in sigs /\ <<f, "function">> \in Exported(w, f)
  BY <1>2, <1>3, <1>4 DEF jsSigRegex
<1>6. IsFiniteSet(sigs)
  <2>1. kinds \subseteq Kinds
    BY DEF KindsIn
  <2> QED BY <2>1, FilesAndKindsFinite, FS_Subset
<1>7. CASE Cardinality(sigs) = 1
  <2>1. sigs = {"function"}
    BY <1>5, <1>6, <1>7, Only
  <2>2. locateBody(w.lang, kinds) = {"function"}
    BY <1>7, <2>1 DEF locateBody
  <2> QED BY <1>5, <2>2
<1>8. CASE Cardinality(sigs) # 1
  <2>1. locateBody(w.lang, kinds) = {}
    BY <1>5, <1>8 DEF locateBody
  <2> QED BY <2>1
<1> QED BY <1>7, <1>8

\* The runtime loads one file.
LEMMA LoadedFile ==
  ASSUME NEW w, Importable(w), Loaded(w) # {}
  PROVE  \E l \in {"a", "b", "s"} : Loaded(w) = {l}
<1>1. w.disk \subseteq {"a", "b", "s"}
  BY DEF Importable
<1> QED BY <1>1 DEF Loaded, Preferred

\* Without twins, builds and conditions the file the search stops at, for a
\* declaration or for a re-export, is the one that is loaded, whichever the walk
\* meets first.
LEMMA FoundIsLoaded ==
  ASSUME NEW w, Importable(w), ~Twins(w), ~Built(w), ~Conditional(w), NEW l, Loaded(w) = {l},
         NEW fs, NEW f \in FirstMet(w, fs), fs = Direct(w) \/ (Direct(w) = {} /\ fs = Barrels(w))
  PROVE  f = l
<1> SUFFICES ASSUME f # l PROVE FALSE
  OBVIOUS
<1>1. f \in fs /\ f \in Targets(w) /\ Offers(w, f)
  BY DEF FirstMet, Direct, Barrels, Offers
<1>2. /\ w.disk \subseteq {"a", "b", "s"} /\ w.src \subseteq w.disk /\ w.first \in {"a", "b"}
      /\ w.spec \in {"relative", "alias", "targets", "conditions", "dep"}
  BY DEF Importable
<1>3. CASE w.spec \in {"relative", "alias"} /\ f # "s"
  <2>1. f \in w.src \cap {"a", "b"}
    BY <1>1, <1>2, <1>3 DEF Targets, Swapped
  <2>2. f # w.first /\ l \in w.src /\ Declares(w, l)
    BY <1>1, <1>3, <2>1 DEF Twins
  <2>3. l # "s"
    BY <1>2, <2>1 DEF Loaded, Preferred
  <2>4. l \in Targets(w)
    BY <1>3, <2>2, <2>3 DEF Targets, Swapped
  <2>5. l \in Direct(w) /\ l \in fs
    BY <2>2, <2>4 DEF Direct
  <2>6. w.first \notin fs
    BY <2>2 DEF FirstMet
  <2> QED BY <1>2, <2>1, <2>2, <2>3, <2>5, <2>6, <1>1
<1>4. CASE w.spec \in {"relative", "alias"} /\ f = "s"
  <2>1. CASE w.spec = "relative"
    <3>1. w.src \subseteq {"s"} /\ "s" \in w.src
      BY <1>1, <1>4, <2>1 DEF Targets, Swapped
    <3> QED BY <1>4, <2>1, <3>1 DEF Built
  <2>2. CASE w.spec = "alias"
    BY <1>1, <1>2, <1>4, <2>2 DEF Targets, Swapped, Loaded
  <2> QED BY <1>4, <2>1, <2>2
<1>5. CASE w.spec = "targets"
  <2>1. "s" \notin w.disk
    BY <1>5 DEF Importable
  <2> QED BY <1>1, <1>2, <1>5, <2>1 DEF Targets, Preferred, Loaded
<1>6. CASE w.spec = "conditions"
  BY <1>1, <1>6 DEF Targets, Conditional
<1>7. CASE w.spec = "dep"
  BY <1>1, <1>7 DEF Targets
<1> QED BY <1>2, <1>3, <1>4, <1>5, <1>6, <1>7

\* A file that re-exports the name: the declaration gutted in the target that is
\* followed is the one that is bound.
LEMMA FollowedIsBound ==
  ASSUME NEW w, Importable(w), ~Mistaken(w), w.lang = "js", NEW l \in Files, Loaded(w) = {l},
         ~Declares(w, l), NEW t \in followReexportOnce(w, l)
  PROVE  GuttedIn(w, t) \subseteq Bound(w)
<1>1. /\ Bound(w) = ScriptBinding(w) /\ Bound(w) # {} /\ w.sites \subseteq Files \X Kinds
      /\ \A site \in Bound(w) : site[2] \notin {"wrapped", "class"}
  BY DEF Bound, Mistaken, Misnamed, Wrapped, Importable
<1>2. \A x : Exported(w, x) # {} => Declares(w, x)
  BY DEF Exported, Declares, TopKinds, declRe
<1>3. Exported(w, l) = {} /\ Bound(w) = Binding(w, l)
  BY <1>1, <1>2 DEF ScriptBinding
<1>4. reexportHits(w, l) \subseteq Files
  BY <1>1 DEF reexportHits, Declares, KindsIn
<1>5. reexportHits(w, l) = {t}
  <2>1. IsFiniteSet(reexportHits(w, l))
    BY <1>4, FilesAndKindsFinite, FS_Subset
  <2>2. Cardinality(reexportHits(w, l)) = 1 /\ t \in reexportHits(w, l)
    BY DEF followReexportOnce
  <2> QED BY <2>1, <2>2, Only
<1>6. l \notin w.whole
  <2>1. t \in To(w.named \cup w.renamed \cup w.stars, l)
    BY <1>5 DEF reexportHits, To
  <2> QED BY <2>1 DEF Importable, To
<1>7. Bound(w) = Exported(w, t)
  <2>1. CASE To(w.named, l) # {}
    <3>1. t \in To(w.named, l)
      BY <1>5, <2>1 DEF reexportHits
    <3>2. To(w.named, l) = {t}
      BY <3>1 DEF Importable, To
    <3>3. Bound(w) = UNION {Exported(w, x) : x \in To(w.named, l)}
      BY <1>3, <1>6, <2>1 DEF Binding
    <3> QED BY <3>2, <3>3
  <2>2. CASE To(w.named, l) = {}
    <3> DEFINE exporting == {x \in To(w.stars, l) : Exported(w, x) # {}}
    <3>1. t \in To(w.stars, l)
      BY <1>5, <2>2 DEF reexportHits
    <3>2. To(w.renamed, l) = {}
      BY <3>1 DEF Mistaken, AliasedStar
    <3>3. Bound(w) = IF Cardinality(exporting) = 1
                     THEN UNION {Exported(w, x) : x \in exporting} ELSE {}
      BY <1>3, <1>6, <2>2, <3>2 DEF Binding
    <3>4. exporting \subseteq reexportHits(w, l)
      BY <1>2, <2>2 DEF reexportHits
    <3>5. exporting # {}
      BY <1>1, <3>3
    <3>6. exporting = {t}
      BY <1>5, <3>4, <3>5
    <3>7. Bound(w) = UNION {Exported(w, x) : x \in exporting}
      BY <1>1, <3>3
    <3> QED BY <3>6, <3>7
  <2> QED BY <2>1, <2>2
<1> QED BY <1>1, <1>7, LocatedIsExported DEF GuttedIn

\* A file found by a declaration in it: the declaration gutted is the one bound.
LEMMA DeclaredIsBound ==
  ASSUME NEW w, Importable(w), ~Mistaken(w), w.lang \in {"js", "python"}, NEW l, Loaded(w) = {l},
         Declares(w, l), l \notin w.whole
  PROVE  GuttedIn(w, l) \subseteq Bound(w)
<1>1. /\ Bound(w) = Binding(w, l) /\ w.sites \subseteq Files \X Kinds
      /\ \A site \in Bound(w) : site[2] \notin {"wrapped", "class"}
  BY DEF Bound, ScriptBinding, Mistaken, Misnamed, Wrapped, Importable
<1>2. Exported(w, l) # {}
  BY DEF Mistaken, Shadowed
<1>3. Bound(w) = Exported(w, l)
  BY <1>1, <1>2 DEF Binding
<1> QED BY <1>1, <1>2, <1>3, LocatedIsExported DEF GuttedIn

\* The one declaration in all files a JVM test reaches is the one bound.
LEMMA OnlyDeclarationIsBound ==
  ASSUME NEW w, Importable(w), ~Mistaken(w), w.lang = "jvm", NEW g \in Resolved(w)
  PROVE  GuttedIn(w, g) \subseteq Bound(w)
<1> DEFINE decls == {s \in w.sites : s[1] \in w.src /\ s[2] \in declRe("jvm")}
<1>1. w.direct /\ Bound(w) # {} /\ w.sites \subseteq Files \X Kinds
  BY DEF Mistaken, Misnamed, Importable
<1>2. Cardinality(decls) = 1 /\ g \in {s[1] : s \in decls}
  BY DEF Resolved, resolveJvmSut
<1>3. IsFiniteSet(decls)
  BY <1>1, FilesAndKindsFinite, FS_Subset
<1>4. PICK only : decls = {only}
  BY <1>2, <1>3, Only
<1>5. only \in w.sites /\ only = <<only[1], only[2]>> /\ g = only[1] /\ g \in w.src
  BY <1>1, <1>2, <1>4
<1>6. ASSUME NEW k \in locateBody(w.lang, KindsIn(w, g)) PROVE <<g, k>> = only
  <2>1. k \in KindsIn(w, g) /\ k \in jsSigRegex("jvm")
    BY <1>6 DEF locateBody
  <2>2. <<g, k>> \in w.sites
    BY <1>1, <2>1 DEF KindsIn
  <2>3. <<g, k>>[1] \in w.src /\ <<g, k>>[2] \in declRe("jvm")
    BY <1>5, <2>1 DEF jsSigRegex, declRe
  <2> QED BY <1>4, <2>2, <2>3
<1>7. Bound(w) \subseteq {s \in w.sites : s[1] \in w.src /\ s[2] \in {"function", "overload"}}
  BY <1>1 DEF Bound
<1>8. Bound(w) \subseteq decls
  BY <1>7 DEF declRe
<1>9. Bound(w) = {only}
  BY <1>1, <1>4, <1>8
<1> QED BY <1>6, <1>9 DEF GuttedIn

\* The declaration the mutant replaces in a resolved file is the one the call runs,
\* in every world of files outside the shapes of Mistaken, where the file is not
\* one value.
LEMMA GuttedIsBound ==
  ASSUME NEW w, Importable(w), ~Mistaken(w), NEW g \in Resolved(w), g \in w.whole => ~OneValue(w)
  PROVE  GuttedIn(w, g) \subseteq Bound(w)
<1>1. CASE w.lang = "jvm"
  BY <1>1, OnlyDeclarationIsBound
<1>2. CASE w.lang \in {"js", "python"}
  <2>1. Loaded(w) # {}
    BY <1>2 DEF Importable, Bound, ScriptBinding, Mistaken, Misnamed
  <2>2. PICK l \in {"a", "b", "s"} : Loaded(w) = {l}
    BY <2>1, LoadedFile
  <2>3. l \in Files /\ ~Twins(w) /\ ~Built(w) /\ ~Conditional(w)
    BY DEF Files, Mistaken
  <2>4. CASE g \in FirstMet(w, Direct(w))
    <3>1. g = l
      BY <2>2, <2>3, <2>4, FoundIsLoaded
    <3>2. Declares(w, l)
      BY <2>4, <3>1 DEF FirstMet, Direct
    <3>3. l \notin w.whole
      BY <2>2, <3>1, <3>2 DEF OneValue
    <3> QED BY <1>2, <2>2, <3>1, <3>2, <3>3, DeclaredIsBound
  <2>5. CASE w.lang = "js" /\ Direct(w) = {}
    <3>1. PICK f \in FirstMet(w, Barrels(w)) : g \in followReexportOnce(w, f)
      BY <2>5 DEF Resolved, resolveSpecMember
    <3>2. f = l
      BY <2>2, <2>3, <2>5, <3>1, FoundIsLoaded
    <3>3. ~Declares(w, l)
      BY <2>5, <3>1, <3>2 DEF FirstMet, Barrels, Direct
    <3> QED BY <2>2, <2>3, <2>5, <3>1, <3>2, <3>3, FollowedIsBound
  <2>6. g \in FirstMet(w, Direct(w)) \/ (w.lang = "js" /\ Direct(w) = {})
    BY <1>2 DEF Resolved, resolveSpecMember, resolvePySut
  <2> QED BY <2>4, <2>5, <2>6
<1> QED BY <1>1, <1>2 DEF Importable

-----------------------------------------------------------------------------
(***************************************************************************)
(* The state of one probe.                                                 *)
(***************************************************************************)
\* The inductive invariant: no function is in a phase twice, survivors are
\* judged again only after the last one was gutted, and past selection the
\* title has passed the second stage.
IInv ==
  /\ TypeOK /\ Possible(sc)
  /\ eligible \subseteq pinned
  /\ pc \in {"analyse", "select"} => reds = {} /\ greens = {} /\ todo = {}
  /\ pc = "gut" => todo \cap (reds \cup greens) = {}
  /\ pc = "opposite" => todo \subseteq greens
  /\ pc \notin {"opposite", "fold", "done"} => oppReds = {}
  /\ pc \in {"gut", "opposite", "fold"} => ~Residual(sc.runner, sc.bs, Mine)

LEMMA InitIInv == Init => IInv
<1> SUFFICES ASSUME Init PROVE IInv
  OBVIOUS
<1>1. Possible(sc)
  BY FamiliesAssumption DEF Init
<1> QED BY <1>1 DEF Init, IInv, TypeOK, Rows

LEMMA PinnedFns ==
  ASSUME Possible(sc) PROVE pinned \subseteq Fns
BY CreditCalled DEF Possible, pinned, ValueCredit, relationalOnly

LEMMA NextIInv == IInv /\ [Next]_vars => IInv'
<1> SUFFICES ASSUME IInv, [Next]_vars PROVE IInv'
  OBVIOUS
<1> USE DEF IInv
<1>1. sc' = sc /\ Possible(sc)'
  BY DEF Next, vars, SourceSet, Skip, Link, AmbiguousTitle, Baseline, Gut, Verify,
         GutOpposite, Fold, Possible
<1>2. pinned' = pinned
  BY <1>1 DEF pinned
<1>3. \A fn : Located(fn)' = Located(fn)
  BY <1>1 DEF Located, ByNamespace
<1>4. Residual(sc.runner, sc.bs, Mine)' = Residual(sc.runner, sc.bs, Mine)
  BY <1>1
<1>5. \A counts : baseline(counts) \in {"green", "failing", "didNotRun"}
  BY DEF baseline
<1>6. CASE SourceSet
  BY <1>6, <1>1, <1>2, <1>3, <1>4 DEF SourceSet, Report, TypeOK, Rows
<1>7. CASE Skip
  BY <1>7, <1>1, <1>2, <1>3, <1>4 DEF Skip, Analysed, Report, TypeOK, Rows
<1>8. CASE Link
  <2>1. Found \subseteq pinned /\ Found \subseteq Fns /\ \A fn \in Found : Located(fn)
    BY PinnedFns DEF Found
  <2> QED BY <2>1, <1>8, <1>1, <1>2, <1>3, <1>4 DEF Link, Analysed, TypeOK, Rows
<1>9. CASE AmbiguousTitle
  BY <1>9, <1>1, <1>2, <1>3, <1>4 DEF AmbiguousTitle, Report, TypeOK, Rows
<1>10. CASE Baseline
  BY <1>10, <1>1, <1>2, <1>3, <1>4, <1>5 DEF Baseline, Report, TypeOK, Rows
<1>11. CASE Gut
  <2>1. PICK fn \in todo :
          LET seen == IF ~Mutable(fn) THEN "none" ELSE evidence(MutantRun(fn, "gross"))
          IN  /\ reds' = IF seen = "red" THEN reds \cup {fn} ELSE reds
              /\ greens' = IF seen = "green" THEN greens \cup {fn} ELSE greens
              /\ todo' = todo \ {fn}
    BY <1>11 DEF Gut
  <2>2. \/ (reds' = reds /\ greens' = greens)
        \/ (reds' = reds \cup {fn} /\ greens' = greens)
        \/ (reds' = reds /\ greens' = greens \cup {fn})
    BY <2>1
  <2> QED BY <2>1, <2>2, <1>11, <1>1, <1>2, <1>3, <1>4 DEF Gut, TypeOK, Rows
<1>12. CASE Verify
  BY <1>12, <1>1, <1>2, <1>3, <1>4 DEF Verify, Report, TypeOK, Rows
<1>13. CASE GutOpposite
  <2>1. CASE todo = {}
    BY <2>1, <1>13, <1>1, <1>2, <1>3, <1>4 DEF GutOpposite, TypeOK, Rows
  <2>2. CASE todo # {}
    <3>1. PICK fn \in todo :
            /\ (oppReds' = oppReds \/ oppReds' = oppReds \cup {fn})
            /\ todo' = todo \ {fn}
      BY <2>2, <1>13 DEF GutOpposite
    <3> QED BY <3>1, <2>2, <1>13, <1>1, <1>2, <1>3, <1>4 DEF GutOpposite, TypeOK, Rows
  <2> QED BY <2>1, <2>2
<1>14. CASE Fold
  BY <1>14, <1>1, <1>2, <1>3, <1>4 DEF Fold, Report, TypeOK, Rows
<1>15. CASE UNCHANGED vars
  BY <1>15, <1>1, <1>2, <1>3, <1>4 DEF vars, TypeOK, Rows
<1> QED
  BY <1>6, <1>7, <1>8, <1>9, <1>10, <1>11, <1>12, <1>13, <1>14, <1>15 DEF Next

LEMMA Invariance == Spec => []IInv
BY InitIInv, NextIInv, PTL DEF Spec

\* Type correctness, for every set of scenarios: the functions judged are located
\* ones, none is both red and green, a survivor is judged again only after its
\* green.
THEOREM TypeCorrect == Spec => []TypeOK
<1>1. IInv => TypeOK
  BY DEF IInv
<1> QED BY <1>1, Invariance, PTL

\* The fold accuses only over value pins: the conviction rule of the fold.
LEMMA BlindIsValue ==
  ASSUME IInv PROVE blindFns \subseteq ValueCredit(sc.how, sc.body)
BY DEF IInv, TypeOK, blindFns, blindAll, pinned

\* A test is accused over a function only when an equality it states compares a
\* value computed by it, for bodies of any length (the scanners of prove.mjs).
THEOREM AccusationsAreCompared == Spec => []AccusedIsCompared
<1>1. IInv => AccusedIsCompared
  BY BlindIsValue, CreditCompared DEF AccusedIsCompared, IInv, Possible
<1> QED BY <1>1, Invariance, PTL

\* In a file without a describe a run of one block selects that block alone,
\* under every runner and for titles of any length (the two-stage check).
THEOREM FlatFilesAreNotSwept == Spec => []SweepNeedsDescribe
<1>1. IInv => SweepNeedsDescribe
  <2> SUFFICES ASSUME IInv, pc \in {"gut", "opposite", "fold"},
                      \A i \in DOMAIN sc.bs : sc.bs[i].under = <<>>
               PROVE  ~Swept
    BY DEF SweepNeedsDescribe
  <2>1. 1 \in DOMAIN sc.bs
    BY DEF IInv, Possible
  <2>2. ASSUME NEW j \in Selected(sc.runner, sc.bs, Mine) PROVE j = Mine
    <3>1. j \in DOMAIN sc.bs
      BY DEF Selected
    <3> QED BY <3>1, <2>1, FlatSelection DEF IInv, Possible, Mine, Titled
  <2> QED BY <2>2 DEF Swept, Others
<1> QED BY <1>1, Invariance, PTL

-----------------------------------------------------------------------------
(***************************************************************************)
(* What the phases remember of the runs.                                   *)
(***************************************************************************)
AtHead == baseline(Run(Broken, "base"))
OppositeRed(fn) == HasOpposite /\ evidence(MutantRun(fn, "opposite")) = "red"

History ==
  /\ pc \in {"gut", "opposite", "fold"} \/ row \in {"caught", "hollow"} => AtHead = "green"
  /\ row = "failing" => AtHead = "failing"
  /\ row = "caught" => reds # {}
  /\ \A fn \in reds : evidence(MutantRun(fn, "gross")) = "red"
  /\ \A fn \in greens : Mutable(fn) /\ evidence(MutantRun(fn, "gross")) = "green"
  /\ pc = "opposite" => \A fn \in greens \ (todo \cup oppReds) : ~OppositeRed(fn)
  /\ (pc = "fold" /\ reds = {}) \/ row = "hollow" => \A fn \in greens \ oppReds : ~OppositeRed(fn)

LEMMA InitHistory == Init => History
BY DEF Init, History

LEMMA NextHistory == IInv /\ History /\ [Next]_vars => History'
<1> SUFFICES ASSUME IInv, History, [Next]_vars PROVE History'
  OBVIOUS
<1>1. sc' = sc
  BY DEF Next, vars, SourceSet, Skip, Link, AmbiguousTitle, Baseline, Gut, Verify,
         GutOpposite, Fold
<1>2. /\ Typed' = Typed /\ gutValueFor' = gutValueFor /\ Compiles' = Compiles
      /\ HasOpposite' = HasOpposite
  BY <1>1 DEF Typed, gutValueFor, Compiles, HasOpposite
<1>3. \A fn : GutSites(fn)' = GutSites(fn) /\ RunsSites(fn)' = RunsSites(fn)
  BY <1>1 DEF GutSites, RunsSites, ByNamespace
<1>4. \A fn : Mutable(fn)' = Mutable(fn)
  BY <1>2, <1>3 DEF Mutable
<1>5. AtHead' = AtHead
  BY <1>1 DEF AtHead, Run, Broken, Runs, Skipped, FailsAtHead, Mine
<1>6. \A fn : /\ MutantRun(fn, "gross")' = MutantRun(fn, "gross")
              /\ MutantRun(fn, "opposite")' = MutantRun(fn, "opposite")
  BY <1>1, <1>2, <1>3
     DEF MutantRun, Reddens, Run, Broken, Runs, Skipped, FailsAtHead, Mine
<1>7. \A fn : OppositeRed(fn)' = OppositeRed(fn)
  BY <1>2, <1>6 DEF OppositeRed
<1>8. row = "none" \/ pc = "done"
  BY DEF IInv, TypeOK
<1> USE <1>1, <1>4, <1>5, <1>6, <1>7, <1>8
<1> HIDE DEF AtHead
<1>9. CASE SourceSet \/ Skip \/ Link \/ AmbiguousTitle
  BY <1>9 DEF SourceSet, Skip, Link, Analysed, AmbiguousTitle, Report, History, IInv, TypeOK
<1>10. CASE Baseline
  <2>1. AtHead \in {"green", "failing", "didNotRun"} /\ reds = {} /\ greens = {}
    BY <1>10 DEF AtHead, baseline, Baseline, IInv
  <2> QED BY <1>10, <2>1 DEF Baseline, AtHead, Report, History
<1>11. CASE Gut
  <2>1. PICK fn \in todo :
          LET seen == IF ~Mutable(fn) THEN "none" ELSE evidence(MutantRun(fn, "gross"))
          IN  /\ reds' = IF seen = "red" THEN reds \cup {fn} ELSE reds
              /\ greens' = IF seen = "green" THEN greens \cup {fn} ELSE greens
    BY <1>11 DEF Gut
  <2>2. \A x \in reds' : evidence(MutantRun(x, "gross")) = "red"
    BY <2>1 DEF History
  <2>3. \A x \in greens' : Mutable(x) /\ evidence(MutantRun(x, "gross")) = "green"
    BY <2>1 DEF History
  <2> QED BY <1>11, <2>2, <2>3 DEF Gut, History, IInv, TypeOK
<1>12. CASE Verify
  <2>1. pc = "gut" /\ row = "none"
    BY <1>12 DEF Verify
  <2>2. UNCHANGED <<reds, greens, oppReds>>
    BY <1>12 DEF Verify
  <2>3. CASE reds # {} \/ greens = {}
    BY <1>12, <2>1, <2>2, <2>3 DEF Verify, History
  <2>4. CASE reds = {} /\ greens # {} /\ baseline(Recheck) = "green"
    BY <1>12, <2>1, <2>2, <2>4 DEF Verify, History
  <2>5. CASE reds = {} /\ greens # {} /\ baseline(Recheck) # "green"
    BY <1>12, <2>1, <2>2, <2>5 DEF Verify, History, Report
  <2> QED BY <2>3, <2>4, <2>5
<1>13. CASE GutOpposite
  <2>1. CASE todo = {}
    BY <1>13, <2>1 DEF GutOpposite, History, IInv, TypeOK
  <2>2. CASE todo # {}
    <3>1. PICK fn \in todo :
            /\ oppReds' = IF OppositeRed(fn) THEN oppReds \cup {fn} ELSE oppReds
            /\ todo' = todo \ {fn}
      BY <1>13, <2>2 DEF GutOpposite, OppositeRed
    <3>2. \A x \in greens \ (todo' \cup oppReds') : ~OppositeRed(x)
      BY <1>13, <3>1 DEF GutOpposite, History
    <3> QED BY <1>13, <2>2, <3>2 DEF GutOpposite, History, IInv, TypeOK
  <2> QED BY <2>1, <2>2
<1>14. CASE Fold
  <2>1. pc = "fold" /\ UNCHANGED <<reds, greens, oppReds>> /\ pc' = "done"
    BY <1>14 DEF Fold, Report
  <2>2. row' # "failing" /\ (row' = "caught" => reds # {}) /\ (row' = "hollow" => reds = {})
    BY <1>14 DEF Fold, Report
  <2> QED BY <2>1, <2>2 DEF History
<1>15. CASE UNCHANGED vars
  BY <1>15 DEF vars, History
<1> QED
  BY <1>9, <1>10, <1>11, <1>12, <1>13, <1>14, <1>15 DEF Next

LEMMA HistoryHolds == Spec => [](IInv /\ History)
<1>1. IInv /\ History /\ [Next]_vars => (IInv /\ History)'
  BY NextIInv, NextHistory
<1> QED BY InitIInv, InitHistory, <1>1, PTL DEF Spec

-----------------------------------------------------------------------------
(***************************************************************************)
(* The verdicts.                                                           *)
(***************************************************************************)
Reaches == sc.runner = "gradle" => gradleTask(sc.place) = RunsUnder(sc.place)
Counts(stage) == Mine \in Runs /\ sc.own # "skip" /\ stage \notin sc.kills /\ Reaches

\* A run that selects our block alone, on a console that is quiet, counts one test.
LEMMA OneTestRun ==
  ASSUME Possible(sc), ~Swept, ~Spoofed, NEW failed, NEW stage
  PROVE  /\ Run(failed, stage).passed = IF Counts(stage) /\ Mine \notin failed THEN 1 ELSE 0
         /\ Run(failed, stage).failed = IF Counts(stage) /\ Mine \in failed THEN 1 ELSE 0
<1> DEFINE ran == {i \in Runs : ~Skipped(i)}
           run == [passed |-> Cardinality(ran \ failed), failed |-> Cardinality(ran \cap failed),
                   killed |-> stage \in sc.kills]
<1>1. Runs \subseteq {Mine}
  BY DEF Swept, Others, Runs
<1>2. ran = IF Mine \in Runs /\ sc.own # "skip" THEN {Mine} ELSE {}
  BY <1>1 DEF Skipped
<1>3. ran \ failed = (IF Mine \in Runs /\ sc.own # "skip" /\ Mine \notin failed THEN {Mine} ELSE {})
  BY <1>2
<1>4. ran \cap failed = (IF Mine \in Runs /\ sc.own # "skip" /\ Mine \in failed THEN {Mine} ELSE {})
  BY <1>2
<1>5. Cardinality({Mine}) = 1 /\ Cardinality({}) = 0
  BY FS_Singleton, FS_EmptySet
<1>6. /\ run.passed = IF Mine \in Runs /\ sc.own # "skip" /\ Mine \notin failed THEN 1 ELSE 0
      /\ run.failed = IF Mine \in Runs /\ sc.own # "skip" /\ Mine \in failed THEN 1 ELSE 0
      /\ run.killed = (stage \in sc.kills)
  BY <1>3, <1>4, <1>5
<1>7. run \in OneRun
  <2>1. run.passed \in Nat /\ run.failed \in Nat /\ run.killed \in BOOLEAN
    BY <1>6
  <2> QED BY <2>1 DEF OneRun
<1>8. sc.runner = "gradle" \/ Quiet(sc.runner, sc.console, run.killed)
  BY <1>6 DEF Spoofed, Spoofable, Quiet, Possible, TapRunners
<1>9. Run(failed, stage) = runOne(sc.runner, run, sc.console, sc.place)
  BY DEF Run
<1> HIDE DEF run
<1>10. LET lost == run.killed \/ (sc.runner = "gradle" /\ gradleTask(sc.place) # RunsUnder(sc.place))
       IN  /\ Run(failed, stage).passed = (IF lost THEN 0 ELSE run.passed)
           /\ Run(failed, stage).failed = IF lost THEN 0 ELSE run.failed
  BY <1>7, <1>8, <1>9, RunRead DEF Possible
<1> QED BY <1>6, <1>10 DEF Counts, Reaches

\* hollow and proven are said of a test that passed before the mutant, failing of
\* one that failed (the baseline gate of prove()), when the run selects the block
\* alone and its text is not read as the runner's.
THEOREM VerdictsJudgeTheTest == Spec => []JudgedByItself
<1>1. IInv /\ History => JudgedByItself
  <2> SUFFICES ASSUME IInv, History, ~Swept, ~Spoofed
               PROVE  /\ row \in {"hollow", "caught"} => sc.own = "pass"
                      /\ row = "failing" => sc.own = "fail"
    BY DEF JudgedByItself
  <2>1. Possible(sc) /\ Mine \in DOMAIN sc.bs
    BY DEF IInv, Possible, Mine
  <2> DEFINE seen == Run(Broken, "base")
  <2>2. /\ seen.passed = IF Counts("base") /\ Mine \notin Broken THEN 1 ELSE 0
        /\ seen.failed = IF Counts("base") /\ Mine \in Broken THEN 1 ELSE 0
    BY <2>1, OneTestRun
  <2>3. (Mine \in Broken) <=> (sc.own = "fail")
    BY <2>1 DEF Broken, FailsAtHead
  <2>4. AtHead = baseline(seen)
    BY DEF AtHead
  <2>5. AtHead = "green" => Counts("base") /\ Mine \notin Broken
    BY <2>2, <2>4 DEF baseline
  <2>6. AtHead = "failing" => Mine \in Broken
    BY <2>2, <2>4 DEF baseline
  <2>7. row \in {"hollow", "caught"} => sc.own = "pass"
    BY <2>1, <2>3, <2>5 DEF History, Counts, Possible
  <2>8. row = "failing" => sc.own = "fail"
    BY <2>3, <2>6 DEF History
  <2> QED BY <2>7, <2>8
<1> QED BY <1>1, HistoryHolds, PTL

\* A test that passed on the source and reddens under a mutant notices it.
LEMMA RedNotices ==
  ASSUME IInv, ~Swept, ~Spoofed, sc.own = "pass", NEW fn, NEW stage,
         evidence(MutantRun(fn, stage)) = "red"
  PROVE  fn \in Notices(sc.body, stage)
<1> DEFINE failed == Broken \cup {i \in DOMAIN sc.bs : Reddens(i, fn, stage)}
<1>1. MutantRun(fn, stage).failed > 0
  BY DEF evidence
<1>2. MutantRun(fn, stage) = Run(failed, stage)
  BY DEF MutantRun
<1>3. Mine \in failed
  BY <1>1, <1>2, OneTestRun DEF IInv
<1>4. Mine \notin Broken
  BY DEF Broken, FailsAtHead
<1> QED BY <1>3, <1>4 DEF Reddens

\* A proven test noticed a mutant itself, when it was the only one selected and
\* nothing was read into its own text.
THEOREM ProvenNotices == Spec => []ProvenByItself
<1>1. IInv /\ History /\ JudgedByItself => ProvenByItself
  <2> SUFFICES ASSUME IInv, History, JudgedByItself, row = "caught", ~Swept, ~Spoofed
               PROVE  reds \cap Notices(sc.body, "gross") # {}
    BY DEF ProvenByItself
  <2>1. PICK fn \in reds : evidence(MutantRun(fn, "gross")) = "red"
    BY DEF History
  <2>2. sc.own = "pass"
    BY DEF JudgedByItself
  <2> QED BY <2>1, <2>2, RedNotices
<1> QED BY <1>1, HistoryHolds, VerdictsJudgeTheTest, PTL

\* Outside the named shapes the declaration that is gutted is one the call runs.
LEMMA GutsWhatRuns ==
  ASSUME Possible(sc), ~Misresolved, NEW fn, GutSites(fn) # {}
  PROVE  GutSites(fn) \cap RunsSites(fn) # {}
<1>1. CASE fn = "g"
  BY <1>1 DEF GutSites, RunsSites
<1>2. CASE fn # "g" /\ sc.how = "bare"
  <2>1. \A g \in Resolved(sc.lib) : GuttedIn(sc.lib, g) \subseteq Bound(sc.lib)
    BY <1>2, GuttedIsBound DEF Possible, Misresolved, Misread
  <2>2. GutSites(fn) = Gutted(sc.lib) /\ RunsSites(fn) = Bound(sc.lib)
    BY <1>2 DEF GutSites, RunsSites
  <2> QED BY <2>1, <2>2 DEF Gutted
<1>3. CASE fn # "g" /\ ByNamespace
  <2>1. /\ GutSites(fn) = UNION {GuttedIn(sc.lib, g) : g \in jsNamespaceSuts(sc.recv, sc.lib)}
        /\ sc.how # "bare" /\ sc.recv.via \in Namespaces
    BY <1>3 DEF GutSites, ByNamespace
  <2>2. PICK g \in jsNamespaceSuts(sc.recv, sc.lib) : GuttedIn(sc.lib, g) # {}
    BY <2>1
  <2>3. RunsSites(fn) = Bound(sc.lib)
    BY <1>3, <2>1, <2>2 DEF RunsSites, Untouched, jsNamespaceSuts
  <2>4. g \in Resolved(sc.lib)
    BY <2>1, <2>2 DEF jsNamespaceSuts, Resolved, Possible
  <2>5. ~Mistaken(sc.lib) /\ (g \in sc.lib.whole => ~OneValue(sc.lib))
    BY <1>3, <2>1, <2>2 DEF Misresolved, MisreadMember, Misread, jsNamespaceSuts, Namespaces
  <2>6. GuttedIn(sc.lib, g) \subseteq Bound(sc.lib)
    BY <2>4, <2>5, GuttedIsBound DEF Possible
  <2>7. GuttedIn(sc.lib, g) \subseteq GutSites(fn)
    BY <2>1, <2>2
  <2> QED BY <2>2, <2>3, <2>6, <2>7
<1>4. CASE fn # "g" /\ sc.how # "bare" /\ ~ByNamespace
  <2>1. Credits(sc.recv) \subseteq Dispatched(sc.recv)
    BY <1>4, CreditedDispatches DEF Possible, Misresolved, ByNamespace
  <2> QED BY <1>4, <2>1 DEF GutSites, RunsSites
<1> QED BY <1>1, <1>2, <1>3, <1>4

\* No false hollow: outside the named shapes of resolution, dispatch, selection and
\* output an accused test passes over every mutant of every function it is accused of
\* whose run did not time out.
THEOREM AccusedTestsAreBlind == Spec => []NoFalseHollow
<1>1. IInv /\ History /\ JudgedByItself => NoFalseHollow
  <2> SUFFICES ASSUME IInv, History, JudgedByItself, row = "hollow", ~Misresolved, ~Swept,
                      ~Spoofed, NEW fn \in blindFns
               PROVE  /\ fn \notin Notices(sc.body, "gross")
                      /\ HasOpposite /\ "opposite" \notin sc.kills
                           => fn \notin Notices(sc.body, "opposite")
    BY DEF NoFalseHollow
  <2>1. Possible(sc) /\ Mine \in DOMAIN sc.bs
    BY DEF IInv, Possible, Mine
  <2>2. fn \in greens /\ fn \notin oppReds
    BY DEF blindFns, blindAll
  <2>3. Mutable(fn) /\ evidence(MutantRun(fn, "gross")) = "green" /\ ~OppositeRed(fn)
    BY <2>2 DEF History
  <2>4. GutSites(fn) \cap RunsSites(fn) # {} /\ gutValueFor # "boolean"
    BY <2>1, <2>3, GutsWhatRuns DEF Mutable, gutValueFor
  <2> DEFINE failed(stage) == Broken \cup {i \in DOMAIN sc.bs : Reddens(i, fn, stage)}
  <2>5. ASSUME NEW stage, fn \in Notices(sc.body, stage) PROVE Mine \in failed(stage)
    BY <2>1, <2>4, <2>5 DEF Reddens
  <2>6. \A stage : MutantRun(fn, stage) = Run(failed(stage), stage)
    BY DEF MutantRun
  <2>7. Counts("gross") /\ Mine \notin failed("gross")
    <3>1. Run(failed("gross"), "gross").passed > 0
      BY <2>3, <2>6 DEF evidence
    <3> QED BY <2>1, <3>1, OneTestRun
  <2>8. fn \notin Notices(sc.body, "gross")
    BY <2>5, <2>7
  <2>9. ASSUME HasOpposite, "opposite" \notin sc.kills, fn \in Notices(sc.body, "opposite")
        PROVE  FALSE
    <3>1. Mine \in failed("opposite")
      BY <2>5, <2>9
    <3>2. Counts("opposite")
      BY <2>7, <2>9 DEF Counts
    <3>3. Run(failed("opposite"), "opposite").failed = 1
      BY <2>1, <3>1, <3>2, OneTestRun
    <3>4. evidence(MutantRun(fn, "opposite")) = "red"
      BY <2>6, <3>3 DEF evidence
    <3> QED BY <2>3, <2>9, <3>4 DEF OppositeRed
  <2> QED BY <2>8, <2>9
<1> QED BY <1>1, HistoryHolds, VerdictsJudgeTheTest, PTL
-----------------------------------------------------------------------------
(***************************************************************************)
(* Refinement of the ledger.                                               *)
(***************************************************************************)
\* The verdict of the fold is one the ledger lets what was seen back.
LEMMA FoldIsBacked ==
  ASSUME IInv, Fold
  PROVE  row' \in Rows \ {"none"} /\ Ledger!Backed(row', Shown)
<1>1. row' \in {"caught", "hollow", "oneSided", "relUnbound", "zeroTests", "ungutable",
               "sutUnresolved"}
  BY DEF Fold, Report
<1>2. row' = "caught" => reds # {}
  BY DEF Fold, Report
<1>3. row' = "hollow" => greens # {}
  BY DEF Fold, Report, blindFns, blindAll
<1>4. row' = "oneSided" => greens # {}
  BY DEF Fold, Report, IInv, TypeOK
<1>5. row' \in {"ungutable", "sutUnresolved"} => reds = {} /\ greens = {}
  BY DEF Fold, Report, IInv, TypeOK, blindAll
<1> QED BY <1>1, <1>2, <1>3, <1>4, <1>5 DEF Shown, Ledger!Backed, Rows

\* A record made while the block was pending is a decision of the ledger.
LEMMA ReportDecides ==
  ASSUME row = "none", row' \in Rows \ {"none"}, Ledger!Backed(row', Shown),
         UNCHANGED <<reds, greens>>
  PROVE  Ledger!Decide(Mine)
<1>1. Mine \in {Mine} /\ row' # "none"
  OBVIOUS
<1>2. Shown' = Shown
  BY DEF Shown
<1> QED BY <1>1, <1>2 DEF Ledger!Decide

\* Nothing is seen and nothing decided: a step of the prober between its runs.
LEMMA QuietStutters ==
  ASSUME UNCHANGED <<row, reds, greens>>
  PROVE  UNCHANGED Ledger!ledgerStateVars
BY DEF Ledger!ledgerStateVars, Shown

LEMMA StepRefines == IInv /\ [Next]_vars => [Ledger!Next]_(Ledger!ledgerStateVars)
<1> SUFFICES ASSUME IInv, [Next]_vars
             PROVE  Ledger!Decide(Mine) \/ Ledger!Observe(Mine)
                    \/ UNCHANGED Ledger!ledgerStateVars
  BY DEF Ledger!Next
<1>1. pc # "done" => row = "none"
  BY DEF IInv, TypeOK
<1>2. ASSUME row' \in {"sourceSet", "noPin", "pinUnresolved", "ambiguous", "failing",
                       "didNotRun", "flaky"}, UNCHANGED <<reds, greens>>, pc # "done"
      PROVE  Ledger!Decide(Mine)
  BY <1>1, <1>2, ReportDecides DEF Ledger!Backed, Rows
<1>3. CASE SourceSet
  BY <1>2, <1>3 DEF SourceSet, Report
<1>4. CASE Skip
  <2>1. Shown = {} /\ pc = "analyse" /\ UNCHANGED <<reds, greens>>
    BY <1>4 DEF Skip, Analysed, IInv, Shown
  <2>2. row' \in {"sutUnresolved", "pinUnresolved", "noPin"}
    BY <1>4 DEF Skip, Report
  <2> QED BY <1>1, <2>1, <2>2, ReportDecides DEF Ledger!Backed, Rows
<1>5. CASE Link
  BY <1>5, QuietStutters DEF Link
<1>6. CASE AmbiguousTitle
  BY <1>2, <1>6 DEF AmbiguousTitle, Report
<1>7. CASE Baseline
  <2>1. \/ row' = row
        \/ row' \in {"failing", "didNotRun"}
    BY <1>7 DEF Baseline, Report, baseline
  <2> QED BY <1>2, <1>7, <2>1, QuietStutters DEF Baseline
<1>8. CASE Gut
  <2>1. row = "none" /\ row' = "none"
    BY <1>1, <1>8 DEF Gut
  <2>2. \/ UNCHANGED <<reds, greens>>
        \/ Shown' = Shown \cup {"red"}
        \/ Shown' = Shown \cup {"green"}
    BY <1>8 DEF Gut, Shown
  <2>3. ASSUME NEW run \in {"red", "green"}, Shown' = Shown \cup {run}
        PROVE  Ledger!Observe(Mine)
    BY <2>1, <2>3 DEF Ledger!Observe
  <2> QED BY <2>1, <2>2, <2>3, QuietStutters
<1>9. CASE Verify
  <2>1. row' = row \/ row' = "flaky"
    BY <1>9 DEF Verify, Report
  <2> QED BY <1>2, <1>9, <2>1, QuietStutters DEF Verify
<1>10. CASE GutOpposite
  BY <1>10, QuietStutters DEF GutOpposite
<1>11. CASE Fold
  <2>1. row = "none" /\ UNCHANGED <<reds, greens>>
    BY <1>1, <1>11 DEF Fold
  <2> QED BY <1>11, <2>1, FoldIsBacked, ReportDecides
<1>12. CASE UNCHANGED vars
  BY <1>12, QuietStutters DEF vars
<1> QED
  BY <1>3, <1>4, <1>5, <1>6, <1>7, <1>8, <1>9, <1>10, <1>11, <1>12 DEF Next

\* The probe of one block is the abstract ledger of that block: what the verdicts
\* of the record rest on (foldBlock and the gates before it, mutation/prove.mjs).
THEOREM BlockRefinement == Spec => ImplementsLedger
<1>1. Init => Ledger!Init
  BY DEF Init, Ledger!Init, Shown
<1> QED BY <1>1, StepRefines, Invariance, PTL DEF Spec, ImplementsLedger, Ledger!Spec
=============================================================================
