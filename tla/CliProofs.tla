------------------------------ MODULE CliProofs ------------------------------
(***************************************************************************)
(* Theorems about Cli, for any commands: what the exit code and the scope of *)
(* a call answer for.                                                      *)
(*                                                                         *)
(* The properties speak of a finished call; IInv says what its runs of     *)
(* prove() have been at every step before.                                 *)
(***************************************************************************)
EXTENDS Cli, SequenceTheorems, TLAPS

\* The first results of a call; what was found in them.
Before == 1 .. Len(results) - 1
Finds(res) == res.hollow \/ res.shadow

\* A refused run finds nothing, and in a diff without a changed file there is
\* nothing to find.
Consistent ==
  \A i \in 1 .. Len(results) :
    /\ results[i].scopeError # "none" => ~Finds(results[i])
    /\ Finds(results[i]) => results[i].changed \/ results[i].scope # "diff"
    /\ results[i].hollow => results[i].scored

\* Where the call stands: how many runs it has made, and of which kind.
Stands ==
  /\ pc \in {"usage", "selfcheck", "prove", "explain"} => results = <<>>
  /\ pc = "fallback" => Len(results) = 1 /\ Since(args)
  /\ pc \in {"widen", "full"} => Len(results) \in 1 .. 2 /\ Since(args)
  /\ pc \in {"report", "explained"} => Len(results) \in 1 .. 3
  /\ pc = "full" => MayWiden(args)
  /\ pc \in {"selfcheck", "prove", "fallback", "widen", "full", "report"} => args.command = "probe"
  /\ pc \in {"explain", "explained"} => args.command = "explain"
  /\ pc # "done" => printed = Nothing

\* Nothing was found before the last run, nor in it once the call widens or
\* falls back.
Quiet ==
  /\ pc \in {"widen", "report"} => \A i \in Before : ~Finds(results[i])
  /\ pc \in {"fallback", "full"} => ~Found

\* The runs that a call may widen are all of its diff.
InDiff == pc \in {"fallback", "widen", "full"} => \A i \in 1 .. Len(results) : results[i].scope = "diff"

IInv == TypeOK /\ Consistent /\ Stands /\ Quiet /\ InDiff /\ DiffKept /\ ExitTruthful

LEMMA InitInv == Init => IInv
  <1> SUFFICES ASSUME Init PROVE IInv
    OBVIOUS
  <1>1. TypeOK
    BY DEF Init, TypeOK, Steps, Nothing, Running
  <1>2. Consistent /\ Stands /\ Quiet /\ InDiff
    BY DEF Init, Consistent, Stands, Quiet, InDiff, Nothing
  <1>3. DiffKept /\ ExitTruthful
    BY DEF Init, DiffKept, ExitTruthful, Nothing
  <1> QED
    BY <1>1, <1>2, <1>3 DEF IInv

\* The next statement of main: nothing of the call's outcome changes.
LEMMA GotoKeeps ==
  ASSUME IInv, NEW label \in Steps \ {"done"}, pc # "done", Goto(label), Stands', Quiet', InDiff'
  PROVE  IInv'
  <1>1. TypeOK'
    BY DEF IInv, TypeOK, Goto
  <1>2. Consistent' /\ DiffKept'
    BY DEF IInv, Goto, Consistent, Finds, DiffKept, Since
  <1>3. ExitTruthful'
    BY DEF Goto, ExitTruthful
  <1> QED
    BY <1>1, <1>2, <1>3 DEF IInv

\* The end of the call: what it prints and its code are the only news.
LEMMA ExitKeeps ==
  ASSUME IInv, NEW c \in {0, 1, 2},
         NEW what \in {"usage", "refused", "no ref", "nothing changed", "report",
                       "HOLLOW", "not probed", "inconclusive", "PROVEN"},
         Exit(what, c),
         args.command = "probe" => (c = 1 <=> Found) /\ (c = 0 => results # <<>> /\ r.scopeError = "none")
  PROVE  IInv'
  <1>1. TypeOK'
    BY DEF IInv, TypeOK, Exit, Steps
  <1>2. Consistent' /\ DiffKept'
    BY DEF IInv, Exit, Consistent, Finds, DiffKept, Since
  <1>3. Stands' /\ Quiet' /\ InDiff'
    BY DEF Exit, Stands, Quiet, InDiff
  <1>4. ExitTruthful'
    BY DEF Exit, ExitTruthful, Found, r
  <1> QED
    BY <1>1, <1>2, <1>3, <1>4 DEF IInv

LEMMA Codes == 2 # 1 /\ 2 # 0 /\ 0 # 1
  OBVIOUS

\* A call given up on before it found anything.
LEMMA GiveUp ==
  ASSUME IInv, NEW what \in {"usage", "refused", "no ref"}, Exit(what, 2), ~Found
  PROVE  IInv'
  <1>1. (2 = 1 <=> Found) /\ (2 = 0 => results # <<>> /\ r.scopeError = "none")
    BY Codes, Zenon
  <1>2. what # "report" /\ what \in {"usage", "refused", "no ref", "nothing changed", "report",
                                    "HOLLOW", "not probed", "inconclusive", "PROVEN"}
    OBVIOUS
  <1> QED
    BY <1>1, <1>2, ExitKeeps

\* What prove() returns is a result, consistent with itself, of the scope asked for.
LEMMA ReturnedResult ==
  ASSUME NEW scope \in Scopes, NEW res,
         res \in Runs(scope) \cup {Refusal(scope, why) : why \in {"ref", "held", "path"}}
  PROVE  /\ res \in Results /\ res.scope = scope
         /\ res.scopeError # "none" => ~Finds(res)
         /\ Finds(res) => res.changed \/ res.scope # "diff"
         /\ res.hollow => res.scored
  <1>1. CASE res \in Runs(scope)
    BY <1>1 DEF Runs, Results, Finds
  <1>2. CASE \E why \in {"ref", "held", "path"} : res = Refusal(scope, why)
    BY <1>2 DEF Refusal, Results, Finds, Scopes
  <1> QED
    BY <1>1, <1>2

\* One more run of prove(): the results so far stay as they are.
LEMMA OneMore ==
  ASSUME TypeOK, NEW res \in Results, NEW label, Returned(res, label)
  PROVE  /\ results' \in Seq(Results) /\ Len(results') = Len(results) + 1 /\ Len(results) \in Nat
         /\ \A i \in 1 .. Len(results) : results'[i] = results[i]
         /\ results'[Len(results')] = res /\ results' # <<>>
  <1>1. results' = Append(results, res) /\ results \in Seq(Results)
    BY DEF Returned, TypeOK
  <1>2. Len(results) \in Nat
    BY <1>1, LenProperties
  <1>3. /\ Len(results') = Len(results) + 1 /\ results' \in Seq(Results) /\ results' # <<>>
        /\ results'[Len(results) + 1] = res
        /\ \A i \in 1 .. Len(results) : results'[i] = results[i]
    BY <1>1, AppendProperties
  <1> QED
    BY <1>2, <1>3

LEMMA ReturnedKeeps ==
  ASSUME IInv, NEW scope \in Scopes, NEW res, NEW label \in Steps \ {"done"}, Returned(res, label),
         res \in Runs(scope) \cup {Refusal(scope, why) : why \in {"ref", "held", "path"}},
         pc \in {"prove", "fallback", "full", "explain"}, ~Found,
         scope = "diff" \/ args.command = "explain" \/ ~Since(args) \/ MayWiden(args),
         pc = "explain" <=> label = "explained", label \in {"fallback", "widen", "report", "explained"},
         label = "widen" => scope = "diff" /\ Since(args) /\ pc # "full",
         label = "fallback" => scope = "diff" /\ Since(args) /\ pc = "prove" /\ ~Finds(res)
  PROVE  IInv'
  <1> DEFINE n == Len(results)
  <1>1. /\ res \in Results /\ res.scope = scope
        /\ res.scopeError # "none" => ~Finds(res)
        /\ Finds(res) => res.changed \/ res.scope # "diff"
        /\ res.hollow => res.scored
    BY ReturnedResult
  <1>2. /\ results' \in Seq(Results) /\ Len(results') = n + 1 /\ n \in Nat
        /\ \A i \in 1 .. n : results'[i] = results[i]
        /\ results'[n + 1] = res
    BY <1>1, OneMore DEF IInv
  <1>3. \A i \in 1 .. Len(results') : i \in 1 .. n \/ i = n + 1
    BY <1>2
  <1>4. n <= 2 /\ (pc = "prove" => n = 0) /\ (pc = "fallback" => n = 1)
    BY <1>2 DEF IInv, Stands
  <1>5. /\ args' = args /\ place' = place /\ right' = right /\ printed' = printed /\ code' = code
        /\ pc' = label
    BY DEF Returned
  <1>6. TypeOK'
    <2>1. Len(results') <= 3
      BY <1>2, <1>4
    <2> QED
      BY <1>2, <1>5, <2>1 DEF IInv, TypeOK
  <1>7. Consistent'
    BY <1>1, <1>2, <1>3 DEF IInv, Consistent
  <1>8. Stands'
    BY <1>2, <1>4, <1>5 DEF IInv, Stands, Since, MayWiden
  <1>9. \A i \in 1 .. n : ~Finds(results[i])
    BY DEF Found, Finds
  <1>10. Quiet'
    <2>1. \A i \in 1 .. n : ~Finds(results'[i])
      BY <1>2, <1>9
    <2>2. (Before)' = 1 .. n
      BY <1>2 DEF Before
    <2>3. label = "fallback" => \A i \in 1 .. Len(results') : ~Finds(results'[i])
      BY <1>2, <1>3, <2>1
    <2> QED
      BY <1>5, <2>1, <2>2, <2>3 DEF Quiet, Found, Finds
  <1>11. label \in {"fallback", "widen"} => \A i \in 1 .. n : results[i].scope = "diff"
    BY <1>4 DEF IInv, InDiff
  <1>12. InDiff'
    BY <1>1, <1>2, <1>3, <1>5, <1>11 DEF InDiff
  <1>13. DiffKept'
    <2>1. DiffKept
      BY DEF IInv
    <2>2. DiffKept' \/ scope = "diff"
      BY <1>5, <2>1 DEF DiffKept, MayWiden, Since, IInv, TypeOK, Stands
    <2> QED
      BY <1>1, <1>2, <1>3, <1>5, <2>1, <2>2 DEF DiffKept, Since
  <1>14. ExitTruthful'
    BY <1>5 DEF ExitTruthful
  <1> QED
    BY <1>6, <1>7, <1>8, <1>10, <1>12, <1>13, <1>14 DEF IInv

\* The three outcomes in which the exit code is computed from the last run.
LEMMA LastRun ==
  ASSUME IInv, pc \in {"report", "widen", "explained"}
  PROVE  /\ Len(results) \in Nat /\ Len(results) >= 1 /\ results # <<>> /\ r \in Results
         /\ r.scopeError # "none" => ~Finds(r)
         /\ Finds(r) => r.changed \/ r.scope # "diff"
         /\ r.hollow => r.scored
         /\ pc \in {"report", "widen"} => (Found <=> Finds(r))
         /\ pc = "widen" => r.scope = "diff"
  <1>0. results \in Seq(Results) /\ (Len(results) \in 1 .. 2 \/ Len(results) \in 1 .. 3)
    BY DEF IInv, TypeOK, Stands
  <1>1. results \in Seq(Results) /\ Len(results) \in Nat /\ Len(results) >= 1 /\ Len(results) \in 1 .. Len(results)
    BY <1>0
  <1>2. results # <<>>
    BY <1>1, EmptySeq
  <1>3. r \in Results
    BY <1>1, ElementOfSeq DEF r
  <1>4. pc \in {"report", "widen"} => (Found <=> Finds(r))
    <2> SUFFICES ASSUME pc \in {"report", "widen"} PROVE Found <=> Finds(r)
      OBVIOUS
    <2>1. \A i \in 1 .. Len(results) : i \in Before \/ i = Len(results)
      BY <1>1 DEF Before
    <2>2. \A i \in Before : ~Finds(results[i])
      BY DEF IInv, Quiet
    <2> QED
      BY <1>1, <2>1, <2>2 DEF Found, Finds, r
  <1> QED
    BY <1>1, <1>2, <1>3, <1>4 DEF IInv, Consistent, InDiff, r

\* No run yet.
LEMMA NoneFound == ASSUME results = <<>> PROVE ~Found
  BY DEF Found

LEMMA UsageInv == IInv /\ Usage => IInv'
  <1> SUFFICES ASSUME IInv, Usage PROVE IInv'
    OBVIOUS
  <1>1. pc = "usage" /\ results = <<>> /\ ~Found
    BY NoneFound DEF Usage, IInv, Stands
  <1>2. CASE Exit("usage", 2)
    BY <1>1, <1>2, GiveUp
  <1>3. ASSUME NEW label \in {"explain", "selfcheck"}, Goto(label),
               label = "selfcheck" => args.command = "probe", label = "explain" => args.command = "explain"
        PROVE  IInv'
    <2>1. Stands' /\ Quiet' /\ InDiff'
      BY <1>1, <1>3 DEF Goto, IInv, Stands, Quiet, InDiff, MayWiden, Since
    <2> QED
      BY <1>1, <1>3, <2>1, GotoKeeps DEF Steps
  <1> QED
    BY <1>2, <1>3 DEF Usage

LEMMA StartupInv == IInv /\ Startup => IInv'
  <1> SUFFICES ASSUME IInv, Startup PROVE IInv'
    OBVIOUS
  <1>1. pc = "selfcheck" /\ results = <<>> /\ ~Found /\ args.command = "probe"
    BY NoneFound DEF Startup, IInv, Stands
  <1>2. CASE Exit("refused", 2)
    BY <1>1, <1>2, GiveUp
  <1>3. CASE (args.noSelfCheck \/ SelfCheck(right)) /\ Goto("prove")
    <2>1. Stands' /\ Quiet' /\ InDiff'
      BY <1>1, <1>3 DEF Goto, IInv, Stands, Quiet, InDiff, MayWiden, Since
    <2> QED
      BY <1>1, <1>3, <2>1, GotoKeeps DEF Steps
  <1> QED
    BY <1>2, <1>3 DEF Startup

LEMMA FirstProveInv == IInv /\ FirstProve => IInv'
  <1> SUFFICES ASSUME IInv, FirstProve PROVE IInv'
    OBVIOUS
  <1>1. pc = "prove" /\ results = <<>> /\ ~Found
    BY NoneFound DEF FirstProve, IInv, Stands
  <1>2. CASE args.since = "bad" /\ Returned(Refusal("diff", "ref"), "fallback")
    <2>1. ~Finds(Refusal("diff", "ref"))
      BY DEF Finds, Refusal
    <2> QED
      BY <1>1, <1>2, <2>1, ReturnedKeeps DEF Since, Scopes, Steps
  <1>3. CASE args.since = "good" /\ Prove("diff", "widen")
    BY <1>1, <1>3, ReturnedKeeps DEF Since, Scopes, Steps, Prove
  <1>4. CASE ~Since(args) /\ Prove("full", "report")
    BY <1>1, <1>4, ReturnedKeeps DEF Scopes, Steps, Prove
  <1> QED
    BY <1>2, <1>3, <1>4 DEF FirstProve

LEMMA FallbackInv == IInv /\ Fallback => IInv'
  <1> SUFFICES ASSUME IInv, Fallback PROVE IInv'
    OBVIOUS
  <1>1. pc = "fallback" /\ ~Found /\ Since(args) /\ args.command = "probe" /\ Len(results) = 1
    BY DEF Fallback, IInv, Stands, Quiet
  <1>2. CASE Prove("diff", "widen")
    BY <1>1, <1>2, ReturnedKeeps DEF Scopes, Steps, Prove
  <1>3. CASE Exit("no ref", 2)
    BY <1>1, <1>3, GiveUp
  <1>4. CASE Goto("report")
    <2>1. Stands' /\ InDiff'
      BY <1>1, <1>4 DEF Goto, IInv, Stands, InDiff, MayWiden, Since
    <2>2. \A i \in Before : ~Finds(results[i])
      BY <1>1 DEF Found, Before, Finds
    <2>3. Quiet'
      BY <1>4, <2>2 DEF Goto, Quiet, Before, Finds
    <2> QED
      BY <1>1, <1>4, <2>1, <2>3, GotoKeeps DEF Steps
  <1> QED
    BY <1>2, <1>3, <1>4 DEF Fallback

LEMMA WidenInv == IInv /\ Widen => IInv'
  <1> SUFFICES ASSUME IInv, Widen PROVE IInv'
    OBVIOUS
  <1>1. pc = "widen" /\ args.command = "probe"
    BY DEF Widen, IInv, Stands
  <1>2. /\ results # <<>> /\ (Found <=> Finds(r)) /\ (Finds(r) => r.changed) /\ (r.hollow => r.scored)
        /\ Len(results) \in Nat
    BY <1>1, LastRun
  <1>3. CASE NothingChanged /\ Exit("nothing changed", 0)
    <2>1. ~Found /\ r.scopeError = "none"
      BY <1>2, <1>3 DEF NothingChanged
    <2>2. (0 = 1 <=> Found) /\ (0 = 0 => results # <<>> /\ r.scopeError = "none")
      BY <1>2, <2>1, Codes, Zenon
    <2> QED
      BY <1>3, <2>2, ExitKeeps
  <1>4. CASE Goto("report")
    <2>1. Stands' /\ Quiet' /\ InDiff'
      BY <1>1, <1>4 DEF Goto, IInv, Stands, Quiet, InDiff, MayWiden, Since, Before, Finds
    <2> QED
      BY <1>1, <1>4, <2>1, GotoKeeps DEF Steps
  <1>5. CASE MayWiden(args) /\ NothingFound /\ Goto("full")
    <2>1. ~Found
      BY <1>2, <1>5 DEF NothingFound, Finds
    <2>2. Stands' /\ Quiet' /\ InDiff'
      BY <1>1, <1>5, <2>1 DEF Goto, IInv, Stands, Quiet, InDiff, MayWiden, Since, Found
    <2> QED
      BY <1>1, <1>5, <2>2, GotoKeeps DEF Steps
  <1> QED
    BY <1>3, <1>4, <1>5 DEF Widen

LEMMA FullScanInv == IInv /\ FullScan => IInv'
  <1> SUFFICES ASSUME IInv, FullScan PROVE IInv'
    OBVIOUS
  <1>1. pc = "full" /\ ~Found /\ MayWiden(args)
    BY DEF FullScan, IInv, Stands, Quiet
  <1> QED
    BY <1>1, ReturnedKeeps DEF FullScan, Prove, Scopes, Steps

LEMMA ReportInv == IInv /\ Report => IInv'
  <1> SUFFICES ASSUME IInv, Report PROVE IInv'
    OBVIOUS
  <1>1. pc = "report"
    BY DEF Report
  <1>2. results # <<>> /\ (Found <=> Finds(r)) /\ (r.scopeError # "none" => ~Finds(r))
    BY <1>1, LastRun
  <1>3. /\ ExitCode \in {0, 1, 2} /\ (ExitCode = 1 <=> Found)
        /\ ExitCode = 0 => results # <<>> /\ r.scopeError = "none"
    BY <1>2 DEF ExitCode, Finds
  <1> QED
    BY <1>1, <1>3, ExitKeeps DEF Report

LEMMA ExplainProveInv == IInv /\ ExplainProve => IInv'
  <1> SUFFICES ASSUME IInv, ExplainProve PROVE IInv'
    OBVIOUS
  <1>1. pc = "explain" /\ results = <<>> /\ ~Found /\ args.command = "explain"
    BY NoneFound DEF ExplainProve, IInv, Stands
  <1>2. CASE Exit("usage", 2)
    BY <1>1, <1>2, GiveUp
  <1>3. CASE Prove("file", "explained")
    BY <1>1, <1>3, ReturnedKeeps DEF Scopes, Steps, Prove
  <1> QED
    BY <1>2, <1>3 DEF ExplainProve

LEMMA ExplainInv == IInv /\ Explain => IInv'
  <1> SUFFICES ASSUME IInv, Explain PROVE IInv'
    OBVIOUS
  <1>1. args.command # "probe"
    BY DEF Explain, IInv, Stands
  <1> QED
    BY <1>1, ExitKeeps DEF Explain

LEMMA StutterInv == IInv /\ UNCHANGED vars => IInv'
  <1> SUFFICES ASSUME IInv, UNCHANGED vars PROVE IInv'
    OBVIOUS
  <1>1. TypeOK'
    BY DEF vars, IInv, TypeOK
  <1>2. Consistent' /\ Stands' /\ InDiff'
    BY DEF vars, IInv, Consistent, Stands, InDiff, Finds, Since, MayWiden
  <1>3. Quiet'
    BY DEF vars, IInv, Quiet, Before, Found, Finds
  <1>4. DiffKept' /\ ExitTruthful'
    BY DEF vars, IInv, DiffKept, Since, ExitTruthful, Found, r
  <1> QED
    BY <1>1, <1>2, <1>3, <1>4 DEF IInv

LEMMA NextInv == IInv /\ [Next]_vars => IInv'
  BY UsageInv, StartupInv, FirstProveInv, FallbackInv, WidenInv, FullScanInv, ReportInv, ExplainProveInv,
     ExplainInv, StutterInv DEF Next

LEMMA Invariance == Spec => []IInv
  BY InitInv, NextInv, PTL DEF Spec

\* The state is well typed: no call runs prove() more than three times.
THEOREM CliTypeCorrect == Spec => []TypeOK
  <1>1. IInv => TypeOK
    BY DEF IInv
  <1> QED
    BY <1>1, Invariance, PTL

\* gutcheck.mjs:501: the exit code is 1 exactly when some run of the call found a
\* hollow test or a shadow, and 0 only if its last run was not refused.
THEOREM ExitTheorem == Spec => []ExitTruthful
  <1>1. IInv => ExitTruthful
    BY DEF IInv
  <1> QED
    BY <1>1, Invariance, PTL

\* gutcheck.mjs:476-495: a call that may not be widened, or that renders Markdown,
\* runs over its diff alone.
THEOREM DiffTheorem == Spec => []DiffKept
  <1>1. IInv => DiffKept
    BY DEF IInv
  <1> QED
    BY <1>1, Invariance, PTL
=============================================================================
