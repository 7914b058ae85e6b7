---------------------------- MODULE ProbeLedger ----------------------------
(***************************************************************************)
(* What the probe engine promises to the readers of its result, with none  *)
(* of its passes, queues and budgets: every block ends with exactly one    *)
(* verdict, a verdict never changes, the mutant runs it rests on were all  *)
(* seen before it, and the result is returned when no block is left.       *)
(***************************************************************************)
CONSTANTS Blocks, Verdicts

VARIABLES
  ledger,  \* the verdict of each block, or "pending"
  seen,    \* what mutant runs of each block have shown so far
  closed   \* the result has been returned

ledgerStateVars == <<ledger, seen, closed>>

Init ==
  /\ ledger = [b \in Blocks |-> "pending"]
  /\ seen = [b \in Blocks |-> {}]
  /\ closed = FALSE

\* What must have been seen for a verdict that accuses or clears a test.  The
\* other verdicts say the engine could not tell, and need nothing.
Backed(v, outcomes) ==
  /\ v = "caught" => "red" \in outcomes
  /\ v = "hollow" => "green" \in outcomes
  /\ v = "oneSided" => outcomes # {}
  /\ v \in {"ungutable", "sutUnresolved"} => outcomes = {}

Observe(b) ==
  /\ ~closed /\ ledger[b] = "pending"
  /\ \E run \in {"red", "green"} : seen' = [seen EXCEPT ![b] = @ \cup {run}]
  /\ UNCHANGED <<ledger, closed>>

Decide(b) ==
  /\ ~closed /\ ledger[b] = "pending"
  /\ \E v \in Verdicts : Backed(v, seen[b]) /\ ledger' = [ledger EXCEPT ![b] = v]
  /\ UNCHANGED <<seen, closed>>

Close ==
  /\ ~closed /\ \A b \in Blocks : ledger[b] # "pending"
  /\ closed' = TRUE
  /\ UNCHANGED <<ledger, seen>>

Next == Close \/ \E b \in Blocks : Observe(b) \/ Decide(b)

Spec == Init /\ [][Next]_ledgerStateVars
=============================================================================
