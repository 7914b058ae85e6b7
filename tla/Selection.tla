----------------------------- MODULE Selection -----------------------------
(***************************************************************************)
(* Which tests one call of the test runner selects, when the prober means  *)
(* to run a single block: the two-stage collision check of mutation/       *)
(* prove.mjs, the argument testCmdFor passes, and what the runner makes of *)
(* it.                                                                     *)
(*                                                                         *)
(* A title is a sequence of words, a block the words of the describe it    *)
(* stands in (none for a top-level block) and its own title.  Describes    *)
(* are one level deep.  gradle stands for maven too: the names of both are *)
(* fully qualified already.                                                *)
(***************************************************************************)
EXTENDS Naturals, Sequences

Runners == {"node20", "node22", "mocha", "vitest", "jest", "pytest", "ava", "gradle"}

\* The text of title a occurs in title b.
Within(a, b) ==
  \E k \in 0 .. Len(b) : /\ k + Len(a) <= Len(b)
                         /\ SubSeq(b, k + 1, k + Len(a)) = a

\* Only '*' is a wildcard of ava's matcher ("!" behaves like it: it selects others).
avaSpecial(t) == \E i \in 1 .. Len(t) : t[i] = "*"

ExactRunners == {"node20", "node22", "ava", "gradle"}

collidesPair(a, b, runner, anchored) ==
  IF runner \in ExactRunners \/ anchored THEN a = b ELSE Within(a, b) \/ Within(b, a)

\* Stage 1 compares bare titles.
Ambiguous(runner, bs, i) ==
  \/ runner = "ava" /\ avaSpecial(bs[i].name)
  \/ \E j \in DOMAIN bs \ {i} : collidesPair(bs[i].name, bs[j].name, runner, FALSE)

qualifiedName(b) == b.under \o b.name

\* Mutant: stage 2 forgets that mocha's qualified pattern alone is anchored.
AnchoredAlways(runner, bs, i) ==
  /\ Ambiguous(runner, bs, i)
  /\ \/ runner = "ava"
     \/ \E j \in DOMAIN bs \ {i} :
          /\ collidesPair(bs[i].name, bs[j].name, runner, FALSE)
          /\ collidesPair(qualifiedName(bs[i]), qualifiedName(bs[j]), runner, TRUE)

\* Stage 2 compares qualified names, and only of the pairs stage 1 flagged.
Residual(runner, bs, i) ==
  /\ Ambiguous(runner, bs, i)
  /\ \/ runner = "ava"
     \/ \E j \in DOMAIN bs \ {i} :
          /\ collidesPair(bs[i].name, bs[j].name, runner, FALSE)
          /\ collidesPair(qualifiedName(bs[i]), qualifiedName(bs[j]), runner, runner = "mocha")

selectName(runner, bs, i) ==
  IF Ambiguous(runner, bs, i) THEN qualifiedName(bs[i]) ELSE bs[i].name

selectQualified(runner, bs, i) == Ambiguous(runner, bs, i) /\ runner = "mocha"

(***************************************************************************)
(* What the runner selects.  node: the anchored pattern is compared with   *)
(* the name of every level and, from version 22, with the full name; a     *)
(* matching describe brings all of its tests.  vitest, jest, mocha: the    *)
(* pattern is looked for in the full name; anchored, it must be all of it. *)
(***************************************************************************)
Selects(runner, pattern, anchored, b) ==
  \/ runner \in {"node20", "node22", "ava", "gradle"} /\ b.name = pattern
  \/ runner \in {"node20", "node22"} /\ b.under # <<>> /\ b.under = pattern
  \/ runner = "node22" /\ qualifiedName(b) = pattern
  \/ runner = "ava" /\ avaSpecial(pattern)
  \/ runner \in {"vitest", "jest", "mocha"} /\ ~anchored /\ Within(pattern, qualifiedName(b))
  \/ runner = "mocha" /\ anchored /\ qualifiedName(b) = pattern
  \/ runner = "pytest" /\ Within(pattern, b.name)

Selected(runner, bs, i) ==
  {j \in DOMAIN bs :
     Selects(runner, selectName(runner, bs, i), selectQualified(runner, bs, i), bs[j])}
=============================================================================
