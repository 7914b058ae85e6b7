------------------------------ MODULE Linking ------------------------------
(***************************************************************************)
(* Which functions the prober believes a test's assertions pin, and which  *)
(* they really depend on: eligibleFnsDetail and pinnedScanTexts of         *)
(* mutation/prove.mjs over the fragments of mutation/parse-utils.mjs.      *)
(*                                                                         *)
(* A body is a straight line of assignments followed by assertions.  An    *)
(* expression is what the scanners tell apart of one:                      *)
(*   calls      every callee in its text                                   *)
(*   top        the callees outside all brackets                           *)
(*   lead       the callee at its head, if it starts with a call           *)
(*   branching  a ||, &&, ?? or ?: outside all brackets                    *)
(*   live       the callees its value comes from when the test runs        *)
(***************************************************************************)
EXTENDS Naturals, Sequences

Expr(calls, top, lead, branching, live) ==
  [calls |-> calls, top |-> top, lead |-> lead, branching |-> branching, live |-> live]

Literal       == Expr({}, {}, {}, FALSE, {})                          \* 3
Call(f)       == Expr({f}, {f}, {f}, FALSE, {f})                      \* f(x)
Sum(f, g)     == Expr({f, g}, {f, g}, {f}, FALSE, {f, g})             \* f(x) + g(y)
Nested(f, g)  == Expr({f, g}, {f}, {f}, FALSE, {f, g})                \* f(g(x))
Either(f, g)  == Expr({f, g}, {f, g}, {f}, TRUE, {f})                 \* f(x) || g(y)
Known(f)      == Expr({f}, {f}, {}, TRUE, {})                         \* known ?? f(x)
IfKnown(f)    == Expr({f}, {f}, {}, FALSE, {})                        \* if (c) known else f(x)

(***************************************************************************)
(* The assertion forms pinnedFragmentsByKind reads, by the fragment list   *)
(* they feed; every other form feeds none.  strayEqual is X.equal(a, b)    *)
(* with an X the file does not import.                                     *)
(***************************************************************************)
ValueForms == {"toBe", "resolves.toBe", "assert.equal", "aliasedEqual", "strayEqual",
               "should.equal", "assert ==", "assertEquals", "assertThat.isEqualTo"}
RelationalForms == {"toBeGreaterThan", "should.be.above", "assert >", "assert(a > b)",
                    "assertTrue(a > b)", "assertThat.isGreaterThan"}
\* Truthiness, presence, one-argument equal, equal of another module, a > b && c.
UnreadForms == {"toBeDefined", "assert(a)", "X.equal(b)", "lodash.equal", "assert(a > b && c)"}
Forms == ValueForms \cup RelationalForms \cup UnreadForms

pinKind(form) ==
  IF form \in ValueForms THEN "value"
  ELSE IF form \in RelationalForms THEN "relational" ELSE "none"

(***************************************************************************)
(* A body: [lang, assigns, asserts].  An assignment binds its variables    *)
(* ("pair" by destructuring, "set" without a declaration); an assertion    *)
(* mentions variables and an expression.                                   *)
(***************************************************************************)
Frags(body, kind) == {a \in body.asserts : pinKind(a.form) = kind}
Mentioned(body, kind) == UNION {a.vars : a \in Frags(body, kind)}
Inline(body, kind) == UNION {a.expr.calls : a \in Frags(body, kind)}
Binds(body, kind) == {i \in DOMAIN body.assigns :
                        body.assigns[i].vars \cap Mentioned(body, kind) # {}}

\* const, let and var with one name; Kotlin's val is not among them.
ScriptHop(body, kind) ==
  UNION {body.assigns[i].rhs.top : i \in {j \in Binds(body, kind) :
           /\ body.assigns[j].decl \in {"let", "var"}
           /\ ~body.assigns[j].rhs.branching}}

\* Kotlin's val, var and val (a, b): the callee at the head.
KotlinHop(body, kind) ==
  IF body.lang # "kotlin" THEN {}
  ELSE UNION {body.assigns[i].rhs.lead : i \in {j \in Binds(body, kind) :
                body.assigns[j].decl \in {"val", "var", "pair"}}}

\* Mutant: the hop credits a branching right-hand side as well.
EagerCredit(body, kind) ==
  Inline(body, kind) \cup KotlinHop(body, kind)
  \cup UNION {body.assigns[i].rhs.top : i \in {j \in Binds(body, kind) :
                body.assigns[j].decl \in {"let", "var"}}}
creditFrom(body, kind) ==
  Inline(body, kind) \cup ScriptHop(body, kind) \cup KotlinHop(body, kind)

\* Receiver'd calls in script: the fragments and the hops of variables that are
\* assigned once, not counting destructuring, none of them branching.
pinnedScanTexts(body, kind) ==
  {a.expr : a \in Frags(body, kind)}
  \cup {body.assigns[i].rhs : i \in {j \in Binds(body, kind) :
          /\ body.assigns[j].decl \in {"let", "var"}
          /\ \A k \in DOMAIN body.assigns \ {j} :
               body.assigns[k].decl # "pair" => body.assigns[k].vars \cap body.assigns[j].vars = {}}}
memberCredit(body, kind) ==
  UNION {t.calls : t \in {x \in pinnedScanTexts(body, kind) : ~x.branching}}
\* JVM: the fragments alone.
jvmMemberCredit(body, kind) == Inline(body, kind)

Credit(how, body, kind) ==
  CASE how = "bare" -> creditFrom(body, kind)
    [] how = "member" -> memberCredit(body, kind)
    [] how = "jvmMember" -> jvmMemberCredit(body, kind)

ValueCredit(how, body) == Credit(how, body, "value")
relationalOnly(how, body) == Credit(how, body, "relational") \ ValueCredit(how, body)
hadPin(body) == \E a \in body.asserts : pinKind(a.form) # "none"

(***************************************************************************)
(* What running the body means: the last assignment of a variable gives    *)
(* its value, and an assertion notices a mutant of a function its value    *)
(* comes from under the sentinels (bites) that make it fail.               *)
(***************************************************************************)
Last(body, v) == {i \in DOMAIN body.assigns :
                    /\ v \in body.assigns[i].vars
                    /\ \A k \in DOMAIN body.assigns : v \in body.assigns[k].vars => k <= i}
Flows(body, a) ==
  a.expr.live \cup UNION {UNION {body.assigns[i].rhs.live : i \in Last(body, v)} : v \in a.vars}
Notices(body, sentinel) ==
  UNION {Flows(body, a) : a \in {x \in body.asserts : sentinel \in x.bites}}
\* The functions whose value an equality of the body compares.
Compared(body) == UNION {Flows(body, a) : a \in {x \in body.asserts : x.form \in ValueForms}}

(***************************************************************************)
(* The bodies whose values the scanners are known to misread: a variable   *)
(* is assigned twice, or the text of a value holds a call that is not made *)
(* or not used.  (Both scanners pass over a branching right-hand side,     *)
(* except for the call at its head.)                                       *)
(***************************************************************************)
Rebound(body) ==
  \E i, k \in DOMAIN body.assigns : i # k /\ body.assigns[i].vars \cap body.assigns[k].vars # {}
DeadCall(rhs) ==
  ~(rhs.lead \subseteq rhs.live) \/ (~rhs.branching /\ ~(rhs.calls \subseteq rhs.live))
DeadBranch(body) ==
  \/ \E a \in body.asserts : ~(a.expr.calls \subseteq a.expr.live)
  \/ \E i \in DOMAIN body.assigns : DeadCall(body.assigns[i].rhs)

\* The right-hand sides are a sequence; what is outside all brackets, or at the
\* head, is in the text.
WellFormed(body) ==
  /\ DOMAIN body.assigns \subseteq Nat
  /\ \A i \in DOMAIN body.assigns :
       body.assigns[i].rhs.top \cup body.assigns[i].rhs.lead \subseteq body.assigns[i].rhs.calls
Callees(body) ==
  (UNION {a.expr.calls : a \in body.asserts})
  \cup UNION {body.assigns[i].rhs.calls : i \in DOMAIN body.assigns}
=============================================================================
