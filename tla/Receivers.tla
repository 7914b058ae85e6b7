------------------------------ MODULE Receivers ------------------------------
(***************************************************************************)
(* Calls on a receiver, s.fn(x): which declaration the prober credits      *)
(* (jsInstanceSuts, jsNamespaceSuts and jsCreditTypeMethod of mutation/    *)
(* prove.mjs, jvmInstanceSuts and jvmOwnPlainInstanceMember of jvm.mjs),   *)
(* and which one the call dispatches to.                                   *)
(*                                                                         *)
(* A world r:                                                              *)
(*   lang     "js", "kotlin" or "java"                                     *)
(*   via      how the text reaches the receiver: "variable" (constructed   *)
(*            into a variable), "inline" (new X().fn()), or a namespace,   *)
(*            "esm" (import * as) or "cjs" (require), of the module that   *)
(*            the world w of Resolution is about                           *)
(*   made     "new", "factory", "chained", "anonymous", "twoTypes" or      *)
(*            "unseen": the assignments of the variable                    *)
(*   stir     what else the test file does to the receiver or its class    *)
(*   homes    how often the class is declared in the files it may be in    *)
(*   head     "plain" (with at most a named base), "odd" (a heritage the   *)
(*            scan cannot read: a mixin call, a delegate) or "object"      *)
(*   sites    the declarations of fn in the class's file, see Sites        *)
(*   parent   "none", "far" (a base class in another file declares fn) or  *)
(*            "override" (it does, and own is marked as its override)      *)
(*   factory  a Kotlin fun has the name of the class                       *)
(***************************************************************************)
EXTENDS Resolution

\* mock: a mocking framework is called; param: a callback parameter has the
\* receiver's name; patched: receiver.fn is assigned; proto: X.prototype;
\* localClass: the test file declares or assigns a class (or namespace) X.
Stirs == {"none", "mock", "param", "patched", "proto", "localClass"}

\* own: a plain member of the class itself; nested: inside one of its methods;
\* staticField, staticMethod; sibling: in another class; helper: top-level;
\* extension: fun X.fn; overload: a second own; assigned: the constructor
\* assigns this.fn.
Sites == {"own", "nested", "staticField", "staticMethod", "sibling", "helper",
          "extension", "overload", "assigned"}

\* What the locators of probe.mjs count: a keyword before the name hides a
\* script method; a JVM static is a declaration like any other.
Counted(lang) ==
  IF lang = "js" THEN Sites \ {"staticMethod", "assigned", "extension"}
  ELSE IF lang = "java" THEN Sites \ {"staticField", "assigned", "extension"}
  ELSE Sites \ {"staticField", "staticMethod", "assigned"}

-----------------------------------------------------------------------------
\* The type common to all visible assignments, each a direct constructor call.
inferReceiverTypeFromCtor(r) == r.via = "inline" \/ r.made = "new"

\* The one declaration in the file is the class's own plain member.
ownPlainMember(r) == r.sites \cap Counted(r.lang) = {"own"}

\* A parent that declares fn leaves dispatch open unless own overrides it.
supertypeClear(r) == r.parent # "far"

jsCreditTypeMethod(r) ==
  /\ r.homes = 1 /\ r.head = "plain"
  /\ r.stir \notin {"proto", "localClass"}
  /\ ownPlainMember(r)

jsInstanceSuts(r) ==
  /\ r.stir # "mock"
  /\ r.via = "variable" => r.stir \notin {"param", "patched"}
  /\ inferReceiverTypeFromCtor(r)
  /\ jsCreditTypeMethod(r)

Namespaces == {"esm", "cjs"}
\* A namespace is the module itself: its member is the module's export, resolved
\* like an imported name.  Of a required module the resolved file may not be one
\* value.
jsNamespaceSuts(r, w) ==
  {f \in resolveSpecMember(w) : r.stir = "none" /\ (r.via = "cjs" => f \notin w.whole)}

jvmCreditTypeMethod(r) ==
  /\ r.homes = 1
  /\ r.lang = "kotlin" => ~r.factory
  /\ r.head = "plain"
  /\ ownPlainMember(r)
  /\ supertypeClear(r)

jvmInstanceSuts(r) == inferReceiverTypeFromCtor(r) /\ jvmCreditTypeMethod(r)

\* The declaration of the class that is credited and gutted.
Credits(r) ==
  IF (r.lang = "js" /\ jsInstanceSuts(r)) \/ (r.lang # "js" /\ jvmInstanceSuts(r))
    THEN {"own"} ELSE {}

-----------------------------------------------------------------------------
(***************************************************************************)
(* What the call runs.  A stirred receiver, one not made by the class's    *)
(* own constructor, and a call resolved in another class run something     *)
(* else; where two declarations are left, the other one.                   *)
(***************************************************************************)
MadeHere(r) ==
  /\ r.stir = "none"
  /\ r.via = "inline" \/ r.made = "new"
  /\ ~r.factory /\ r.head # "object"
Dispatched(r) ==
  IF ~MadeHere(r) \/ r.homes # 1 \/ "assigned" \in r.sites THEN {"elsewhere"}
  ELSE IF "own" \notin r.sites \/ (r.parent = "far" /\ r.lang # "js") THEN {"elsewhere"}
  ELSE IF "overload" \in r.sites THEN {"overload"} ELSE {"own"}
\* A namespace nothing in the test file touches.
Untouched(r) == r.stir = "none"

(***************************************************************************)
(* The shapes in which credit and dispatch are known to come apart.        *)
(***************************************************************************)
\* The JVM path looks for neither mocks nor shadowing names in the test file.
Unguarded(r) == r.lang # "js" /\ r.stir # "none"
\* The class's constructor replaces the member on every instance.
Reassigned(r) == r.lang = "js" /\ "assigned" \in r.sites
Misdispatched(r) == Unguarded(r) \/ Reassigned(r)
\* A namespace is misread where a name is, but a required module that is one value
\* is refused.
MisreadMember(r, w) == IF r.via = "cjs" THEN Mistaken(w) ELSE Misread(w)

-----------------------------------------------------------------------------
\* What the languages allow: only script has namespaces and replaced members,
\* only Kotlin functions named like a class.
Receivable(r) ==
  /\ r.lang \in {"js", "kotlin", "java"} /\ r.via \in {"variable", "inline"} \cup Namespaces
  /\ r.stir \in Stirs /\ r.sites \subseteq Sites
  /\ r.via \in Namespaces => r.lang = "js" /\ r.stir # "proto"
  /\ r.via = "inline" => r.stir \notin {"param", "patched"}
  /\ r.lang # "js" => r.stir \notin {"patched", "proto"} /\ "assigned" \notin r.sites
  /\ r.factory => r.lang = "kotlin"
  /\ "extension" \in r.sites => r.lang = "kotlin"
=============================================================================
