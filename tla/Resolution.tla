----------------------------- MODULE Resolution -----------------------------
(***************************************************************************)
(* From the name a test calls to the function body the prober guts:        *)
(* importMap, resolveSpecMember and followReexportOnce of mutation/        *)
(* prove.mjs, loadAliases and aliasBases of alias.mjs, resolvePySut,       *)
(* resolveJvmSut, and the locator of probe.mjs; beside them, the           *)
(* declaration the call runs.                                              *)
(*                                                                         *)
(* A world w says what the name fn stands for in the files it could mean:  *)
(*   lang     "js", "python" or "jvm"                                      *)
(*   spec     "relative"; an alias of one base, of several "targets", or   *)
(*            of "conditions"; or "dep"                                    *)
(*   direct   the import binds the exported fn itself (not a default or a  *)
(*            renamed export, not a name found elsewhere)                  *)
(*   disk     the files on disk the specifier can mean                     *)
(*   src      those that are source files to the prober                    *)
(*   first    the one of "a" and "b" the walk of the directory meets first *)
(*   sites    <<file, kind>>: where the text of a file has a fn            *)
(*   exports  the files whose top-level fn is exported                     *)
(*   whole    the files whose module.exports is one value, not an object   *)
(*            literal                                                      *)
(*   named, renamed, stars    <<from, to>>: from re-exports fn, another    *)
(*            name as fn, or everything of to                              *)
(* Files: "a" and "b" in the order the runtime prefers them, "s" the       *)
(* TypeScript source of a .js specifier, "p" and "q" behind a re-export.   *)
(* Kinds: "function" the located top-level function; "wrapped" a top-level *)
(* fn = memo(..); "class"; "inner" a function inside another; "method" of  *)
(* some class; "overload" a second signature of the top-level function.    *)
(***************************************************************************)
EXTENDS Naturals, FiniteSets

Files == {"a", "b", "s", "p", "q"}
Kinds == {"function", "wrapped", "class", "inner", "method", "overload"}

TopKinds == {"function", "wrapped", "class"}
KindsIn(w, f) == {s[2] : s \in {x \in w.sites : x[1] = f}}

declRe(lang) ==
  CASE lang = "js" -> {"function", "wrapped", "class", "inner", "overload"}
    [] lang = "python" -> {"function", "class", "inner", "method", "overload"}
    [] lang = "jvm" -> {"function", "class", "inner", "method", "overload"}
\* The signatures a body is located by.
jsSigRegex(lang) ==
  CASE lang = "js" -> {"function", "inner", "overload"}
    [] lang = "python" -> {"function", "inner", "method", "overload"}
    [] lang = "jvm" -> {"function", "inner", "method", "overload"}
Declares(w, f) == KindsIn(w, f) \cap declRe(w.lang) # {}

To(pairs, f) == {e[2] : e \in {x \in pairs : x[1] = f}}

-----------------------------------------------------------------------------
\* srcFiles holds what walk() found, in its order: of several files it is the one
\* met first that is taken.
FirstMet(w, fs) == IF w.first \in fs THEN {w.first} ELSE fs
\* The runtime has an order of its own.
Preferred(fs) == IF "a" \in fs THEN {"a"} ELSE fs

\* extCandidateKeys; tsSwapKeys only where no literal candidate exists, among the
\* source files for a relative specifier and on disk for an alias.
Swapped(w, there) == IF there \ {"s"} # {} THEN w.src \ {"s"} ELSE w.src
\* Of several targets the first that exists on disk ends the search; of the
\* conditions of a subpath import the default one, "b", is the target.
Targets(w) ==
  CASE w.spec = "relative" -> Swapped(w, w.src)
    [] w.spec = "alias" -> Swapped(w, w.disk)
    [] w.spec = "targets" -> Preferred(w.disk) \cap w.src
    [] w.spec = "conditions" -> {"b"} \cap w.src
    [] w.spec = "dep" -> {}

\* An explicit re-export of the same name outranks the stars; one declaring
\* target or none.
reexportHits(w, f) ==
  LET named == To(w.named, f)
  IN  {t \in IF named # {} THEN named ELSE To(w.stars, f) : Declares(w, t)}
followReexportOnce(w, f) ==
  IF Cardinality(reexportHits(w, f)) = 1 THEN reexportHits(w, f) ELSE {}

\* A direct declaration in any target comes before the hop from any.
Direct(w) == {f \in Targets(w) : Declares(w, f)}
Barrels(w) == {f \in Targets(w) : followReexportOnce(w, f) # {}}
resolveSpecMember(w) ==
  IF Direct(w) # {} THEN FirstMet(w, Direct(w))
  ELSE UNION {followReexportOnce(w, f) : f \in FirstMet(w, Barrels(w))}

\* A module that binds the name as a class and as a def is refused.
resolvePySut(w) ==
  LET doubly(f) == "class" \in KindsIn(w, f) /\ KindsIn(w, f) \cap jsSigRegex("python") # {}
  IN  {f \in FirstMet(w, Direct(w)) : ~doubly(f)}

\* Exactly one declaration in all reachable files together.
resolveJvmSut(w) ==
  LET decls == {s \in w.sites : s[1] \in w.src /\ s[2] \in declRe("jvm")}
  IN  IF Cardinality(decls) = 1 THEN {s[1] : s \in decls} ELSE {}

Resolved(w) ==
  CASE w.lang = "js" -> resolveSpecMember(w)
    [] w.lang = "python" -> resolvePySut(w)
    [] w.lang = "jvm" -> resolveJvmSut(w)

-----------------------------------------------------------------------------
(***************************************************************************)
(* locateBody: several signatures of the name are refused, one is it;      *)
(* without any, script takes a method of the name.  In a JVM file the      *)
(* first is it, a function before its overload.                            *)
(***************************************************************************)
\* Mutant: the first signature is gutted, however many there are.
FirstSignature(lang, kinds) ==
  LET sigs == kinds \cap jsSigRegex(lang)
  IN  IF "inner" \in sigs THEN {"inner"} ELSE IF sigs # {} THEN sigs
      ELSE IF lang = "js" THEN kinds \cap {"method"} ELSE {}
locateBody(lang, kinds) ==
  LET sigs == kinds \cap jsSigRegex(lang)
  IN  IF lang = "jvm" /\ sigs # {}
        THEN {CHOOSE k \in sigs : "function" \in sigs => k = "function"}
      ELSE IF Cardinality(sigs) = 1 THEN sigs
      ELSE IF sigs = {} /\ lang = "js" THEN kinds \cap {"method"} ELSE {}

\* The sites whose body the mutant replaces in a file: none or one.
GuttedIn(w, f) == {<<f, k>> : k \in locateBody(w.lang, KindsIn(w, f))}
Gutted(w) == UNION {GuttedIn(w, f) : f \in Resolved(w)}

-----------------------------------------------------------------------------
(***************************************************************************)
(* What the call runs.  The runtime loads the file it prefers; its own     *)
(* export comes before an explicit re-export, that before the one star     *)
(* target that exports the name.  "other" is a declaration of another      *)
(* name, or a member of the one value a module is.                         *)
(***************************************************************************)
Loaded(w) == IF w.disk \ {"s"} # {} THEN Preferred(w.disk \ {"s"}) ELSE w.disk

Exported(w, f) == IF f \in w.exports THEN {<<f, k>> : k \in KindsIn(w, f) \cap TopKinds} ELSE {}

Binding(w, f) ==
  LET stars == {t \in To(w.stars, f) : Exported(w, t) # {}}
  IN  IF f \in w.whole THEN {<<f, "other">>}
      ELSE IF Exported(w, f) # {} THEN Exported(w, f)
      ELSE IF To(w.named, f) # {} THEN UNION {Exported(w, t) : t \in To(w.named, f)}
      ELSE IF To(w.renamed, f) # {} THEN {<<t, "other">> : t \in To(w.renamed, f)}
      ELSE IF Cardinality(stars) = 1 THEN UNION {Exported(w, t) : t \in stars} ELSE {}
ScriptBinding(w) == UNION {Binding(w, f) : f \in Loaded(w)}

\* The declarations a call of fn may run: one, or none when nothing is bound.  A
\* call of an overloaded name is taken to run the second.
Bound(w) ==
  IF ~w.direct THEN {<<"a", "other">>}
  ELSE IF w.lang = "jvm"
       THEN LET decls == {s \in w.sites : s[1] \in w.src /\ s[2] \in {"function", "overload"}}
            IN  IF \E s \in decls : s[2] = "overload" THEN {s \in decls : s[2] = "overload"} ELSE decls
       ELSE ScriptBinding(w)

(***************************************************************************)
(* The shapes in which text and binding are known to come apart.           *)
(***************************************************************************)
\* A renamed or default import, or (JVM) a name that is bound elsewhere.
Misnamed(w) == ~w.direct
\* The loaded file declares a fn it does not export.
Shadowed(w) == \E f \in Loaded(w) \ w.whole : Declares(w, f) /\ Exported(w, f) = {}
\* The loaded file declares a fn beside the one value that it is.
OneValue(w) == \E f \in Loaded(w) \cap w.whole : Declares(w, f)
\* A renamed re-export beside a star.
AliasedStar(w) == \E f \in Loaded(w) : To(w.renamed, f) # {} /\ To(w.stars, f) # {}
\* Another source file answers to the same base and offers the name, and it is met
\* before the loaded one, or that one is no source or does not declare the name.
Offers(w, f) == Declares(w, f) \/ followReexportOnce(w, f) # {}
Twins(w) ==
  /\ w.spec \in {"relative", "alias"}
  /\ \E l \in Loaded(w), f \in (w.src \cap {"a", "b"}) \ Loaded(w) :
       Offers(w, f) /\ (f = w.first \/ l \notin w.src \/ ~Declares(w, l))
\* A TypeScript source beside a .js file that is loaded but no source.
Built(w) == w.spec = "relative" /\ "s" \in w.src /\ Loaded(w) \cap w.src = {}
\* Another condition than the default one matches.
Conditional(w) == w.spec = "conditions" /\ Loaded(w) # {"b"}
\* The bound function has no signature the locator knows; another fn has.
Wrapped(w) == \E s \in Bound(w) : s[2] \in {"wrapped", "class"}
Mistaken(w) ==
  \/ Misnamed(w) \/ Shadowed(w) \/ AliasedStar(w) \/ Wrapped(w)
  \/ Twins(w) \/ Built(w) \/ Conditional(w)
Misread(w) == Mistaken(w) \/ OneValue(w)

-----------------------------------------------------------------------------
\* The worlds a passing test can stand in: its call binds something.  A file the
\* runtime finds may be no source to the prober, a test file or one in a build
\* directory.  No file exports a name twice; a module that is one value has no
\* exports of its own.  Re-exports are one hop deep, and what they name is one file.
Importable(w) ==
  /\ w.lang \in {"js", "python", "jvm"}
  /\ w.spec \in {"relative", "alias", "targets", "conditions", "dep"}
  /\ w.sites \subseteq Files \X Kinds
  /\ w.disk \subseteq {"a", "b", "s"} /\ w.src \subseteq w.disk /\ w.first \in {"a", "b"}
  /\ w.spec \in {"targets", "conditions"} \/ w.lang # "js" => "s" \notin w.disk
  /\ w.lang # "js" => w.spec = "relative" /\ w.whole = {}
  /\ \A d \in w.named : /\ \A e \in w.named : e[1] = d[1] => e = d
                        /\ \A e \in w.renamed : e[1] # d[1]
  /\ \A f \in w.whole : /\ f \notin w.exports
                        /\ \A e \in w.named \cup w.renamed \cup w.stars : e[1] # f
  /\ Bound(w) # {}
=============================================================================
