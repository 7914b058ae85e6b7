---------------------------- MODULE MCBlockProbe ----------------------------
(***************************************************************************)
(* Scenarios of BlockProbe for TLC: an ordinary one, and families that     *)
(* vary one part of it against the parts it interacts with.                *)
(***************************************************************************)
EXTENDS BlockProbe

Both == {"gross", "opposite"}
Assertion(form, names, expr, bites) ==
  [form |-> form, vars |-> names, expr |-> expr, bites |-> bites]
Assign(names, decl, rhs) == [vars |-> names, decl |-> decl, rhs |-> rhs]
Body(lang, assigns, asserts) == [lang |-> lang, assigns |-> assigns, asserts |-> asserts]
\* expect(f(x)).toBe(..), one that cannot fail, and one that fails one way.
Sharp == Body("js", <<>>, {Assertion("toBe", {}, Call("f"), Both)})
Blunt == Body("js", <<>>, {Assertion("toBe", {}, Call("f"), {})})
OneWay == Body("js", <<>>, {Assertion("toBe", {}, Call("f"), {"opposite"})})

OneFile == [lang |-> "js", spec |-> "relative", direct |-> TRUE, disk |-> {"a"}, src |-> {"a"},
            first |-> "a", sites |-> {<<"a", "function">>}, exports |-> {"a"}, whole |-> {},
            named |-> {}, renamed |-> {}, stars |-> {}]
PlainClass == [lang |-> "js", via |-> "variable", made |-> "new", stir |-> "none", homes |-> 1,
               head |-> "plain", sites |-> {"own"}, parent |-> "none", factory |-> FALSE]
Block(under, name) == [under |-> under, name |-> name]

Ordinary ==
  [body |-> Sharp, how |-> "bare", lib |-> OneFile, recv |-> PlainClass,
   runner |-> "vitest", bs |-> <<Block(<<>>, <<"a">>), Block(<<>>, <<"c">>)>>,
   own |-> "pass", sib |-> "pass", uses |-> FALSE,
   console |-> [said |-> "none", on |-> "stdout"],
   place |-> [set |-> "test", kmp |-> FALSE, android |-> "no"], returns |-> "number", kills |-> {}]

-----------------------------------------------------------------------------
\* Titles: every runner, two or three blocks, titles that contain each other.
Unders == {<<>>, <<"a">>, <<"c">>}
Names == {<<"a">>, <<"b">>, <<"a", "b">>}
Files2 == {<<Block(u, n), Block(v, m)>> : u \in Unders, v \in Unders, n \in Names, m \in Names}
Files3 == {Append(bs, third) : bs \in Files2, third \in {Block(<<"c">>, <<"b">>)}}
Starred == {<<Block(<<>>, <<"*">>), Block(<<>>, <<"b">>)>>}
HasDescribes(runner) == runner \notin {"pytest", "ava", "gradle"}
Titles ==
  {[Ordinary EXCEPT !.runner = r, !.bs = bs, !.own = o, !.sib = s, !.uses = u, !.body = b] :
     r \in Runners, bs \in Files2 \cup Files3 \cup Starred, o \in {"pass", "fail", "skip"},
     s \in {"pass", "fail"}, u \in BOOLEAN, b \in {Sharp, Blunt}}
TitleWorlds ==
  {w \in Titles : HasDescribes(w.runner) \/ \A i \in DOMAIN w.bs : w.bs[i].under = <<>>}

-----------------------------------------------------------------------------
\* Bodies: every assertion form, the hops, the values beside them.
Exprs == {Literal, Call("f"), Sum("f", "g"), Nested("f", "g"), Either("g", "f"), Known("f"),
          IfKnown("f")}
Spoken == {Body(l, <<>>, {Assertion(form, {}, e, bites)}) :
             l \in {"js", "kotlin"}, form \in Forms, e \in Exprs, bites \in SUBSET Both}
Decls == {"let", "var", "val", "pair", "set"}
Hops == {Body(l, <<Assign({"x"}, d, e), Assign({"y"}, k, Call("g"))>>,
              {Assertion(form, v, Literal, bites)}) :
           l \in {"js", "kotlin"}, d \in Decls, k \in {"let", "pair"}, e \in Exprs,
           form \in {"toBe", "toBeGreaterThan", "toBeDefined"},
           v \in {{"x"}, {"x", "y"}}, bites \in {{}, {"gross"}, {"opposite"}, Both}}
Rebinds == {Body("js", <<Assign({"x"}, "let", Call("f")), Assign({"x"}, d, Call("g"))>>,
                 {Assertion("toBe", {"x"}, Literal, bites)}) : d \in {"let", "set", "pair"}, bites \in SUBSET Both}
Pairs == {Body("js", <<>>, {Assertion(p, {}, Call("f"), b1), Assertion(q, {}, Call("g"), b2)}) :
            p \in {"toBe", "toBeGreaterThan"}, q \in {"toBe", "toBeGreaterThan", "toBeDefined"},
            b1 \in SUBSET Both, b2 \in SUBSET Both}
ScriptBodyWorlds(bodies) ==
  {[Ordinary EXCEPT !.body = b, !.how = how] : b \in {x \in bodies : x.lang = "js"}, how \in {"bare", "member"}}
KotlinBodyWorlds(bodies) ==
  {[Ordinary EXCEPT !.body = b, !.how = how, !.runner = "gradle", !.recv.lang = "kotlin", !.lib.lang = "jvm"] :
     b \in {x \in bodies : x.lang = "kotlin"}, how \in {"bare", "jvmMember"}}
BodyWorlds == {ScriptBodyWorlds(bodies) : bodies \in {Spoken, Hops, Rebinds, Pairs}}
              \cup {KotlinBodyWorlds(bodies) : bodies \in {Spoken, Hops}}

-----------------------------------------------------------------------------
\* Imports: what the files declare, which exist, which the prober sees and meets
\* first, what they re-export; read as a bare name and as a namespace's member.
FewKinds == {{}, {"function"}, {"wrapped"}, {"inner"}, {"method"}, {"function", "inner"},
             {"wrapped", "method"}, {"class", "method"}, {"function", "overload"}}
In(f, ks) == {<<f, k>> : k \in ks}
Solo == {[OneFile EXCEPT !.lang = l, !.spec = s, !.direct = d, !.sites = In("a", ks)] :
           l \in {"js", "python", "jvm"}, s \in {"relative", "alias", "dep"},
           d \in BOOLEAN, ks \in SUBSET Kinds}
Seen == {d \in (SUBSET {"a", "b", "s"}) \X (SUBSET {"a", "b", "s"}) : d[2] \subseteq d[1]}
Reads == {<<"js", s>> : s \in {"relative", "alias", "targets", "conditions"}}
         \cup {<<"python", "relative">>, <<"jvm", "relative">>}
Doubles == {[OneFile EXCEPT !.lang = l[1], !.spec = l[2], !.disk = d[1], !.src = d[2], !.first = w,
                            !.exports = e, !.whole = v,
                            !.sites = In("a", k1) \cup In("b", k2) \cup In("s", k3)] :
              l \in Reads, d \in Seen, w \in {"a", "b"}, e \in {{"a", "b", "s"}, {"b"}},
              v \in {{}, {"a"}}, k1 \in {{}, {"function"}, {"inner"}}, k2 \in {{}, {"function"}},
              k3 \in {{"function"}}}
Hopped == {[OneFile EXCEPT !.disk = d, !.src = d, !.first = w, !.exports = {"p", "q"} \cup e,
                           !.sites = In("a", k1) \cup In("p", k2) \cup In("q", k3),
                           !.named = n, !.renamed = r, !.stars = t] :
             d \in {{"a"}, {"a", "b"}}, w \in {"a", "b"}, e \in {{}, {"a"}},
             k1 \in {{}, {"function"}}, k2 \in FewKinds, k3 \in {{}, {"function"}},
             n \in {{}, {<<"a", "p">>}, {<<"b", "p">>}}, r \in {{}, {<<"a", "a">>}},
             t \in {{}, {<<"a", "p">>}, {<<"a", "p">>, <<"a", "q">>}, {<<"a", "p">>, <<"b", "q">>}}}
BareWorlds(libs) ==
  {[Ordinary EXCEPT !.lib = w, !.body = b] : w \in {x \in libs : Importable(x)}, b \in {Sharp, Blunt}}
NamespaceWorlds(libs) ==
  {[Ordinary EXCEPT !.lib = w, !.how = "member", !.recv.via = v] :
     w \in {x \in libs : x.lang = "js" /\ x.direct /\ Importable(x)}, v \in Namespaces}
ImportWorlds == {BareWorlds(libs) : libs \in {Solo, Doubles, Hopped}}
                \cup {NamespaceWorlds(libs) : libs \in {Solo, Doubles, Hopped}}

-----------------------------------------------------------------------------
\* Receivers: two or three parts vary at a time.
SiteSets == {{}, {"own"}, {"sibling"}, {"helper"}, {"extension"}, {"staticMethod"}}
            \cup {{"own", s} : s \in Sites} \cup {{"assigned"}}
Langs == {"js", "kotlin", "java"}
Handled ==
  {[PlainClass EXCEPT !.lang = l, !.via = v, !.made = m, !.stir = s] :
     l \in Langs, v \in {"variable", "inline", "esm", "cjs"},
     m \in {"new", "factory", "chained", "anonymous", "twoTypes", "unseen"}, s \in Stirs}
Declared ==
  {[PlainClass EXCEPT !.lang = l, !.sites = ss, !.head = h, !.parent = p, !.homes = n] :
     l \in Langs, ss \in SiteSets, h \in {"plain", "odd", "object"},
     p \in {"none", "far", "override"}, n \in {0, 1, 2}}
Made ==
  {[PlainClass EXCEPT !.lang = l, !.via = v, !.factory = f, !.sites = ss] :
     l \in Langs, v \in {"variable", "esm", "cjs"}, f \in BOOLEAN, ss \in SiteSets}
WorldsOf(receivers) ==
  {[Ordinary EXCEPT !.recv = r, !.body = b, !.how = IF r.lang = "js" THEN "member" ELSE "jvmMember",
                    !.runner = IF r.lang = "js" THEN "vitest" ELSE "gradle"] :
     r \in {x \in receivers : Receivable(x)}, b \in {Sharp, Blunt}}
ReceiverWorlds == {WorldsOf(receivers) : receivers \in {Handled, Declared, Made}}

-----------------------------------------------------------------------------
\* Consoles, timeouts, places and return types.
OutputWorlds ==
  {[Ordinary EXCEPT !.runner = r, !.own = o, !.body = b, !.kills = k, !.console = [said |-> s, on |-> t]] :
     r \in Runners, o \in {"pass", "fail", "skip"}, b \in {Sharp, Blunt, OneWay},
     k \in SUBSET {"base", "gross", "recheck", "opposite"},
     s \in {"none", "pass", "fail"}, t \in {"stdout", "stderr"}}
PlaceWorlds ==
  {[Ordinary EXCEPT !.runner = "gradle", !.own = o, !.body = b, !.returns = t,
                    !.place = [set |-> s, kmp |-> k, android |-> a]] :
     o \in {"pass", "fail"}, b \in {Sharp, Blunt, OneWay}, k \in BOOLEAN,
     t \in {"number", "text", "boolean"},
     s \in {"test", "jvmTest", "commonTest", "androidTest"}, a \in {"no", "visible", "hidden"}}

AllWorlds == BodyWorlds \cup ImportWorlds \cup ReceiverWorlds \cup {TitleWorlds, OutputWorlds, PlaceWorlds}
RebindWorlds == {{[Ordinary EXCEPT !.body = b] : b \in {x \in Rebinds : x.assigns[2].decl # "pair"}}}
=============================================================================
