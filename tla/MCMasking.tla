------------------------------ MODULE MCMasking ------------------------------
(***************************************************************************)
(* Texts of Masking for TLC: all those over a few symbols up to a length.  *)
(***************************************************************************)
EXTENDS Masking

LOCAL INSTANCE SequencesExt

UpTo(chars, n) == UNION {[1 .. k -> chars] : k \in 0 .. n}
In(language, texts) == {[lang |-> language, text |-> t] : t \in texts}

\* Division and regular expressions; words; templates; comments.
Slashes == UpTo({"x", "/", "[", "]", "esc", "q"}, 5)
Operators == UpTo({"x", "+", " ", "/", ")", "q"}, 5)
KeywordTexts == UpTo({"x", "return", ".", " ", "/", "q"}, 5)
Templates == UpTo({"tick", "$", "{", "}", "x", "/"}, 5)
Comments == UpTo({"x", "/", "*", "nl", "q", "esc"}, 5)
Quoted == UpTo({"tick", "q", "dq", "/", "*", "esc", "nl"}, 4)
Triples == UpTo({"dq", "nl", "esc", "x"}, 5)
Hashes == UpTo({"#", "!", "q", "nl", "x"}, 4)

\* Longer texts, of whole words and literals.
Pieces == {<<"x">>, <<"return">>, <<" ">>, <<"nl">>, <<")">>, <<"/">>, <<"+", "+">>, <<"/", "q", "/">>,
           <<"q", "x", "q">>, <<"tick", "$", "{", "x", "}", "tick">>, <<"/", "*", "*", "/">>,
           <<"/", "/", "x", "nl">>}
Programs == {FlattenSeq(ps) : ps \in UpTo(Pieces, 4)}
Insides == {<<"tick", "$", "{">>, <<"}", "tick">>, <<"tick">>, <<"}">>, <<"q", "}", "q">>, <<"q", "tick", "q">>,
            <<"/", "}", "/">>, <<"/", "/", "}", "nl">>, <<"/", "*", "}", "*", "/">>, <<"q", "$", "{", "q">>, <<"esc">>, <<"x">>}
Nested == {<<"tick", "$", "{">>, <<"}", "tick">>, <<"tick">>, <<"}">>, <<"q", "tick", "q">>, <<"/", "x", "/">>}
Interpolations == {FlattenSeq(ps) : ps \in UpTo(Insides, 4) \cup UpTo(Nested, 6)}
\* What a keyword or a slash may follow, at a distance.
Spaced == {<<".", " ">>, <<"return">>, <<"x", " ">>, <<"+", "+">>, <<"/", "*", "*", "/">>, <<"/", "x", "/">>}
Followed == {FlattenSeq(ps) : ps \in UpTo(Spaced, 5)}

AllInputs ==
  In("script", Slashes \cup Operators \cup KeywordTexts \cup Templates \cup Comments \cup Hashes \cup Programs \cup Interpolations
                 \cup Followed)
  \cup In("kotlin", Quoted \cup Triples) \cup In("java", Quoted)
  \cup In("python", Triples \cup Hashes)
=============================================================================
