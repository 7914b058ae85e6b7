------------------------------- MODULE Masking -------------------------------
(***************************************************************************)
(* codeOnly of checker/lexer.mjs: the scan that blanks the comments and    *)
(* literals of a text, which every decision of the prober over text rests  *)
(* on.  One step is one iteration of the loop of stripComments or of one   *)
(* of its consume functions.                                               *)
(*                                                                         *)
(* A text is a sequence of symbols: a character, or a word whose letters   *)
(* the scan does not tell apart.  "x" stands for any identifier or number, *)
(* "return" for the keywords a regular expression may follow.  A finished  *)
(* mask is scanned once more, as eligibleFnsDetail and                     *)
(* pinnedFragmentsByKind of mutation/ do with the body of a test.          *)
(***************************************************************************)
EXTENDS Naturals, Sequences, FiniteSets, Lexis

CONSTANT Inputs  \* pairs of a language and a text

ASSUME InputsAssumption ==
  Inputs \subseteq [lang : {"script", "kotlin", "java", "python"}, text : Seq(STRING)]

VARIABLES lang, src,  \* the language and the text masked first
          pass,       \* 1, or 2 for the scan of a mask
          text,       \* what this pass scans
          out,        \* what it has emitted
          at,         \* where the token being scanned begins (i)
          ahead,      \* how far it has been scanned (j)
          mode,       \* the consume function it is in
          quote,      \* the string delimiter, in a string
          depth,      \* of ${ in a template
          inClass,    \* in [ ] of a regular expression
          prevSig, prevWord,
          names       \* history: where pass 1 kept a quoted identifier
scanVars == <<depth, inClass, quote>>
tokenVars == <<prevSig, prevWord>>
fixed == <<lang, src, pass, text>>
vars == <<fixed, out, at, ahead, mode, scanVars, tokenVars, names>>

-----------------------------------------------------------------------------
Matches(t, i, tok) ==
  \A k \in DOMAIN tok : i + k - 1 \in DOMAIN t /\ t[i + k - 1] = tok[k]

LineOpen == IF lang = "python" THEN <<"#">> ELSE <<"/", "/">>
BlockOpen == <<"/", "*">>
Quote(open, escape, multiline) == [open |-> open, escape |-> escape, multiline |-> multiline]
Short == {Quote(<<"q">>, TRUE, FALSE), Quote(<<"dq">>, TRUE, FALSE)}
Strings ==
  CASE lang = "kotlin" -> Short \cup {Quote(<<"dq", "dq", "dq">>, FALSE, TRUE)}
    [] lang = "python" -> Short \cup {Quote(<<"dq", "dq", "dq">>, TRUE, TRUE),
                                      Quote(<<"q", "q", "q">>, TRUE, TRUE)}
    [] OTHER -> Short
\* Openers are tried longest first.
StringHit(i) == {q \in Strings : /\ Matches(text, i, q.open)
                                 /\ \A r \in Strings : Matches(text, i, r.open) => Len(r.open) <= Len(q.open)}

Shebang(i) == i = 1 /\ Matches(text, 1, <<"#", "!">>)
LineHit(i) == Shebang(i) \/ Matches(text, i, LineOpen)
BlockHit(i) == lang # "python" /\ Matches(text, i, BlockOpen)
NameHit(i) == lang = "kotlin" /\ text[i] = "tick"
TemplateHit(i) == lang = "script" /\ text[i] = "tick"
SlashHit(i) == lang = "script" /\ text[i] = "/" /\ ~LineHit(i) /\ ~BlockHit(i)
Literal(i) == LineHit(i) \/ BlockHit(i) \/ NameHit(i) \/ TemplateHit(i) \/ StringHit(i) # {}

isWordChar(c) == c \in Words
isExprEnder(c) == c \in Words \cup {")", "]"}

\* x++ is complete: two adjacent + in the mask, an expression before them.
postfixIncDec ==
  \E k \in DOMAIN out : \E j \in 1 .. k - 2 :
    /\ out[k] = "+" /\ out[k - 1] = "+" /\ prevSig = "+"
    /\ \A m \in DOMAIN out : m > k => out[m] \in Blanks
    /\ \A m \in j + 1 .. k - 2 : out[m] \in Blanks
    /\ isExprEnder(out[j])
\* Mutant: x++ is taken for an operator that waits for its operand.
NoPostfix == prevSig = "none" \/ prevWord = "keyword" \/ ~isExprEnder(prevSig)
regexAllowed ==
  /\ ~postfixIncDec
  /\ prevSig = "none" \/ prevWord = "keyword" \/ ~isExprEnder(prevSig)

-----------------------------------------------------------------------------
Init ==
  /\ \E input \in Inputs : lang = input.lang /\ src = input.text
  /\ pass = 1 /\ text = src /\ out = <<>> /\ at = 1 /\ ahead = 1 /\ mode = "code"
  /\ quote = Quote(<<>>, FALSE, FALSE) /\ depth = 0 /\ inClass = FALSE
  /\ prevSig = "none" /\ prevWord = "none" /\ names = {}

\* Mutant: the newlines of a literal are blanked with the rest.
SpacesOnly(from, to) == [k \in 1 .. to - from |-> " "]
\* Mutant: one short, the last symbol of a literal stays.
OneShort(from, to) ==
  [k \in 1 .. to - from |->
     IF text[from + k - 1] = "nl" \/ k = to - from THEN text[from + k - 1] ELSE " "]
\* blank(from, to): up to, not including, to.
blank(from, to) ==
  [k \in 1 .. to - from |-> IF text[from + k - 1] = "nl" THEN "nl" ELSE " "]
pushVerbatim(from, to) == [k \in 1 .. to - from |-> text[from + k - 1]]

Emit(piece, end) ==
  /\ out' = out \o piece /\ at' = end /\ ahead' = end /\ mode' = "code"
  /\ UNCHANGED <<fixed, scanVars>>
Value == prevSig' = ")" /\ prevWord' = "none"
Enter(to, start) ==
  /\ mode' = to /\ ahead' = start
  /\ UNCHANGED <<fixed, out, at, tokenVars, names>>
Look(n) ==
  /\ ahead' = ahead + n
  /\ UNCHANGED <<fixed, out, at, mode, tokenVars, names>>

Scanning == mode = "code" /\ at <= Len(text)

Space ==
  /\ Scanning /\ text[at] \in Blanks
  /\ Emit(<<text[at]>>, at + 1) /\ UNCHANGED <<tokenVars, names>>
OpenComment ==
  /\ Scanning
  /\ \/ LineHit(at) /\ Enter("line", at)
     \/ ~LineHit(at) /\ BlockHit(at) /\ Enter("block", at + 2)
  /\ UNCHANGED scanVars
OpenName == Scanning /\ NameHit(at) /\ Enter("name", at + 1) /\ UNCHANGED scanVars
OpenString ==
  /\ Scanning
  /\ \E q \in StringHit(at) : quote' = q /\ Enter("string", at + Len(q.open))
  /\ UNCHANGED <<depth, inClass>>
OpenTemplate ==
  /\ Scanning /\ TemplateHit(at)
  /\ Enter("template", at + 1) /\ depth' = 0 /\ UNCHANGED <<quote, inClass>>
OpenRegex ==
  /\ Scanning /\ SlashHit(at) /\ regexAllowed
  /\ Enter("regex", at + 1) /\ inClass' = FALSE /\ UNCHANGED <<quote, depth>>
Division ==
  /\ prevSig' = "/" /\ prevWord' = "none"
  /\ Emit(<<"/">>, at + 1) /\ UNCHANGED names
Divide == Scanning /\ SlashHit(at) /\ ~regexAllowed /\ Division
Ordinary ==
  /\ Scanning /\ text[at] \notin Blanks /\ ~Literal(at) /\ ~SlashHit(at)
  /\ Emit(<<text[at]>>, at + 1)
  /\ prevSig' = text[at]
  /\ prevWord' = IF ~isWordChar(text[at]) THEN "none"
                 ELSE IF prevWord # "none" /\ isWordChar(prevSig) THEN "other"
                 ELSE IF text[at] = "return" THEN "keyword" ELSE "other"
  /\ UNCHANGED names

Ended == ahead > Len(text)
Capped == IF Ended THEN Len(text) + 1 ELSE ahead

LineComment ==
  /\ mode = "line"
  /\ IF ~Ended /\ text[ahead] # "nl" THEN Look(1) /\ UNCHANGED scanVars
     ELSE Emit(blank(at, ahead), ahead) /\ UNCHANGED <<tokenVars, names>>
BlockComment ==
  /\ mode = "block"
  /\ IF Ended THEN Emit(blank(at, Len(text) + 1), Len(text) + 1) /\ UNCHANGED <<tokenVars, names>>
     ELSE IF Matches(text, ahead, <<"*", "/">>)
       THEN Emit(blank(at, ahead + 2), ahead + 2) /\ UNCHANGED <<tokenVars, names>>
     ELSE Look(1) /\ UNCHANGED scanVars

\* Kotlin: the identifier is code, and kept.
Name ==
  /\ mode = "name"
  /\ IF ~Ended /\ text[ahead] \notin {"tick", "nl"} THEN Look(1) /\ UNCHANGED scanVars
     ELSE LET end == IF ~Ended /\ text[ahead] = "tick" THEN ahead + 1 ELSE ahead
          IN  /\ Emit(pushVerbatim(at, end), end) /\ Value
              /\ names' = IF pass = 1 THEN names \cup {<<at, end>>} ELSE names

\* A string of one line left open ends with it.
StopsAtLine == ~Ended /\ ~quote.multiline /\ text[ahead] = "nl"
consumeString ==
  /\ mode = "string"
  /\ IF ~Ended /\ quote.escape /\ text[ahead] = "esc" THEN Look(2) /\ UNCHANGED scanVars
     ELSE IF Ended \/ StopsAtLine
       THEN Emit(blank(at, Capped), Capped) /\ Value /\ UNCHANGED names
     ELSE IF Matches(text, ahead, quote.open)
       THEN /\ Emit(blank(at, ahead + Len(quote.open)), ahead + Len(quote.open))
            /\ Value /\ UNCHANGED names
     ELSE Look(1) /\ UNCHANGED scanVars

consumeTemplate ==
  /\ mode = "template"
  /\ IF Ended THEN Emit(blank(at, Capped), Capped) /\ Value /\ UNCHANGED names
     ELSE IF text[ahead] = "esc" THEN Look(2) /\ UNCHANGED scanVars
     ELSE IF depth = 0 /\ text[ahead] = "tick"
       THEN Emit(blank(at, ahead + 1), ahead + 1) /\ Value /\ UNCHANGED names
     ELSE IF Matches(text, ahead, <<"$", "{">>)
       THEN Look(2) /\ depth' = depth + 1 /\ UNCHANGED <<quote, inClass>>
     ELSE /\ Look(1) /\ UNCHANGED <<quote, inClass>>
          /\ depth' = IF depth > 0 /\ text[ahead] = "}" THEN depth - 1 ELSE depth

\* A slash that opens no regular expression on its line is division after all.
consumeRegex ==
  /\ mode = "regex"
  /\ IF Ended \/ text[ahead] = "nl" THEN Division
     ELSE IF text[ahead] = "esc" THEN Look(2) /\ UNCHANGED scanVars
     ELSE IF text[ahead] = "/" /\ ~inClass
       THEN /\ mode' = "flags" /\ ahead' = ahead + 1
            /\ UNCHANGED <<fixed, out, at, scanVars, tokenVars, names>>
     ELSE /\ Look(1) /\ UNCHANGED <<quote, depth>>
          /\ inClass' = IF text[ahead] = "[" THEN TRUE
                        ELSE IF text[ahead] = "]" THEN FALSE ELSE inClass
regexFlags ==
  /\ mode = "flags"
  /\ IF ~Ended /\ text[ahead] \in Words \ {"$"} THEN Look(1) /\ UNCHANGED scanVars
     ELSE Emit(blank(at, ahead), ahead) /\ Value /\ UNCHANGED names

\* The mask becomes the text of the second pass.
Again ==
  /\ mode = "code" /\ at > Len(text) /\ pass = 1
  /\ pass' = 2 /\ text' = out /\ out' = <<>> /\ at' = 1 /\ ahead' = 1
  /\ prevSig' = "none" /\ prevWord' = "none"
  /\ UNCHANGED <<lang, src, mode, scanVars, names>>

Next == \/ Space \/ OpenComment \/ OpenName \/ OpenString \/ OpenTemplate \/ OpenRegex
        \/ Divide \/ Ordinary \/ LineComment \/ BlockComment \/ Name \/ consumeString
        \/ consumeTemplate \/ consumeRegex \/ regexFlags \/ Again
Spec == Init /\ [][Next]_vars

-----------------------------------------------------------------------------
Masked == mode = "code" /\ at > Len(text)

(***************************************************************************)
(* The shapes in which a mask is known to differ from the language.        *)
(***************************************************************************)
Misread == {"property", "joined", "braced"}

\* lexer.mjs:2-5: every newline is preserved and offsets stay: a finding is
\* reported at its line.  A symbol is kept or blanked, never moved.
LinesKept ==
  /\ Masked => Len(out) = Len(text)
  /\ \A k \in DOMAIN out : /\ k \in DOMAIN text
                           /\ out[k] \in {text[k], " "} /\ (out[k] = "nl") = (text[k] = "nl")

\* prove.mjs:693: masking a mask changes nothing.  In script only if no literal is
\* divided: blanked, it leaves a slash that may begin a regular expression.
MaskedTwice ==
  /\ Masked /\ pass = 2
  /\ lang = "script" => Lexical(src) /\ Reading(src).shapes = {}
  => out = text

\* In script the mask blanks the comments and literals of the language and nothing
\* else, for texts without the named shapes.
MaskIsLexical ==
  Masked /\ pass = 1 /\ lang = "script" /\ Lexical(src) /\ Reading(src).shapes \cap Misread = {}
    => LET literal == InLiteral(src)
       IN \A k \in DOMAIN src : out[k] = " " <=> (src[k] = " " \/ (k \in literal /\ src[k] # "nl"))
=============================================================================
