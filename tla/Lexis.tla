-------------------------------- MODULE Lexis --------------------------------
(***************************************************************************)
(* The lexical grammar of ECMAScript, as far as comments and literals go,  *)
(* over the symbols of Masking: the reference its mask is compared with.   *)
(* A text is read token by token; whether a slash divides is decided by    *)
(* the token before it.                                                    *)
(*                                                                         *)
(* A closing parenthesis ends an operand here: that a regular expression   *)
(* may follow the head of an if is the known gap test/                     *)
(* lexer-codeonly.test.mjs pins.  A brace outside ${ } is left out, for    *)
(* what follows it depends on the syntax, and so is a backslash outside    *)
(* literals, which only writes the character of an identifier.             *)
(***************************************************************************)
EXTENDS Naturals, Sequences

Words == {"x", "return", "$"}
Blanks == {" ", "nl"}
Absent == {"{", "}", "#", "dq", "esc"}

Least(s) == {a \in s : \A b \in s : a <= b}

\* The symbol at k is escaped, in a literal that began at a.
Escaped(t, a, k) ==
  \E m \in a + 1 .. k - 1 : /\ (k - m) % 2 = 1
                            /\ \A i \in m .. k - 1 : t[i] = "esc"
                            /\ m = a + 1 \/ t[m - 1] # "esc"
Bare(t, a, k, c) == t[k] = c /\ ~Escaped(t, a, k)

WordEnd(t, a) == Least({b \in a .. Len(t) : b = Len(t) \/ t[b + 1] \notin Words})
StringEnd(t, a) ==
  {b \in Least({b \in a + 1 .. Len(t) : Bare(t, a, b, t[a])}) :
     \A k \in a + 1 .. b - 1 : ~Bare(t, a, k, "nl")}

InBrackets(t, a, k) ==
  \E m \in a + 1 .. k - 1 : /\ Bare(t, a, m, "[")
                            /\ \A i \in m + 1 .. k - 1 : ~Bare(t, a, i, "]")
RegexClose(t, a) ==
  {b \in Least({b \in a + 1 .. Len(t) : Bare(t, a, b, "/") /\ ~InBrackets(t, a, b)}) :
     \A k \in a + 1 .. b - 1 : t[k] # "nl"}
RegexEnd(t, a) ==
  UNION {IF b < Len(t) /\ t[b + 1] \in Words
           THEN {e \in WordEnd(t, b + 1) : \A k \in b + 1 .. e : t[k] # "$"} ELSE {b} : b \in RegexClose(t, a)}

LineEnd(t, a) == Least({b \in a .. Len(t) : b = Len(t) \/ t[b + 1] = "nl"})
BlockEnd(t, a) == Least({b \in a + 3 .. Len(t) : t[b - 1] = "*" /\ t[b] = "/"})

\* The characters of a template, up to its end or the next ${ .
TemplateEnd(t, a) ==
  Least({b \in a + 1 .. Len(t) : \/ Bare(t, a, b, "tick")
                                 \/ Bare(t, a, b - 1, "$") /\ b - 1 > a /\ t[b] = "{"})

(***************************************************************************)
(* A reading of the text: where the next token begins, what the last one   *)
(* was, how many templates are open around it, the positions found to be   *)
(* in a comment or a literal, and the shapes met on the way that the       *)
(* properties of Masking name.  It is not ok once no token begins.         *)
(***************************************************************************)
Start == [at |-> 1, last |-> "none", nest |-> 0, lit |-> {}, shapes |-> {}, ok |-> TRUE]

Stop(s) == [s EXCEPT !.ok = FALSE]
\* A token of code ends at e; in a template even that is part of a literal.
Pass(s, e, last) ==
  [s EXCEPT !.at = e + 1, !.last = last, !.lit = IF s.nest > 0 THEN @ \cup (s.at .. e) ELSE @]
\* A comment or literal does.
Cover(s, e, last) == [s EXCEPT !.at = e + 1, !.last = last, !.lit = @ \cup (s.at .. e)]
\* ends has its end, if there is one.
CoverTo(s, ends, last) == IF ends = {} THEN Stop(s) ELSE Cover(s, CHOOSE e \in ends : TRUE, last)
\* The characters of a template, nest being the templates around it.
Chars(t, s, nest) ==
  IF TemplateEnd(t, s.at) = {} THEN Stop(s)
  ELSE LET e == CHOOSE e \in TemplateEnd(t, s.at) : TRUE
       IN  IF t[e] = "tick" THEN [Cover(s, e, "literal") EXCEPT !.nest = nest]
           ELSE [Cover(s, e, "operator") EXCEPT !.nest = nest + 1]

Two(t, k, a, b) == k < Len(t) /\ t[k] = a /\ t[k + 1] = b
Operands == {"word", "operand", "postfix", "literal"}

\* A keyword after a period is a property name; what a ++ follows is its operand
\* unless that is incremented already, or a literal.
Token(t, s) ==
  LET p == s.at
  IN IF t[p] \in Blanks THEN Pass(s, p, s.last)
     ELSE IF Two(t, p, "/", "/") THEN CoverTo(s, LineEnd(t, p), s.last)
     ELSE IF Two(t, p, "/", "*") THEN CoverTo(s, BlockEnd(t, p), s.last)
     ELSE IF t[p] \in Words
       THEN Pass(s, CHOOSE e \in WordEnd(t, p) : TRUE,
                 IF t[p] = "return" /\ p \in WordEnd(t, p) /\ s.last # "period" THEN "keyword" ELSE "word")
     ELSE IF t[p] = "q" THEN CoverTo(s, StringEnd(t, p), "literal")
     ELSE IF t[p] = "tick" THEN Chars(t, s, s.nest)
     ELSE IF t[p] = "}" /\ s.nest > 0 THEN Chars(t, s, s.nest - 1)
     ELSE IF t[p] \in Absent \/ (t[p] = "/" /\ s.last = "prefix") THEN Stop(s)
     ELSE IF t[p] = "/" /\ s.last \notin Operands THEN CoverTo(s, RegexEnd(t, p), "literal")
     ELSE IF Two(t, p, "+", "+")
       THEN Pass(s, p + 1, IF s.last \in {"word", "operand"} THEN "postfix" ELSE "prefix")
     ELSE Pass(s, p, IF t[p] \in {")", "]"} THEN "operand" ELSE IF t[p] = "." THEN "period" ELSE "operator")

\* The keyword is a property: counts.delete / 2.
Property(t, s, n) == t[s.at] = "return" /\ n.at = s.at + 1 /\ s.last = "period"
\* Only white space or a comment parts the keyword from a word before it: else return
\* /re/, or a line that begins with it after one without a semicolon.
Joined(t, s, n) == t[s.at] = "return" /\ n.at = s.at + 1 /\ s.last \in {"word", "keyword"}
\* A brace in a literal, a comment or a template within ${ }.
Braced(t, s, n) ==
  /\ IF t[s.at] = "}" THEN s.nest > 1 ELSE s.nest > 0
  /\ \E k \in s.at + 1 .. n.at - 1 : t[k] \in {"{", "}"} /\ (k < n.at - 1 \/ t[s.at] = "/")
\* A literal is divided: 'a' / b.
Divided(t, s, n) == t[s.at] = "/" /\ n.at = s.at + 1 /\ s.last = "literal"

Shapes(t, s, n) ==
  (IF Property(t, s, n) THEN {"property"} ELSE {}) \cup (IF Joined(t, s, n) THEN {"joined"} ELSE {})
    \cup (IF Braced(t, s, n) THEN {"braced"} ELSE {}) \cup (IF Divided(t, s, n) THEN {"divided"} ELSE {})

Step(t, s) ==
  IF s.at > Len(t) \/ ~s.ok THEN s
  ELSE LET n == Token(t, s) IN [n EXCEPT !.shapes = @ \cup Shapes(t, s, n)]

\* The reading after k tokens.
Readings(t) == LET Run[k \in Nat] == IF k = 0 THEN Start ELSE Step(t, Run[k - 1]) IN Run
Reading(t) == Readings(t)[Len(t)]

Lexical(t) == LET s == Reading(t) IN s.ok /\ s.at > Len(t) /\ s.nest = 0
InLiteral(t) == Reading(t).lit
=============================================================================
