---------------------------- MODULE MaskingProofs ----------------------------
(***************************************************************************)
(* Masking, for texts of every length: a mask keeps its lines, blanks the  *)
(* comments and literals of a script and nothing else, and is not changed  *)
(* by a second scan.                                                       *)
(*                                                                         *)
(* First the readings of Lexis, then what every language shares, the       *)
(* languages without regular expressions, and script.                      *)
(***************************************************************************)
EXTENDS Masking, NaturalsInduction, WellFoundedInduction, SequenceTheorems, TLAPS

(***************************************************************************)
(* The readings of a text, by induction over the number of tokens read.    *)
(***************************************************************************)
LEMMA LeastOf ==
  ASSUME NEW T, T \subseteq Nat, T # {}
  PROVE  \E x \in T : \A y \in T : x <= y
  <1>1. PICK x \in T : \A y \in T : <<y, x>> \notin OpToRel(<, Nat)
    BY NatLessThanWellFounded, WFMin
  <1>2. ASSUME NEW y \in T PROVE x <= y
    <2>1. x \in Nat /\ y \in Nat /\ ~(y < x)
      BY <1>1 DEF OpToRel
    <2> QED
      BY <2>1
  <1> QED
    BY <1>2

\* Induction over a set of numbers.
LEMMA AllNumbers ==
  ASSUME NEW S, 0 \in S, \A k \in Nat : k \in S => k + 1 \in S
  PROVE  \A k \in Nat : k \in S
  <1> SUFFICES ASSUME Nat \ S # {} PROVE FALSE
    OBVIOUS
  <1>1. PICK x \in Nat \ S : \A y \in Nat \ S : x <= y
    BY LeastOf
  <1>2. x # 0 /\ x - 1 \in Nat
    OBVIOUS
  <1>3. x - 1 \in S
    BY <1>1, <1>2
  <1> QED
    BY <1>2, <1>3

(***************************************************************************)
(* The readings of a text conform to their equation.                       *)
(***************************************************************************)
Trace(t, f, k) == f = [i \in 0 .. k |-> IF i = 0 THEN Start ELSE Step(t, f[i - 1])]

LEMMA TraceExists == ASSUME NEW t PROVE \A k \in Nat : \E f : Trace(t, f, k)
  <1> DEFINE S == {k \in Nat : \E f : Trace(t, f, k)}
  <1>1. 0 \in S
    <2>1. Trace(t, [i \in 0 .. 0 |-> Start], 0)
      BY DEF Trace
    <2> QED
      BY <2>1
  <1>2. ASSUME NEW k \in Nat, k \in S PROVE k + 1 \in S
    <2>1. PICK f : Trace(t, f, k)
      BY <1>2
    <2> DEFINE g == [i \in 0 .. k + 1 |-> IF i <= k THEN f[i] ELSE Step(t, f[k])]
    <2>2. \A i \in 0 .. k : f[i] = IF i = 0 THEN Start ELSE Step(t, f[i - 1])
      BY <2>1 DEF Trace
    <2>3. \A i \in 0 .. k + 1 : g[i] = IF i = 0 THEN Start ELSE Step(t, g[i - 1])
      <3> TAKE i \in 0 .. k + 1
      <3>1. CASE i <= k
        BY <2>2, <3>1
      <3>2. CASE i = k + 1
        BY <3>2
      <3> QED
        BY <3>1, <3>2
    <2>4. g = [i \in 0 .. k + 1 |-> IF i = 0 THEN Start ELSE Step(t, g[i - 1])]
      BY <2>3
    <2>5. Trace(t, g, k + 1)
      BY <2>4 DEF Trace
    <2> QED
      BY <2>5
  <1> HIDE DEF S
  <1>3. \A k \in Nat : k \in S
    BY <1>1, <1>2, AllNumbers
  <1> QED
    BY <1>3 DEF S

LEMMA TracesAgree ==
  ASSUME NEW t, NEW f, NEW g, NEW j \in Nat, NEW k \in Nat, Trace(t, f, j), Trace(t, g, k)
  PROVE  \A i \in Nat : i <= j /\ i <= k => f[i] = g[i]
  <1> DEFINE S == {i \in Nat : i <= j /\ i <= k => f[i] = g[i]}
  <1>0. /\ \A i \in 0 .. j : f[i] = IF i = 0 THEN Start ELSE Step(t, f[i - 1])
        /\ \A i \in 0 .. k : g[i] = IF i = 0 THEN Start ELSE Step(t, g[i - 1])
    BY DEF Trace
  <1>1. 0 \in S
    BY <1>0
  <1>2. ASSUME NEW i \in Nat, i \in S PROVE i + 1 \in S
    <2> SUFFICES ASSUME i + 1 <= j, i + 1 <= k PROVE f[i + 1] = g[i + 1]
      OBVIOUS
    <2>1. f[i] = g[i]
      BY <1>2
    <2>2. i + 1 \in 0 .. j /\ i + 1 \in 0 .. k /\ i + 1 # 0 /\ (i + 1) - 1 = i
      OBVIOUS
    <2> QED
      BY <1>0, <2>1, <2>2
  <1> HIDE DEF S
  <1>3. \A i \in Nat : i \in S
    BY <1>1, <1>2, AllNumbers
  <1> QED
    BY <1>3 DEF S

LEMMA ReadingsEquation ==
  ASSUME NEW t
  PROVE  /\ Readings(t)[0] = Start
         /\ \A k \in Nat : Readings(t)[k + 1] = Step(t, Readings(t)[k])
  <1> DEFINE f(k) == CHOOSE f : Trace(t, f, k)
             Run == [k \in Nat |-> f(k)[k]]
             IsRun(g) == g = [k \in Nat |-> IF k = 0 THEN Start ELSE Step(t, g[k - 1])]
  <1>1. \A k \in Nat : Trace(t, f(k), k)
    BY TraceExists
  <1> HIDE DEF f
  <1>2. \A k \in Nat : Run[k] = IF k = 0 THEN Start ELSE Step(t, Run[k - 1])
    <2> TAKE k \in Nat
    <2>1. f(k)[k] = IF k = 0 THEN Start ELSE Step(t, f(k)[k - 1])
      <3>1. k \in 0 .. k /\ f(k) = [i \in 0 .. k |-> IF i = 0 THEN Start ELSE Step(t, f(k)[i - 1])]
        BY <1>1 DEF Trace
      <3> QED
        BY <3>1
    <2>2. ASSUME k # 0 PROVE f(k)[k - 1] = f(k - 1)[k - 1]
      <3>1. k - 1 \in Nat /\ k - 1 <= k /\ k - 1 <= k - 1
        BY <2>2
      <3> QED
        BY <1>1, <3>1, TracesAgree
    <2> QED
      BY <2>1, <2>2
  <1>3. IsRun(Run)
    BY <1>2
  <1>4. Readings(t) = CHOOSE g : IsRun(g)
    BY DEF Readings
  <1>5. IsRun(Readings(t))
    BY <1>3, <1>4
  <1> QED
    BY <1>5

(***************************************************************************)
(* What each token reads.                                                  *)
(***************************************************************************)
Line(t, s) == Two(t, s.at, "/", "/")
Block(t, s) == Two(t, s.at, "/", "*")
\* A token of template characters begins.
Opens(t, s) == t[s.at] = "tick" \/ (t[s.at] = "}" /\ s.nest > 0)
Around(t, s) == IF t[s.at] = "tick" THEN s.nest ELSE s.nest - 1
Slash(t, s) == t[s.at] = "/" /\ ~Line(t, s) /\ ~Block(t, s)
Unread(t, s) == ~Opens(t, s) /\ (t[s.at] \in Absent \/ (Slash(t, s) /\ s.last = "prefix"))
Regex(t, s) == Slash(t, s) /\ s.last # "prefix" /\ s.last \notin Operands
Increment(t, s) == Two(t, s.at, "+", "+")
WordLast(t, s) ==
  IF t[s.at] = "return" /\ s.at \in WordEnd(t, s.at) /\ s.last # "period" THEN "keyword" ELSE "word"
PlainLast(t, s) == IF t[s.at] \in {")", "]"} THEN "operand" ELSE IF t[s.at] = "." THEN "period" ELSE "operator"
Other(t, s) ==
  /\ t[s.at] \notin Blanks \cup Words \cup Absent \cup {"q", "tick"}
  /\ ~Line(t, s) /\ ~Block(t, s) /\ ~Increment(t, s)
  /\ t[s.at] = "/" => s.last \in Operands

LEMMA TokenCases ==
  ASSUME NEW t, NEW s
  PROVE  /\ t[s.at] \in Blanks => Token(t, s) = Pass(s, s.at, s.last)
         /\ Line(t, s) => Token(t, s) = CoverTo(s, LineEnd(t, s.at), s.last)
         /\ Block(t, s) => Token(t, s) = CoverTo(s, BlockEnd(t, s.at), s.last)
         /\ t[s.at] \in Words => Token(t, s) = Pass(s, CHOOSE e \in WordEnd(t, s.at) : TRUE, WordLast(t, s))
         /\ t[s.at] = "q" => Token(t, s) = CoverTo(s, StringEnd(t, s.at), "literal")
         /\ Opens(t, s) => Token(t, s) = Chars(t, s, Around(t, s))
         /\ Unread(t, s) => Token(t, s) = Stop(s)
         /\ Regex(t, s) => Token(t, s) = CoverTo(s, RegexEnd(t, s.at), "literal")
         /\ Increment(t, s) =>
              Token(t, s) = Pass(s, s.at + 1, IF s.last \in {"word", "operand"} THEN "postfix" ELSE "prefix")
         /\ Other(t, s) => Token(t, s) = Pass(s, s.at, PlainLast(t, s))
  <1> DEFINE c == t[s.at]
  <1>1. t[s.at] \in Blanks => Token(t, s) = Pass(s, s.at, s.last)
    BY DEF Token
  <1>2. Line(t, s) => Token(t, s) = CoverTo(s, LineEnd(t, s.at), s.last)
    BY DEF Token, Line, Two, Blanks
  <1>3. Block(t, s) => Token(t, s) = CoverTo(s, BlockEnd(t, s.at), s.last)
    BY DEF Token, Block, Two, Blanks
  <1>4. t[s.at] \in Words => Token(t, s) = Pass(s, CHOOSE e \in WordEnd(t, s.at) : TRUE, WordLast(t, s))
    BY DEF Token, Two, Blanks, Words, WordLast
  <1>5. t[s.at] = "q" => Token(t, s) = CoverTo(s, StringEnd(t, s.at), "literal")
    BY DEF Token, Two, Blanks, Words
  <1>6. Opens(t, s) => Token(t, s) = Chars(t, s, Around(t, s))
    BY DEF Token, Two, Blanks, Words, Opens, Around
  <1>7. Unread(t, s) => Token(t, s) = Stop(s)
    BY DEF Token, Two, Blanks, Words, Opens, Unread, Absent, Slash, Line, Block
  <1>8. Regex(t, s) => Token(t, s) = CoverTo(s, RegexEnd(t, s.at), "literal")
    BY DEF Token, Two, Blanks, Words, Regex, Absent, Slash, Line, Block
  <1>9. Increment(t, s) =>
              Token(t, s) = Pass(s, s.at + 1, IF s.last \in {"word", "operand"} THEN "postfix" ELSE "prefix")
    BY DEF Token, Two, Blanks, Words, Absent, Increment
  <1>10. Other(t, s) => Token(t, s) = Pass(s, s.at, PlainLast(t, s))
    BY DEF Token, Blanks, Words, Absent, Other, PlainLast, Line, Block, Increment, Operands
  <1> QED
    BY <1>1, <1>2, <1>3, <1>4, <1>5, <1>6, <1>7, <1>8, <1>9, <1>10

LEMMA AllTokens ==
  ASSUME NEW t, NEW s
  PROVE  \/ t[s.at] \in Blanks \/ Line(t, s) \/ Block(t, s) \/ t[s.at] \in Words \/ t[s.at] = "q" \/ Opens(t, s)
         \/ Unread(t, s) \/ Regex(t, s) \/ Increment(t, s) \/ Other(t, s)
  BY DEF Opens, Unread, Regex, Increment, Other, Slash, Absent

(***************************************************************************)
(* Every token goes on in the text, or ends the reading.                   *)
(***************************************************************************)
Lasts == {"none", "word", "keyword", "period", "operand", "postfix", "prefix", "operator", "literal"}
ReadingType ==
  [at : Nat \ {0}, last : Lasts, nest : Nat, lit : SUBSET Nat,
   shapes : SUBSET {"property", "joined", "braced", "divided"}, ok : BOOLEAN]

\* A reading n that goes on from s behind e, its token in a literal or not.
Goes(s, e, n) == n \in ReadingType /\ n.at = e + 1 /\ n.ok = s.ok /\ n.shapes = s.shapes
GoesIn(s, e, n) == Goes(s, e, n) /\ n.lit = s.lit \cup (s.at .. e)
GoesOn(s, e, n) == Goes(s, e, n) /\ n.lit = IF s.nest > 0 THEN s.lit \cup (s.at .. e) ELSE s.lit

LEMMA CoverIn ==
  ASSUME NEW s \in ReadingType, NEW e \in Nat, NEW last \in Lasts, NEW n, n = Cover(s, e, last)
  PROVE  GoesIn(s, e, n) /\ n.last = last /\ n.nest = s.nest
  <1>1. PICK l : l = s.lit \cup (s.at .. e)
    OBVIOUS
  <1>2. PICK to \in Nat \ {0} : to = e + 1
    OBVIOUS
  <1>3. l \in SUBSET Nat
    BY <1>1 DEF ReadingType
  <1>4. n = [s EXCEPT !.at = to, !.last = last, !.lit = l]
    BY <1>1, <1>2 DEF Cover
  <1>5. /\ n \in ReadingType /\ n.at = to /\ n.last = last /\ n.lit = l
        /\ n.nest = s.nest /\ n.shapes = s.shapes /\ n.ok = s.ok
    BY <1>3, <1>4 DEF ReadingType
  <1> QED
    BY <1>1, <1>2, <1>5 DEF Goes, GoesIn

LEMMA PassOn ==
  ASSUME NEW s \in ReadingType, NEW e \in Nat, NEW last \in Lasts, NEW n, n = Pass(s, e, last)
  PROVE  GoesOn(s, e, n) /\ n.last = last /\ n.nest = s.nest
  <1>1. PICK l : l = IF s.nest > 0 THEN s.lit \cup (s.at .. e) ELSE s.lit
    OBVIOUS
  <1>2. PICK to \in Nat \ {0} : to = e + 1
    OBVIOUS
  <1>3. l \in SUBSET Nat
    BY <1>1 DEF ReadingType
  <1>4. n = [s EXCEPT !.at = to, !.last = last, !.lit = l]
    BY <1>1, <1>2 DEF Pass
  <1>5. /\ n \in ReadingType /\ n.at = to /\ n.last = last /\ n.lit = l
        /\ n.nest = s.nest /\ n.shapes = s.shapes /\ n.ok = s.ok
    BY <1>3, <1>4 DEF ReadingType
  <1> QED
    BY <1>1, <1>2, <1>5 DEF Goes, GoesOn

LEMMA StopStops ==
  ASSUME NEW s \in ReadingType
  PROVE  /\ Stop(s) \in ReadingType /\ Stop(s).at = s.at /\ Stop(s).lit = s.lit /\ ~Stop(s).ok
         /\ Stop(s).shapes = s.shapes
  BY DEF Stop, ReadingType

\* A token that ends at one of its ends E.
LEMMA CoverToIn ==
  ASSUME NEW s \in ReadingType, NEW E, E \subseteq Nat, NEW last \in Lasts, NEW n, n = CoverTo(s, E, last)
  PROVE  \/ n = Stop(s) /\ E = {}
         \/ \E e \in E : GoesIn(s, e, n) /\ n.last = last /\ n.nest = s.nest
  <1>1. CASE E = {}
    BY <1>1 DEF CoverTo
  <1>2. CASE E # {}
    <2>1. PICK e \in E : e = CHOOSE x \in E : TRUE
      BY <1>2
    <2>2. n = Cover(s, e, last) /\ e \in Nat
      BY <1>2, <2>1 DEF CoverTo
    <2> QED
      BY <2>2, CoverIn
  <1> QED
    BY <1>1, <1>2

LEMMA NestIn ==
  ASSUME NEW s, NEW e, NEW k \in Nat, NEW m, GoesIn(s, e, m), NEW n, n = [m EXCEPT !.nest = k]
  PROVE  GoesIn(s, e, n) /\ n.last = m.last /\ n.nest = k
  <1>1. m \in ReadingType
    BY DEF Goes, GoesIn
  <1>2. /\ n \in ReadingType /\ n.nest = k /\ n.last = m.last /\ n.at = m.at /\ n.ok = m.ok
        /\ n.shapes = m.shapes /\ n.lit = m.lit
    BY <1>1 DEF ReadingType
  <1> QED
    BY <1>2 DEF Goes, GoesIn

LEMMA CharsIn ==
  ASSUME NEW t, Len(t) \in Nat, NEW s \in ReadingType, NEW nest \in Nat, NEW n, n = Chars(t, s, nest)
  PROVE  \/ n = Stop(s) /\ TemplateEnd(t, s.at) = {}
         \/ \E e \in TemplateEnd(t, s.at) :
              /\ GoesIn(s, e, n)
              /\ t[e] = "tick" => n.last = "literal" /\ n.nest = nest
              /\ t[e] # "tick" => n.last = "operator" /\ n.nest = nest + 1
  <1>1. CASE TemplateEnd(t, s.at) = {}
    BY <1>1 DEF Chars
  <1>2. CASE TemplateEnd(t, s.at) # {}
    <2>1. PICK e \in TemplateEnd(t, s.at) : e = CHOOSE x \in TemplateEnd(t, s.at) : TRUE
      BY <1>2
    <2>2. e \in Nat
      <3>1. e \in s.at + 1 .. Len(t) /\ s.at \in Nat
        BY DEF TemplateEnd, Least, ReadingType
      <3> QED
        BY <3>1
    <2>3. CASE t[e] = "tick"
      <3>0. PICK m : m = Cover(s, e, "literal")
        OBVIOUS
      <3>1. n = [m EXCEPT !.nest = nest]
        BY <1>2, <2>1, <2>3, <3>0 DEF Chars
      <3>2. GoesIn(s, e, m) /\ m.last = "literal"
        BY <2>2, <3>0, CoverIn DEF Lasts
      <3>3. GoesIn(s, e, n) /\ n.last = "literal" /\ n.nest = nest
        BY <3>1, <3>2, NestIn
      <3> QED
        BY <2>3, <3>3
    <2>4. CASE t[e] # "tick"
      <3>1. PICK k \in Nat : k = nest + 1
        OBVIOUS
      <3>0. PICK m : m = Cover(s, e, "operator")
        OBVIOUS
      <3>2. n = [m EXCEPT !.nest = k]
        BY <1>2, <2>1, <2>4, <3>0, <3>1 DEF Chars
      <3>3. GoesIn(s, e, m) /\ m.last = "operator"
        BY <2>2, <3>0, CoverIn DEF Lasts
      <3>4. GoesIn(s, e, n) /\ n.last = "operator" /\ n.nest = k
        BY <3>2, <3>3, NestIn
      <3> QED
        BY <2>4, <3>1, <3>4
    <2> QED
      BY <2>3, <2>4
  <1> QED
    BY <1>1, <1>2

LEMMA WordEnds ==
  ASSUME NEW t, Len(t) \in Nat, NEW a \in Nat, a <= Len(t)
  PROVE  WordEnd(t, a) # {} /\ WordEnd(t, a) \subseteq a .. Len(t)
  <1> DEFINE T == {b \in a .. Len(t) : b = Len(t) \/ t[b + 1] \notin Words}
  <1>1. T \subseteq Nat /\ Len(t) \in T
    OBVIOUS
  <1>2. \E x \in T : \A y \in T : x <= y
    <2> HIDE DEF T
    <2> QED
      BY <1>1, LeastOf
  <1>3. WordEnd(t, a) = {x \in T : \A y \in T : x <= y}
    BY DEF WordEnd, Least
  <1> QED
    BY <1>2, <1>3

\* Where tokens end.
LEMMA EndsInText ==
  ASSUME NEW t, Len(t) \in Nat, NEW a \in Nat
  PROVE  /\ LineEnd(t, a) \subseteq a .. Len(t) /\ BlockEnd(t, a) \subseteq a + 3 .. Len(t)
         /\ StringEnd(t, a) \subseteq a + 1 .. Len(t) /\ RegexClose(t, a) \subseteq a + 1 .. Len(t)
         /\ RegexEnd(t, a) \subseteq a + 1 .. Len(t) /\ TemplateEnd(t, a) \subseteq a + 1 .. Len(t)
  <1>1. LineEnd(t, a) \subseteq a .. Len(t) /\ BlockEnd(t, a) \subseteq a + 3 .. Len(t)
    BY DEF LineEnd, BlockEnd, Least
  <1>2. StringEnd(t, a) \subseteq a + 1 .. Len(t) /\ TemplateEnd(t, a) \subseteq a + 1 .. Len(t)
    BY DEF StringEnd, TemplateEnd, Least
  <1>3. RegexClose(t, a) \subseteq a + 1 .. Len(t)
    BY DEF RegexClose, Least
  <1>4. ASSUME NEW e \in RegexEnd(t, a) PROVE e \in a + 1 .. Len(t)
    <2>1. PICK b \in RegexClose(t, a) :
            e = b \/ (b < Len(t) /\ e \in WordEnd(t, b + 1))
      BY DEF RegexEnd
    <2>2. b \in Nat /\ b + 1 \in Nat /\ a + 1 <= b /\ b <= Len(t)
      BY <1>3
    <2>3. b < Len(t) => WordEnd(t, b + 1) \subseteq b + 1 .. Len(t)
      BY <2>2, WordEnds
    <2> QED
      BY <2>1, <2>2, <2>3
  <1> QED
    BY <1>1, <1>2, <1>3, <1>4

\* What a token leaves, by its kind.
LEMMA TokenGoes ==
  ASSUME NEW t, Len(t) \in Nat, NEW s \in ReadingType, s.at <= Len(t), NEW n, n = Token(t, s), n # Stop(s)
  PROVE  /\ ~Unread(t, s)
         /\ t[s.at] \in Blanks => GoesOn(s, s.at, n) /\ n.last = s.last /\ n.nest = s.nest
         /\ Line(t, s) => \E e \in LineEnd(t, s.at) : GoesIn(s, e, n) /\ n.last = s.last /\ n.nest = s.nest
         /\ Block(t, s) => \E e \in BlockEnd(t, s.at) : GoesIn(s, e, n) /\ n.last = s.last /\ n.nest = s.nest
         /\ t[s.at] \in Words =>
              \E e \in WordEnd(t, s.at) : GoesOn(s, e, n) /\ n.last = WordLast(t, s) /\ n.nest = s.nest
         /\ t[s.at] = "q" =>
              \E e \in StringEnd(t, s.at) : GoesIn(s, e, n) /\ n.last = "literal" /\ n.nest = s.nest
         /\ Opens(t, s) =>
              \E e \in TemplateEnd(t, s.at) :
                /\ GoesIn(s, e, n)
                /\ t[e] = "tick" => n.last = "literal" /\ n.nest = Around(t, s)
                /\ t[e] # "tick" => n.last = "operator" /\ n.nest = Around(t, s) + 1
         /\ Regex(t, s) =>
              \E e \in RegexEnd(t, s.at) : GoesIn(s, e, n) /\ n.last = "literal" /\ n.nest = s.nest
         /\ Increment(t, s) =>
              /\ GoesOn(s, s.at + 1, n) /\ n.nest = s.nest
              /\ n.last = IF s.last \in {"word", "operand"} THEN "postfix" ELSE "prefix"
         /\ Other(t, s) => GoesOn(s, s.at, n) /\ n.last = PlainLast(t, s) /\ n.nest = s.nest
  <1> DEFINE a == s.at
  <1>0. /\ a \in Nat /\ a + 1 \in Nat /\ s.last \in Lasts /\ s.nest \in Nat
        /\ LineEnd(t, a) \subseteq Nat /\ BlockEnd(t, a) \subseteq Nat /\ StringEnd(t, a) \subseteq Nat
        /\ RegexEnd(t, a) \subseteq Nat
    <2>1. a \in Nat /\ a + 1 \in Nat /\ a + 3 \in Nat /\ s.last \in Lasts /\ s.nest \in Nat
      BY DEF ReadingType
    <2>2. \A b \in Nat : b .. Len(t) \subseteq Nat
      OBVIOUS
    <2>3. /\ LineEnd(t, a) \subseteq a .. Len(t) /\ BlockEnd(t, a) \subseteq a + 3 .. Len(t)
          /\ StringEnd(t, a) \subseteq a + 1 .. Len(t) /\ RegexEnd(t, a) \subseteq a + 1 .. Len(t)
      BY <2>1, EndsInText
    <2> QED
      BY <2>1, <2>2, <2>3
  <1>1. ~Unread(t, s)
    BY TokenCases
  <1>2. ASSUME t[a] \in Blanks PROVE GoesOn(s, a, n) /\ n.last = s.last /\ n.nest = s.nest
    <2>1. n = Pass(s, a, s.last)
      BY <1>2, TokenCases
    <2> QED
      BY <1>0, <2>1, PassOn
  <1>3. ASSUME Line(t, s)
        PROVE  \E e \in LineEnd(t, a) : GoesIn(s, e, n) /\ n.last = s.last /\ n.nest = s.nest
    <2>1. n = CoverTo(s, LineEnd(t, a), s.last)
      BY <1>3, TokenCases
    <2> QED
      BY <1>0, <2>1, CoverToIn
  <1>4. ASSUME Block(t, s)
        PROVE  \E e \in BlockEnd(t, a) : GoesIn(s, e, n) /\ n.last = s.last /\ n.nest = s.nest
    <2>1. n = CoverTo(s, BlockEnd(t, a), s.last)
      BY <1>4, TokenCases
    <2> QED
      BY <1>0, <2>1, CoverToIn
  <1>5. ASSUME t[a] \in Words
        PROVE  \E e \in WordEnd(t, a) : GoesOn(s, e, n) /\ n.last = WordLast(t, s) /\ n.nest = s.nest
    <2>1. PICK e : e = CHOOSE x \in WordEnd(t, a) : TRUE
      OBVIOUS
    <2>2. e \in WordEnd(t, a) /\ e \in Nat
      BY <1>0, <2>1, WordEnds
    <2>3. n = Pass(s, e, WordLast(t, s)) /\ WordLast(t, s) \in Lasts
      BY <1>5, <2>1, TokenCases DEF WordLast, Lasts
    <2> QED
      BY <2>2, <2>3, PassOn
  <1>6. ASSUME t[a] = "q"
        PROVE  \E e \in StringEnd(t, a) : GoesIn(s, e, n) /\ n.last = "literal" /\ n.nest = s.nest
    <2>1. n = CoverTo(s, StringEnd(t, a), "literal")
      BY <1>6, TokenCases
    <2> QED
      BY <1>0, <2>1, CoverToIn DEF Lasts
  <1>7. ASSUME Opens(t, s)
        PROVE  \E e \in TemplateEnd(t, a) :
                 /\ GoesIn(s, e, n)
                 /\ t[e] = "tick" => n.last = "literal" /\ n.nest = Around(t, s)
                 /\ t[e] # "tick" => n.last = "operator" /\ n.nest = Around(t, s) + 1
    <2>1. Around(t, s) \in Nat
      <3>1. PICK d \in Nat : d = s.nest
        BY <1>0
      <3>2. t[s.at] # "tick" => d > 0
        BY <1>7, <3>1 DEF Opens
      <3>3. d > 0 => d - 1 \in Nat
        OBVIOUS
      <3> QED
        BY <3>1, <3>2, <3>3 DEF Around
    <2>2. n = Chars(t, s, Around(t, s))
      BY <1>7, TokenCases
    <2> QED
      BY <2>1, <2>2, CharsIn
  <1>8. ASSUME Regex(t, s)
        PROVE  \E e \in RegexEnd(t, a) : GoesIn(s, e, n) /\ n.last = "literal" /\ n.nest = s.nest
    <2>1. n = CoverTo(s, RegexEnd(t, a), "literal")
      BY <1>8, TokenCases
    <2> QED
      BY <1>0, <2>1, CoverToIn DEF Lasts
  <1>9. ASSUME Increment(t, s)
        PROVE  /\ GoesOn(s, a + 1, n) /\ n.nest = s.nest
               /\ n.last = IF s.last \in {"word", "operand"} THEN "postfix" ELSE "prefix"
    <2>1. PICK last \in Lasts : last = IF s.last \in {"word", "operand"} THEN "postfix" ELSE "prefix"
      BY DEF Lasts
    <2>2. n = Pass(s, a + 1, last)
      BY <1>9, <2>1, TokenCases
    <2> QED
      BY <1>0, <2>1, <2>2, PassOn
  <1>10. ASSUME Other(t, s) PROVE GoesOn(s, a, n) /\ n.last = PlainLast(t, s) /\ n.nest = s.nest
    <2>1. n = Pass(s, a, PlainLast(t, s)) /\ PlainLast(t, s) \in Lasts
      BY <1>10, TokenCases DEF PlainLast, Lasts
    <2> QED
      BY <1>0, <2>1, PassOn
  <1> QED
    BY <1>1, <1>2, <1>3, <1>4, <1>5, <1>6, <1>7, <1>8, <1>9, <1>10

\* A step keeps the token and adds the shapes met in it.
LEMMA StepKeeps ==
  ASSUME NEW t, NEW s \in ReadingType, s.at <= Len(t), s.ok, NEW m, m = Token(t, s), m \in ReadingType,
         NEW n, n = Step(t, s)
  PROVE  /\ n \in ReadingType /\ n.at = m.at /\ n.last = m.last /\ n.nest = m.nest /\ n.lit = m.lit
         /\ n.ok = m.ok /\ n.shapes = m.shapes \cup Shapes(t, s, n)
  <1>1. s.at \in Nat /\ ~(s.at > Len(t) \/ ~s.ok)
    BY DEF ReadingType
  <1>2. PICK x : x = m.shapes \cup Shapes(t, s, m)
    OBVIOUS
  <1>3. n = [m EXCEPT !.shapes = x]
    BY <1>1, <1>2 DEF Step
  <1>4. x \in SUBSET {"property", "joined", "braced", "divided"}
    BY <1>2 DEF ReadingType, Shapes
  <1>5. /\ n \in ReadingType /\ n.at = m.at /\ n.last = m.last /\ n.nest = m.nest /\ n.lit = m.lit
        /\ n.ok = m.ok /\ n.shapes = x
    BY <1>3, <1>4 DEF ReadingType
  <1>6. Shapes(t, s, m) = Shapes(t, s, n)
    BY <1>5 DEF Shapes, Property, Joined, Braced, Divided
  <1> QED
    BY <1>2, <1>5, <1>6

\* Whatever it is, a token that does not end the reading ends in the text.
LEMMA TokenAdvances ==
  ASSUME NEW t, Len(t) \in Nat, NEW s \in ReadingType, s.at <= Len(t), NEW n, n = Token(t, s), n # Stop(s)
  PROVE  \E e \in s.at .. Len(t) : Goes(s, e, n) /\ n.lit \in {s.lit, s.lit \cup (s.at .. e)}
  <1> DEFINE a == s.at
  <1>0. a \in Nat /\ a + 1 \in Nat /\ a + 3 \in Nat /\ a \in a .. Len(t)
    BY DEF ReadingType
  <1>1. ASSUME NEW e \in a .. Len(t), GoesIn(s, e, n) \/ GoesOn(s, e, n)
        PROVE  \E x \in a .. Len(t) : Goes(s, x, n) /\ n.lit \in {s.lit, s.lit \cup (a .. x)}
    BY <1>1 DEF GoesIn, GoesOn
  <1>2. /\ LineEnd(t, a) \subseteq a .. Len(t) /\ BlockEnd(t, a) \subseteq a + 3 .. Len(t)
        /\ StringEnd(t, a) \subseteq a + 1 .. Len(t) /\ RegexEnd(t, a) \subseteq a + 1 .. Len(t)
        /\ TemplateEnd(t, a) \subseteq a + 1 .. Len(t) /\ WordEnd(t, a) \subseteq a .. Len(t)
    BY <1>0, EndsInText, WordEnds
  <1>3. a + 1 .. Len(t) \subseteq a .. Len(t) /\ a + 3 .. Len(t) \subseteq a .. Len(t)
    BY <1>0
  <1>4. CASE t[a] \in Blanks \/ Other(t, s)
    BY <1>0, <1>1, <1>4, TokenGoes
  <1>5. CASE Line(t, s)
    BY <1>1, <1>2, <1>5, TokenGoes
  <1>6. CASE Block(t, s)
    <2>1. PICK e \in BlockEnd(t, a) : GoesIn(s, e, n)
      BY <1>6, TokenGoes
    <2> QED
      BY <1>1, <1>2, <1>3, <2>1
  <1>7. CASE t[a] \in Words
    <2>1. PICK e \in WordEnd(t, a) : GoesOn(s, e, n)
      BY <1>7, TokenGoes
    <2> QED
      BY <1>1, <1>2, <2>1
  <1>8. CASE t[a] = "q"
    <2>1. PICK e \in StringEnd(t, a) : GoesIn(s, e, n)
      BY <1>8, TokenGoes
    <2> QED
      BY <1>1, <1>2, <1>3, <2>1
  <1>9. CASE Opens(t, s)
    <2>1. PICK e \in TemplateEnd(t, a) : GoesIn(s, e, n)
      BY <1>9, TokenGoes
    <2> QED
      BY <1>1, <1>2, <1>3, <2>1
  <1>10. CASE Regex(t, s)
    <2>1. PICK e \in RegexEnd(t, a) : GoesIn(s, e, n)
      BY <1>10, TokenGoes
    <2> QED
      BY <1>1, <1>2, <1>3, <2>1
  <1>11. CASE Increment(t, s)
    <2>1. a + 1 \in a .. Len(t)
      BY <1>0, <1>11 DEF Increment, Two
    <2>2. GoesOn(s, a + 1, n)
      BY <1>11, TokenGoes
    <2> QED
      BY <1>1, <2>1, <2>2
  <1>12. CASE Unread(t, s)
    BY <1>12, TokenGoes
  <1> QED
    BY <1>4, <1>5, <1>6, <1>7, <1>8, <1>9, <1>10, <1>11, <1>12, AllTokens

(***************************************************************************)
(* A reading and the later ones: what is found stays, what ends stays.     *)
(***************************************************************************)
Sane(t, s) == s \in ReadingType /\ s.at <= Len(t) + 1 /\ s.lit \subseteq 1 .. s.at - 1

\* n is a later reading than s.
Later(s, n) ==
  /\ s.at <= n.at /\ s.shapes \subseteq n.shapes /\ (n.ok => s.ok)
  /\ n.lit \cap (1 .. s.at - 1) = s.lit

LEMMA StepLater ==
  ASSUME NEW t, Len(t) \in Nat, NEW s, Sane(t, s), NEW n, n = Step(t, s)
  PROVE  /\ Sane(t, n) /\ Later(s, n)
         /\ n = s \/ ~n.ok \/ s.at < n.at
         /\ s.ok /\ s.at <= Len(t) /\ n.ok => Token(t, s) # Stop(s)
  <1>1. s \in ReadingType /\ s.at \in Nat \ {0} /\ s.lit \subseteq 1 .. s.at - 1 /\ s.at <= Len(t) + 1
    BY DEF Sane, ReadingType
  <1>2. CASE s.at > Len(t) \/ ~s.ok
    <2>1. n = s
      BY <1>2 DEF Step
    <2>2. Later(s, n)
      BY <1>1, <2>1 DEF Later
    <2> QED
      BY <1>1, <1>2, <2>1, <2>2
  <1>3. CASE s.at <= Len(t) /\ s.ok
    <2>1. PICK m : m = Token(t, s)
      OBVIOUS
    <2>2. CASE m = Stop(s)
      <3>1. m \in ReadingType /\ m.at = s.at /\ m.lit = s.lit /\ ~m.ok /\ m.shapes = s.shapes
        BY <1>1, <2>2, StopStops
      <3>2. /\ n \in ReadingType /\ n.at = s.at /\ n.lit = s.lit /\ ~n.ok
            /\ n.shapes = s.shapes \cup Shapes(t, s, n)
        BY <1>1, <1>3, <2>1, <3>1, StepKeeps
      <3> QED
        BY <1>1, <3>2 DEF Sane, Later
    <2>3. CASE m # Stop(s)
      <3>1. PICK e \in s.at .. Len(t) : Goes(s, e, m) /\ m.lit \in {s.lit, s.lit \cup (s.at .. e)}
        BY <1>1, <1>3, <2>1, <2>3, TokenAdvances
      <3>2. m \in ReadingType /\ m.at = e + 1 /\ m.shapes = s.shapes /\ m.ok = s.ok
        BY <3>1 DEF Goes
      <3>a. m \in ReadingType
        BY <3>2
      <3>0. /\ n \in ReadingType /\ n.at = m.at /\ n.lit = m.lit /\ n.ok = m.ok
            /\ n.shapes = m.shapes \cup Shapes(t, s, n)
        BY <1>1, <1>3, <2>1, <3>a, StepKeeps
      <3>3. /\ n \in ReadingType /\ n.at = e + 1 /\ n.lit = m.lit /\ n.ok
            /\ n.shapes = s.shapes \cup Shapes(t, s, n)
        BY <1>3, <3>0, <3>2
      <3>4. PICK a : a = s.at
        OBVIOUS
      <3>5. a \in Nat \ {0} /\ e \in a .. Len(t) /\ a <= e + 1 /\ a < e + 1 /\ e + 1 <= Len(t) + 1
        BY <1>1, <3>4
      <3>6. n.lit \subseteq 1 .. e /\ (n.lit \cap (1 .. a - 1) = s.lit)
        BY <1>1, <3>1, <3>3, <3>4, <3>5
      <3>7. n.lit \subseteq 1 .. n.at - 1
        BY <3>3, <3>5, <3>6
      <3> QED
        BY <1>1, <1>3, <2>1, <2>3, <3>3, <3>4, <3>5, <3>6, <3>7 DEF Sane, Later
    <2> QED
      BY <2>2, <2>3
  <1> QED
    BY <1>1, <1>2, <1>3

LEMMA StartSane == ASSUME NEW t, Len(t) \in Nat PROVE Sane(t, Start)
  BY DEF Sane, Start, ReadingType, Lasts

LEMMA ReadingsSane ==
  ASSUME NEW t, Len(t) \in Nat
  PROVE  \A k \in Nat : Sane(t, Readings(t)[k])
  <1> DEFINE S == {k \in Nat : Sane(t, Readings(t)[k])}
  <1>1. 0 \in S
    BY StartSane, ReadingsEquation
  <1>2. ASSUME NEW k \in Nat, k \in S PROVE k + 1 \in S
    <2>1. Sane(t, Readings(t)[k])
      BY <1>2
    <2>2. Sane(t, Step(t, Readings(t)[k]))
      BY <2>1, StepLater
    <2> QED
      BY <2>2, ReadingsEquation
  <1> HIDE DEF S
  <1>3. \A k \in Nat : k \in S
    BY <1>1, <1>2, AllNumbers
  <1> QED
    BY <1>3 DEF S

LEMMA LaterTwice ==
  ASSUME NEW t, NEW s, NEW n, NEW m, Sane(t, s), Sane(t, n), Sane(t, m), Later(s, n), Later(n, m)
  PROVE  Later(s, m)
  <1>1. PICK a, b, c : a = s.at /\ b = n.at /\ c = m.at
    OBVIOUS
  <1>2. a \in Nat /\ b \in Nat /\ c \in Nat
    BY <1>1 DEF Sane, ReadingType
  <1>3. a <= b /\ b <= c /\ m.lit \cap (1 .. b - 1) = n.lit /\ n.lit \cap (1 .. a - 1) = s.lit
    BY <1>1 DEF Later
  <1>4. a <= c /\ 1 .. a - 1 \subseteq 1 .. b - 1
    BY <1>2, <1>3
  <1>5. m.lit \cap (1 .. a - 1) = s.lit
    BY <1>3, <1>4
  <1> QED
    BY <1>1, <1>4, <1>5 DEF Later

LEMMA ReadingsLater ==
  ASSUME NEW t, Len(t) \in Nat, NEW j \in Nat, NEW k \in Nat, j <= k
  PROVE  Later(Readings(t)[j], Readings(t)[k])
  <1> DEFINE S == {i \in Nat : j <= i => Later(Readings(t)[j], Readings(t)[i])}
  <1>0. \A i \in Nat : Sane(t, Readings(t)[i])
    BY ReadingsSane
  <1>1. Later(Readings(t)[j], Readings(t)[j])
    <2>1. PICK s : s = Readings(t)[j]
      OBVIOUS
    <2>2. Sane(t, s)
      BY <1>0, <2>1
    <2>3. Later(s, s)
      BY <2>2 DEF Sane, Later, ReadingType
    <2> QED
      BY <2>1, <2>3
  <1>2. 0 \in S
    <2>1. j <= 0 => j = 0
      OBVIOUS
    <2> QED
      BY <1>1, <2>1
  <1>3. ASSUME NEW i \in Nat, i \in S PROVE i + 1 \in S
    <2> SUFFICES ASSUME j <= i + 1 PROVE Later(Readings(t)[j], Readings(t)[i + 1])
      OBVIOUS
    <2>1. CASE j = i + 1
      BY <1>1, <2>1
    <2>2. CASE j <= i
      <3>1. Later(Readings(t)[j], Readings(t)[i])
        BY <1>3, <2>2
      <3>2. Readings(t)[i + 1] = Step(t, Readings(t)[i])
        BY ReadingsEquation
      <3>3. Later(Readings(t)[i], Readings(t)[i + 1])
        BY <1>0, <3>2, StepLater
      <3>4. i + 1 \in Nat
        OBVIOUS
      <3> QED
        BY <1>0, <3>1, <3>3, <3>4, LaterTwice
    <2> QED
      BY <2>1, <2>2
  <1> HIDE DEF S
  <1>4. \A i \in Nat : i \in S
    BY <1>2, <1>3, AllNumbers
  <1> QED
    BY <1>4 DEF S

\* A reading that has ended stays.
LEMMA EndedStays ==
  ASSUME NEW t, Len(t) \in Nat, NEW j \in Nat, NEW k \in Nat, j <= k,
         Readings(t)[j].at > Len(t) \/ ~Readings(t)[j].ok
  PROVE  Readings(t)[k] = Readings(t)[j]
  <1> DEFINE S == {i \in Nat : j <= i => Readings(t)[i] = Readings(t)[j]}
  <1>1. 0 \in S
    <2>1. j <= 0 => j = 0
      OBVIOUS
    <2> QED
      BY <2>1
  <1>2. ASSUME NEW i \in Nat, i \in S PROVE i + 1 \in S
    <2>1. Readings(t)[i + 1] = Step(t, Readings(t)[i])
      BY ReadingsEquation
    <2>2. Step(t, Readings(t)[j]) = Readings(t)[j]
      BY DEF Step
    <2>3. j <= i + 1 => j <= i \/ j = i + 1
      OBVIOUS
    <2> QED
      BY <1>2, <2>1, <2>2, <2>3
  <1> HIDE DEF S
  <1>3. \A i \in Nat : i \in S
    BY <1>1, <1>2, AllNumbers
  <1> QED
    BY <1>3 DEF S

(***************************************************************************)
(* A reading on the way to the end of a text of tokens.                    *)
(***************************************************************************)
Good(t, s) == \E k \in Nat : s = Readings(t)[k]

LEMMA GoodStart == ASSUME NEW t PROVE Good(t, Start)
  BY ReadingsEquation DEF Good

LEMMA GoodStep == ASSUME NEW t, NEW s, Good(t, s) PROVE Good(t, Step(t, s))
  <1>1. PICK k \in Nat : s = Readings(t)[k]
    BY DEF Good
  <1>2. k + 1 \in Nat /\ Step(t, s) = Readings(t)[k + 1]
    BY <1>1, ReadingsEquation
  <1> QED
    BY <1>2 DEF Good

LEMMA GoodFacts ==
  ASSUME NEW t, Len(t) \in Nat, Lexical(t), NEW s, Good(t, s)
  PROVE  /\ Sane(t, s) /\ s.ok
         /\ s.lit = InLiteral(t) \cap (1 .. s.at - 1)
         /\ s.shapes \subseteq Reading(t).shapes
         /\ s.at > Len(t) => s.nest = 0
  <1>1. PICK k \in Nat : s = Readings(t)[k]
    BY DEF Good
  <1>2. PICK last : last = Readings(t)[Len(t)]
    OBVIOUS
  <1>3. last.ok /\ last.at > Len(t) /\ last.nest = 0 /\ Reading(t) = last /\ InLiteral(t) = last.lit
    BY <1>2 DEF Lexical, Reading, InLiteral
  <1>4. Sane(t, s)
    BY <1>1, ReadingsSane
  <1>5. CASE k <= Len(t)
    <2>1. Later(s, last)
      BY <1>1, <1>2, <1>5, ReadingsLater
    <2>2. s.at > Len(t) => last = s
      BY <1>1, <1>2, <1>5, EndedStays
    <2> QED
      BY <1>3, <1>4, <2>1, <2>2 DEF Later
  <1>6. CASE k > Len(t)
    <2>1. s = last
      BY <1>1, <1>2, <1>3, <1>6, EndedStays
    <2>2. s.lit = InLiteral(t) \cap (1 .. s.at - 1)
      BY <1>3, <1>4, <2>1 DEF Sane
    <2> QED
      BY <1>3, <1>4, <2>1, <2>2
  <1> QED
    BY <1>5, <1>6

-----------------------------------------------------------------------------
(***************************************************************************)
(* What holds of a scan in every language.                                 *)
(***************************************************************************)
Symbols == STRING \cup Blanks
Marks == {"q", "dq", "/", "*", "#", "!"}
Modes == {"code", "line", "block", "name", "string", "template", "regex", "flags"}

\* How far a scan has come: what is emitted ends where the token begins, and a
\* token that counts its symbols one by one has not passed the end.
Progress ==
  /\ text \in Seq(Symbols) /\ out \in Seq(Symbols) /\ mode \in Modes
  /\ at \in Nat \ {0} /\ ahead \in Nat /\ at <= ahead
  /\ Len(out) = at - 1 /\ at <= Len(text) + 1
  /\ mode = "code" => ahead = at
  /\ mode # "code" => at <= Len(text)
  /\ mode \in {"line", "name", "flags"} => ahead <= Len(text) + 1
  /\ mode \in {"name", "regex"} => at < ahead
  /\ mode = "string" => quote \in Strings
  /\ mode = "regex" => text[at] = "/"

\* A mask holds at each place the symbol of its text or a space.
Keeps(old, new) == new \in {old, " "} /\ (new = "nl") = (old = "nl")
Masks(m, t) == \A k \in 1 .. Len(m) : Keeps(t[k], m[k])

Kept == Progress /\ Masks(out, text)

LEMMA KeepsRefl == ASSUME NEW c PROVE Keeps(c, c)
  BY DEF Keeps

LEMMA StringShapes ==
  ASSUME NEW q \in Strings
  PROVE  /\ q.open \in Seq(Marks) /\ Len(q.open) \in Nat /\ Len(q.open) > 0
         /\ Len(q.open) = 1 \/ Len(q.open) = 3
  <1>1. q.open \in {<<"q">>, <<"dq">>, <<"q", "q", "q">>, <<"dq", "dq", "dq">>}
    <2>1. CASE lang = "kotlin"
      BY <2>1 DEF Strings, Short, Quote
    <2>2. CASE lang = "python"
      BY <2>2 DEF Strings, Short, Quote
    <2>3. CASE lang \notin {"kotlin", "python"}
      BY <2>3 DEF Strings, Short, Quote
    <2> QED
      BY <2>1, <2>2, <2>3
  <1>2. CASE q.open = <<"q">>
    <2>1. <<"q">> \in Seq(Marks) /\ Len(<<"q">>) = 1
      BY DEF Marks
    <2> QED
      BY <1>2, <2>1
  <1>3. CASE q.open = <<"dq">>
    <2>1. <<"dq">> \in Seq(Marks) /\ Len(<<"dq">>) = 1
      BY DEF Marks
    <2> QED
      BY <1>3, <2>1
  <1>4. CASE q.open = <<"q", "q", "q">>
    <2>1. <<"q", "q", "q">> \in Seq(Marks) /\ Len(<<"q", "q", "q">>) = 3
      BY DEF Marks
    <2> QED
      BY <1>4, <2>1
  <1>5. CASE q.open = <<"dq", "dq", "dq">>
    <2>1. <<"dq", "dq", "dq">> \in Seq(Marks) /\ Len(<<"dq", "dq", "dq">>) = 3
      BY DEF Marks
    <2> QED
      BY <1>5, <2>1
  <1> QED
    BY <1>1, <1>2, <1>3, <1>4, <1>5

LEMMA OpenerLengths ==
  \A q \in Strings : /\ Len(q.open) \in Nat /\ Len(q.open) <= 3
                     /\ Len(q.open) # 3 => Len(q.open) = 1
  <1> SUFFICES ASSUME NEW q \in Strings
               PROVE  /\ Len(q.open) \in Nat /\ Len(q.open) <= 3
                      /\ Len(q.open) # 3 => Len(q.open) = 1
    OBVIOUS
  <1>1. /\ q.open \in Seq(Marks) /\ Len(q.open) \in Nat
        /\ Len(q.open) = 1 \/ Len(q.open) = 3
    BY StringShapes
  <1>2. PICK n : n = Len(q.open)
    OBVIOUS
  <1>3. n \in Nat /\ (n = 1 \/ n = 3)
    BY <1>1, <1>2
  <1>4. n <= 3 /\ (n # 3 => n = 1)
    BY <1>3
  <1> QED
    BY <1>2, <1>3, <1>4

LEMMA StringsSame == ASSUME lang' = lang PROVE Strings' = Strings
  BY DEF Strings

\* What a token is replaced by.
LEMMA Blanked ==
  ASSUME text \in Seq(Symbols), NEW from \in Nat \ {0}, NEW to \in Nat, from <= to, to <= Len(text) + 1
  PROVE  /\ blank(from, to) \in Seq(Symbols) /\ Len(blank(from, to)) = to - from
         /\ \A k \in 1 .. to - from : blank(from, to)[k] \in Blanks
         /\ \A k \in 1 .. to - from : Keeps(text[from + k - 1], blank(from, to)[k])
  <1>1. to - from \in Nat
    OBVIOUS
  <1>2. blank(from, to) \in [1 .. to - from -> Symbols]
    BY DEF blank, Symbols, Blanks
  <1>3. \A k \in 1 .. to - from : blank(from, to)[k] = IF text[from + k - 1] = "nl" THEN "nl" ELSE " "
    BY DEF blank
  <1>4. \A k \in 1 .. to - from : /\ blank(from, to)[k] \in Blanks
                                 /\ Keeps(text[from + k - 1], blank(from, to)[k])
    BY <1>3 DEF Keeps, Blanks
  <1>5. blank(from, to) \in Seq(Symbols) /\ Len(blank(from, to)) = to - from
    BY <1>1, <1>2
  <1> QED
    BY <1>4, <1>5

LEMMA Verbatim ==
  ASSUME text \in Seq(Symbols), NEW from \in Nat \ {0}, NEW to \in Nat, from <= to, to <= Len(text) + 1
  PROVE  /\ pushVerbatim(from, to) \in Seq(Symbols) /\ Len(pushVerbatim(from, to)) = to - from
         /\ \A k \in 1 .. to - from : pushVerbatim(from, to)[k] = text[from + k - 1]
  <1>1. \A k \in 1 .. to - from : text[from + k - 1] \in Symbols
    BY ElementOfSeq
  <1>2. pushVerbatim(from, to) \in [1 .. to - from -> Symbols]
    BY <1>1 DEF pushVerbatim
  <1> QED
    BY <1>2 DEF pushVerbatim

\* A token is emitted: the scan stands behind it.
LEMMA EmitStep ==
  ASSUME Kept, NEW piece \in Seq(Symbols), NEW end \in Nat,
         end = at + Len(piece), end <= Len(text) + 1,
         \A k \in 1 .. Len(piece) : Keeps(text[at + k - 1], piece[k]),
         Emit(piece, end)
  PROVE  /\ Kept' /\ text' = text /\ mode' = "code" /\ at' = end
         /\ Len(out') = end - 1
         /\ \A k \in 1 .. at - 1 : out'[k] = out[k]
         /\ \A k \in 1 .. Len(piece) : out'[at + k - 1] = piece[k]
  <1> USE DEF Kept, Progress
  <1>1. /\ out' = out \o piece /\ at' = end /\ ahead' = end /\ mode' = "code" /\ text' = text
    BY DEF Emit, fixed
  <1>2. /\ out' \in Seq(Symbols) /\ Len(out') = at - 1 + Len(piece)
        /\ \A k \in 1 .. at - 1 + Len(piece) :
             out'[k] = IF k <= at - 1 THEN out[k] ELSE piece[k - (at - 1)]
    BY <1>1, ConcatProperties
  <1>3. \A k \in 1 .. Len(piece) : out'[at + k - 1] = piece[k]
    BY <1>2
  <1>4. \A k \in at .. end - 1 : Keeps(text[k], out'[k])
    <2> TAKE k \in at .. end - 1
    <2> DEFINE j == k - at + 1
    <2>1. j \in 1 .. Len(piece) /\ at + j - 1 = k
      OBVIOUS
    <2> QED
      BY <2>1, <1>3
  <1>5. \A k \in 1 .. at - 1 : out'[k] = out[k]
    BY <1>2
  <1>6. Masks(out', text')
    BY <1>1, <1>2, <1>4, <1>5 DEF Masks
  <1> QED
    BY <1>1, <1>2, <1>3, <1>5, <1>6 DEF Modes

LEMMA KeptInit == ASSUME Init PROVE Kept
  <1>1. src \in Seq(STRING)
    BY InputsAssumption DEF Init
  <1>2. text \in Seq(Symbols)
    BY <1>1 DEF Init, Symbols
  <1>3. out \in Seq(Symbols) /\ Len(out) = 0
    BY DEF Init
  <1> QED
    BY <1>2, <1>3 DEF Init, Kept, Progress, Masks, Modes

\* The token that is being scanned goes on.
LEMMA LookStep ==
  ASSUME Kept, NEW n \in Nat, Look(n), quote' = quote,
         mode \in {"line", "name", "flags"} => n = 1 /\ ahead <= Len(text),
         mode # "code"
  PROVE  Kept'
  BY StringsSame DEF Kept, Progress, Masks, Modes, Look, fixed

LEMMA EnterStep ==
  ASSUME Kept, NEW to \in Modes \ {"code", "flags"}, NEW start \in Nat,
         Enter(to, start), at <= Len(text), at <= start,
         to = "line" => start = at, to \in {"name", "regex"} => start = at + 1,
         to = "string" => quote' \in Strings, to = "regex" => text[at] = "/"
  PROVE  Kept'
  BY StringsSame DEF Kept, Progress, Masks, Modes, Enter, fixed

\* A literal is replaced by blanks up to end.
LEMMA BlankStep ==
  ASSUME Kept, NEW end \in Nat, at <= end, end <= Len(text) + 1, Emit(blank(at, end), end)
  PROVE  Kept'
  <1> USE DEF Kept, Progress
  <1>1. /\ blank(at, end) \in Seq(Symbols) /\ Len(blank(at, end)) = end - at
        /\ \A k \in 1 .. end - at : Keeps(text[at + k - 1], blank(at, end)[k])
    BY Blanked
  <1>2. end = at + Len(blank(at, end))
    BY <1>1
  <1> QED
    BY <1>1, <1>2, EmitStep

LEMMA VerbatimStep ==
  ASSUME Kept, NEW end \in Nat, at <= end, end <= Len(text) + 1, Emit(pushVerbatim(at, end), end)
  PROVE  /\ Kept' /\ text' = text /\ mode' = "code" /\ at' = end /\ Len(out') = end - 1
         /\ \A k \in 1 .. at - 1 : out'[k] = out[k]
         /\ \A k \in at .. end - 1 : out'[k] = text[k]
  <1> USE DEF Kept, Progress
  <1>1. /\ pushVerbatim(at, end) \in Seq(Symbols) /\ Len(pushVerbatim(at, end)) = end - at
        /\ \A k \in 1 .. end - at : pushVerbatim(at, end)[k] = text[at + k - 1]
    BY Verbatim
  <1>2. end = at + Len(pushVerbatim(at, end))
    BY <1>1
  <1>3. \A k \in 1 .. end - at : Keeps(text[at + k - 1], pushVerbatim(at, end)[k])
    BY <1>1, KeepsRefl
  <1>4. /\ Kept' /\ text' = text /\ mode' = "code" /\ at' = end /\ Len(out') = end - 1
        /\ \A k \in 1 .. at - 1 : out'[k] = out[k]
        /\ \A k \in 1 .. end - at : out'[at + k - 1] = text[at + k - 1]
    BY <1>1, <1>2, <1>3, EmitStep
  <1>5. \A k \in at .. end - 1 : out'[k] = text[k]
    <2> TAKE k \in at .. end - 1
    <2>1. k - at + 1 \in 1 .. end - at /\ at + (k - at + 1) - 1 = k
      OBVIOUS
    <2> QED
      BY <1>4, <2>1
  <1> QED
    BY <1>4, <1>5

\* A symbol is emitted as it is.
LEMMA SymbolStep ==
  ASSUME Kept, at <= Len(text), Emit(<<text[at]>>, at + 1)
  PROVE  /\ Kept' /\ text' = text /\ mode' = "code" /\ at' = at + 1 /\ Len(out') = at
         /\ \A k \in 1 .. at - 1 : out'[k] = out[k]
         /\ out'[at] = text[at]
  <1>1. text[at] \in Symbols
    BY ElementOfSeq DEF Kept, Progress
  <1>2. PICK piece, end : piece = <<text[at]>> /\ end = at + 1
    OBVIOUS
  <1>3. piece \in Seq(Symbols) /\ Len(piece) = 1 /\ piece[1] = text[at]
    BY <1>1, <1>2
  <1>4. /\ Emit(piece, end) /\ end = at + Len(piece) /\ end \in Nat /\ end <= Len(text) + 1
    BY <1>2, <1>3 DEF Kept, Progress
  <1>5. \A k \in 1 .. Len(piece) : Keeps(text[at + k - 1], piece[k])
    BY <1>3, KeepsRefl DEF Kept, Progress
  <1>6. /\ Kept' /\ text' = text /\ mode' = "code" /\ at' = end /\ Len(out') = end - 1
        /\ \A k \in 1 .. at - 1 : out'[k] = out[k]
        /\ \A k \in 1 .. Len(piece) : out'[at + k - 1] = piece[k]
    BY <1>3, <1>4, <1>5, EmitStep
  <1> QED
    BY <1>2, <1>3, <1>6 DEF Kept, Progress

\* A token matched in the text lies within it.
LEMMA MatchEnds ==
  ASSUME NEW t \in Seq(Symbols), NEW i \in Nat, NEW tok \in Seq(Marks), Len(tok) > 0,
         Matches(t, i, tok)
  PROVE  i + Len(tok) <= Len(t) + 1
  <1>1. Len(tok) \in DOMAIN tok
    OBVIOUS
  <1>2. i + Len(tok) - 1 \in DOMAIN t
    BY <1>1 DEF Matches
  <1> QED
    BY <1>2

LEMMA KeptStep == ASSUME Kept, [Next]_vars PROVE Kept'
  <1> USE DEF Kept, Progress
  <1>1. CASE Space
    BY <1>1, SymbolStep DEF Space, Scanning
  <1>2. CASE OpenComment
    BY <1>2, EnterStep DEF OpenComment, Scanning, Modes
  <1>3. CASE OpenName
    BY <1>3, EnterStep DEF OpenName, Scanning, Modes
  <1>4. CASE OpenString
    BY <1>4, EnterStep, StringShapes DEF OpenString, Scanning, Modes, StringHit
  <1>5. CASE OpenTemplate
    BY <1>5, EnterStep DEF OpenTemplate, Scanning, Modes
  <1>6. CASE OpenRegex
    BY <1>6, EnterStep DEF OpenRegex, Scanning, Modes, SlashHit
  <1>7. CASE Divide
    BY <1>7, SymbolStep DEF Divide, Division, Scanning, SlashHit
  <1>8. CASE Ordinary
    BY <1>8, SymbolStep DEF Ordinary, Scanning
  <1>9. CASE LineComment
    BY <1>9, LookStep, BlankStep DEF LineComment, Ended, scanVars
  <1>10. CASE BlockComment
    <2> SUFFICES ASSUME BlockComment PROVE Kept'
      BY <1>10
    <2>1. CASE Ended
      BY <2>1, BlankStep DEF BlockComment
    <2>2. CASE ~Ended /\ Matches(text, ahead, <<"*", "/">>)
      <3>1. <<"*", "/">> \in Seq(Marks) /\ Len(<<"*", "/">>) = 2
        BY DEF Marks
      <3>2. ahead + Len(<<"*", "/">>) <= Len(text) + 1
        <4>1. Len(<<"*", "/">>) > 0
          OBVIOUS
        <4> QED
          BY <2>2, <3>1, <4>1, MatchEnds
      <3> QED
        BY <2>2, <3>1, <3>2, BlankStep DEF BlockComment
    <2>3. CASE ~Ended /\ ~Matches(text, ahead, <<"*", "/">>)
      BY <2>3, LookStep DEF BlockComment, scanVars
    <2> QED
      BY <2>1, <2>2, <2>3
  <1>11. CASE Name
    <2> SUFFICES ASSUME Name PROVE Kept'
      BY <1>11
    <2>1. CASE ~Ended /\ text[ahead] \notin {"tick", "nl"}
      BY <2>1, LookStep DEF Name, Ended, scanVars
    <2>2. CASE Ended \/ text[ahead] \in {"tick", "nl"}
      <3> DEFINE end == IF ~Ended /\ text[ahead] = "tick" THEN ahead + 1 ELSE ahead
      <3>1. Emit(pushVerbatim(at, end), end)
        BY <2>2 DEF Name
      <3>2. end \in Nat /\ at <= end /\ end <= Len(text) + 1
        BY DEF Ended, Name
      <3> HIDE DEF end
      <3> QED
        BY <3>1, <3>2, VerbatimStep
    <2> QED
      BY <2>1, <2>2
  <1>12. CASE consumeString
    <2> SUFFICES ASSUME consumeString PROVE Kept'
      BY <1>12
    <2> USE DEF consumeString
    <2>1. CASE ~Ended /\ quote.escape /\ text[ahead] = "esc"
      BY <2>1, LookStep DEF scanVars
    <2>2. CASE ~(~Ended /\ quote.escape /\ text[ahead] = "esc") /\ (Ended \/ StopsAtLine)
      BY <2>2, BlankStep DEF Ended, Capped
    <2>3. CASE ~(~Ended /\ quote.escape /\ text[ahead] = "esc") /\ ~(Ended \/ StopsAtLine)
      <3>1. CASE Matches(text, ahead, quote.open)
        <4>1. quote.open \in Seq(Marks) /\ Len(quote.open) \in Nat /\ Len(quote.open) > 0
          BY StringShapes
        <4>2. ahead + Len(quote.open) <= Len(text) + 1
          BY <3>1, <4>1, MatchEnds
        <4> QED
          BY <2>3, <3>1, <4>1, <4>2, BlankStep
      <3>2. CASE ~Matches(text, ahead, quote.open)
        BY <2>3, <3>2, LookStep DEF scanVars
      <3> QED
        BY <3>1, <3>2
    <2> QED
      BY <2>1, <2>2, <2>3
  <1>13. CASE consumeTemplate
    <2> SUFFICES ASSUME consumeTemplate PROVE Kept'
      BY <1>13
    <2> USE DEF consumeTemplate, Ended
    <2>1. CASE Ended
      BY <2>1, BlankStep DEF Capped
    <2>2. CASE ~Ended /\ text[ahead] # "esc" /\ depth = 0 /\ text[ahead] = "tick"
      BY <2>2, BlankStep
    <2>3. CASE ~Ended /\ (text[ahead] = "esc" \/ ~(depth = 0 /\ text[ahead] = "tick"))
      <3>1. \E n \in {1, 2} : Look(n) /\ quote' = quote
        BY <2>3 DEF scanVars
      <3> QED
        BY <3>1, LookStep
    <2> QED
      BY <2>1, <2>2, <2>3
  <1>14. CASE consumeRegex
    <2> SUFFICES ASSUME consumeRegex PROVE Kept'
      BY <1>14
    <2> USE DEF consumeRegex, Ended
    <2>1. CASE Ended \/ text[ahead] = "nl"
      BY <2>1, SymbolStep DEF Division
    <2>2. CASE ~(Ended \/ text[ahead] = "nl")
               /\ ~(text[ahead] # "esc" /\ text[ahead] = "/" /\ ~inClass)
      <3>1. \E n \in {1, 2} : Look(n) /\ quote' = quote
        BY <2>2 DEF scanVars
      <3> QED
        BY <3>1, LookStep
    <2>3. CASE ~(Ended \/ text[ahead] = "nl") /\ text[ahead] # "esc" /\ text[ahead] = "/" /\ ~inClass
      BY <2>3, StringsSame DEF fixed, Masks, Modes, scanVars
    <2> QED
      BY <2>1, <2>2, <2>3
  <1>15. CASE regexFlags
    BY <1>15, LookStep, BlankStep DEF regexFlags, Ended, scanVars
  <1>16. CASE Again
    BY <1>16 DEF Again, Masks, Modes
  <1>17. CASE UNCHANGED vars
    BY <1>17, StringsSame DEF vars, fixed, scanVars, Masks
  <1> QED
    BY <1>1, <1>2, <1>3, <1>4, <1>5, <1>6, <1>7, <1>8, <1>9, <1>10, <1>11, <1>12, <1>13, <1>14,
       <1>15, <1>16, <1>17 DEF Next

\* Lines are kept in a text of any length, in every language: what is emitted
\* is at every step as long as what has been scanned, and none of the scanning
\* functions returns past the end of the text or before its token.
THEOREM LinesTheorem == Spec => []LinesKept
  <1>1. Kept => LinesKept
    <2> SUFFICES ASSUME Kept PROVE LinesKept
      OBVIOUS
    <2>1. Masked => Len(out) = Len(text)
      BY DEF Kept, Progress, Masked
    <2>2. DOMAIN out = 1 .. Len(out) /\ 1 .. Len(out) \subseteq DOMAIN text
      BY DEF Kept, Progress
    <2>3. \A k \in 1 .. Len(out) : Keeps(text[k], out[k])
      BY DEF Kept, Masks
    <2> QED
      BY <2>1, <2>2, <2>3 DEF Keeps, LinesKept
  <1> QED
    BY <1>1, KeptInit, KeptStep, PTL DEF Spec

-----------------------------------------------------------------------------
(***************************************************************************)
(* The languages without regular expressions.  A symbol of the mask that   *)
(* is not blank stands in a quoted identifier, or no literal opens at it;  *)
(* so the second scan meets no literal but the identifiers, and at the     *)
(* same places.                                                            *)
(***************************************************************************)
Mask == IF pass = 1 THEN out ELSE text
InName(k) == \E nm \in names : nm[1] <= k /\ k < nm[2]

\* No literal opens at k.
Plain(k) ==
  /\ ~Matches(src, k, LineOpen)
  /\ k = 1 => ~Matches(src, 1, <<"#", "!">>)
  /\ lang # "python" => ~Matches(src, k, BlockOpen)
  /\ lang = "kotlin" => src[k] # "tick"
  /\ \A q \in Strings : ~Matches(src, k, q.open)

\* From a to b a quoted identifier stands, closed or broken off by its line.
Inside(a, b) == \A k \in a .. b : src[k] \notin {"tick", "nl"}
QuotedName(a, b) ==
  /\ src[a] = "tick"
  /\ \/ a < b - 1 /\ Inside(a + 1, b - 2) /\ src[b - 1] = "tick"
     \/ Inside(a + 1, b - 1) /\ (b > Len(src) \/ src[b] = "nl")
IsName(nm) ==
  /\ nm[1] \in Nat \ {0} /\ nm[2] \in Nat /\ nm[1] < nm[2] /\ nm[2] <= Len(Mask) + 1
  /\ QuotedName(nm[1], nm[2])
  /\ \A k \in nm[1] .. nm[2] - 1 : Mask[k] = src[k]
Apart(nm, other) == nm = other \/ nm[2] <= other[1] \/ other[2] <= nm[1]

Named ==
  /\ names # {} => lang = "kotlin"
  /\ \A nm \in names : IsName(nm)
  /\ \A nm, other \in names : Apart(nm, other)

First ==
  /\ lang \in {"kotlin", "java", "python"} /\ pass \in {1, 2}
  /\ pass = 1 => text = src
  /\ pass = 2 => Len(text) = Len(src)
  /\ mode \notin {"template", "regex", "flags"}
  /\ mode = "name" => /\ lang = "kotlin" /\ text[at] = "tick"
                      /\ \A k \in at + 1 .. ahead - 1 : text[k] \notin {"tick", "nl"}
  /\ src \in Seq(Symbols) /\ Masks(Mask, src)
  /\ \A k \in 1 .. Len(Mask) : Mask[k] \in Blanks \/ InName(k) \/ Plain(k)
  /\ Named

Second ==
  pass = 2 =>
    /\ mode \in {"code", "name"}
    /\ \A k \in 1 .. Len(out) : out[k] = text[k]
    /\ mode = "code" => \A nm \in names : ~(nm[1] < at /\ at < nm[2])
    /\ mode = "name" => \E nm \in names : nm[1] = at

LEMMA PlainSame == ASSUME lang' = lang, src' = src PROVE \A k : Plain(k)' <=> Plain(k)
  <1>1. Strings' = Strings
    BY StringsSame
  <1> QED
    BY <1>1 DEF Plain, LineOpen

\* A mask that grows keeps the identifiers it has.
LEMMA IsNameSame ==
  ASSUME src' = src, Len(Mask) \in Nat, Len(Mask') \in Nat,
         Len(Mask) <= Len(Mask'), \A k \in 1 .. Len(Mask) : Mask'[k] = Mask[k],
         NEW nm, IsName(nm)
  PROVE  IsName(nm)'
  <1>1. \A k \in nm[1] .. nm[2] - 1 : k \in 1 .. Len(Mask)
    BY DEF IsName
  <1>2. QuotedName(nm[1], nm[2])'
    BY DEF IsName, QuotedName, Inside
  <1>3. \A k \in nm[1] .. nm[2] - 1 : Mask'[k] = src[k]
    BY <1>1 DEF IsName
  <1> QED
    BY <1>2, <1>3 DEF IsName

LEMMA NamedSame ==
  ASSUME Named, src' = src, lang' = lang, names' = names, Len(Mask) \in Nat, Len(Mask') \in Nat,
         Len(Mask) <= Len(Mask'), \A k \in 1 .. Len(Mask) : Mask'[k] = Mask[k]
  PROVE  Named'
  BY IsNameSame DEF Named, Apart

\* The first pass emits symbols that are blank or at which nothing opens.
LEMMA FirstGrows ==
  ASSUME Kept, Kept', First, pass = 1, UNCHANGED fixed, names' = names, mode' = "code",
         NEW end \in Nat, at <= end, Len(out') = end - 1,
         \A k \in 1 .. at - 1 : out'[k] = out[k],
         \A k \in at .. end - 1 : out'[k] \in Blanks \/ Plain(k)
  PROVE  First'
  <1>1. pass' = 1 /\ text' = text /\ src' = src /\ lang' = lang
    BY DEF fixed
  <1>2. Mask = out /\ Mask' = out' /\ Len(out) = at - 1 /\ at \in Nat
    BY <1>1 DEF Mask, Kept, Progress
  <1>3. Named'
    BY <1>1, <1>2, NamedSame DEF First
  <1>4. \A k : InName(k)' <=> InName(k)
    BY DEF InName
  <1>5. \A k : Plain(k)' <=> Plain(k)
    BY <1>1, PlainSame
  <1>6. \A k \in 1 .. Len(Mask') : Mask'[k] \in Blanks \/ InName(k)' \/ Plain(k)'
    BY <1>2, <1>4, <1>5 DEF First
  <1>7. Masks(Mask', src')
    BY <1>1, <1>2 DEF Kept, First
  <1> QED
    BY <1>1, <1>3, <1>6, <1>7 DEF First

LEMMA FirstBlanks ==
  ASSUME Kept, First, pass = 1, names' = names, NEW end \in Nat, at <= end, end <= Len(text) + 1,
         Emit(blank(at, end), end)
  PROVE  First'
  <1> USE DEF Kept, Progress
  <1>1. /\ blank(at, end) \in Seq(Symbols) /\ Len(blank(at, end)) = end - at
        /\ \A k \in 1 .. end - at : /\ blank(at, end)[k] \in Blanks
                                   /\ Keeps(text[at + k - 1], blank(at, end)[k])
    BY Blanked
  <1>2. end = at + Len(blank(at, end))
    BY <1>1
  <1>3. /\ Kept' /\ mode' = "code" /\ Len(out') = end - 1
        /\ \A k \in 1 .. at - 1 : out'[k] = out[k]
        /\ \A k \in 1 .. end - at : out'[at + k - 1] = blank(at, end)[k]
    BY <1>1, <1>2, EmitStep
  <1>4. \A k \in at .. end - 1 : out'[k] \in Blanks
    <2> TAKE k \in at .. end - 1
    <2>1. k - at + 1 \in 1 .. end - at /\ at + (k - at + 1) - 1 = k
      OBVIOUS
    <2> QED
      BY <1>1, <1>3, <2>1
  <1> HIDE DEF Kept, Progress
  <1> QED
    BY <1>3, <1>4, FirstGrows DEF Emit, Kept, Progress

LEMMA FirstSymbol ==
  ASSUME Kept, First, pass = 1, names' = names, at <= Len(text), Emit(<<text[at]>>, at + 1),
         text[at] \in Blanks \/ Plain(at)
  PROVE  First'
  <1>1. /\ Kept' /\ mode' = "code" /\ Len(out') = at + 1 - 1 /\ at + 1 \in Nat /\ at <= at + 1
        /\ \A k \in 1 .. at - 1 : out'[k] = out[k]
        /\ \A k \in at .. at + 1 - 1 : out'[k] \in Blanks \/ Plain(k)
    BY SymbolStep DEF Kept, Progress
  <1>2. PICK end : end = at + 1
    OBVIOUS
  <1>3. /\ Len(out') = end - 1 /\ end \in Nat /\ at <= end
        /\ \A k \in at .. end - 1 : out'[k] \in Blanks \/ Plain(k)
    <2>1. at \in Nat
      BY DEF Kept, Progress
    <2>2. end - 1 = at /\ end \in Nat /\ at <= end /\ Len(out') = end - 1
      BY <1>1, <1>2, <2>1
    <2>3. \A k \in at .. end - 1 : k = at
      BY <2>1, <2>2
    <2>4. out'[at] \in Blanks \/ Plain(at)
      BY SymbolStep
    <2> QED
      BY <2>2, <2>3, <2>4
  <1>4. UNCHANGED fixed
    BY DEF Emit
  <1> QED
    BY <1>1, <1>3, <1>4, FirstGrows

\* Where the scan finds no literal, none opens.
LEMMA OrdinaryIsPlain ==
  ASSUME text = src, ~Literal(at)
  PROVE  Plain(at)
  <1>1. ASSUME NEW q \in Strings, Matches(text, at, q.open) PROVE FALSE
    <2>1. CASE \E r \in Strings : Matches(text, at, r.open) /\ Len(r.open) = 3
      <3>1. PICK r \in Strings : Matches(text, at, r.open) /\ Len(r.open) = 3
        BY <2>1
      <3>2. r \in StringHit(at)
        BY <3>1, OpenerLengths DEF StringHit
      <3> QED
        BY <3>2 DEF Literal
    <2>2. CASE ~\E r \in Strings : Matches(text, at, r.open) /\ Len(r.open) = 3
      <3>1. q \in StringHit(at)
        BY <1>1, <2>2, OpenerLengths DEF StringHit
      <3> QED
        BY <3>1 DEF Literal
    <2> QED
      BY <2>1, <2>2
  <1> QED
    BY <1>1 DEF Plain, Literal, LineHit, Shebang, BlockHit, NameHit

\* The mask stays as it was.
LEMMA FirstMask ==
  ASSUME Kept, First, UNCHANGED <<fixed, names>>, Mask' = Mask,
         mode' \notin {"template", "regex", "flags"},
         mode' = "name" => /\ lang = "kotlin" /\ text[at'] = "tick"
                          /\ \A k \in at' + 1 .. ahead' - 1 : text[k] \notin {"tick", "nl"}
  PROVE  First'
  <1>1. pass' = pass /\ text' = text /\ src' = src /\ lang' = lang
    BY DEF fixed
  <1>2. Len(Mask) \in Nat
    BY <1>1 DEF Mask, Kept, Progress
  <1>3. Named'
    BY <1>1, <1>2, NamedSame DEF First
  <1>4. \A k : Plain(k)' <=> Plain(k)
    BY <1>1, PlainSame
  <1>5. \A k : InName(k)' <=> InName(k)
    BY DEF InName
  <1>6. \A k \in 1 .. Len(Mask') : Mask'[k] \in Blanks \/ InName(k)' \/ Plain(k)'
    BY <1>2, <1>4, <1>5 DEF First
  <1> QED
    BY <1>1, <1>2, <1>3, <1>6 DEF First, Masks

\* The token goes on or another begins.
LEMMA FirstStays ==
  ASSUME Kept, First, UNCHANGED <<fixed, out, names>>,
         mode' \notin {"template", "regex", "flags"},
         mode' = "name" => /\ lang = "kotlin" /\ text[at'] = "tick"
                          /\ \A k \in at' + 1 .. ahead' - 1 : text[k] \notin {"tick", "nl"}
  PROVE  First'
  <1>1. Mask' = Mask
    BY DEF Mask, fixed
  <1> QED
    BY <1>1, FirstMask

\* The first pass keeps a quoted identifier.
LEMMA FirstName ==
  ASSUME Kept, First, pass = 1, Name, Ended \/ text[ahead] \in {"tick", "nl"}
  PROVE  First'
  <1> DEFINE closed == ~Ended /\ text[ahead] = "tick"
             stop == IF closed THEN ahead + 1 ELSE ahead
  <1>1. /\ mode = "name" /\ lang = "kotlin" /\ text = src /\ text[at] = "tick"
        /\ \A k \in at + 1 .. ahead - 1 : text[k] \notin {"tick", "nl"}
        /\ at \in Nat \ {0} /\ ahead \in Nat /\ at < ahead /\ ahead <= Len(text) + 1
        /\ Len(out) = at - 1 /\ Len(text) \in Nat
    BY DEF Name, First, Kept, Progress
  <1>2. PICK start, end, new : start = at /\ end = stop /\ new = <<start, end>>
    OBVIOUS
  <1>3. /\ Emit(pushVerbatim(at, end), end) /\ names' = names \cup {new}
        /\ end \in Nat /\ at < end /\ end <= Len(text) + 1
    <2>1. Emit(pushVerbatim(at, stop), stop) /\ names' = names \cup {<<at, stop>>}
      BY DEF Name
    <2>2. stop \in Nat /\ at < stop /\ stop <= Len(text) + 1
      BY <1>1 DEF Ended
    <2> HIDE DEF stop
    <2> QED
      BY <1>2, <2>1, <2>2
  <1>4. QuotedName(start, end)
    <2>1. CASE closed
      <3>1. end = ahead + 1 /\ at < end - 1 /\ end - 1 = ahead /\ end - 2 = ahead - 1
        BY <2>1, <1>1, <1>2
      <3> QED
        BY <2>1, <3>1, <1>1, <1>2 DEF QuotedName, Inside
    <2>2. CASE ~closed
      <3>1. end = ahead
        BY <2>2, <1>2
      <3>2. end > Len(src) \/ src[end] = "nl"
        BY <2>2, <3>1, <1>1 DEF Ended
      <3> QED
        BY <3>1, <3>2, <1>1, <1>2 DEF QuotedName, Inside
    <2> QED
      BY <2>1, <2>2
  <1> HIDE DEF closed, stop
  <1>5. /\ Kept' /\ text' = text /\ mode' = "code" /\ at' = end /\ Len(out') = end - 1
        /\ \A k \in 1 .. at - 1 : out'[k] = out[k]
        /\ \A k \in at .. end - 1 : out'[k] = text[k]
    <2>1. at <= end
      BY <1>1, <1>3
    <2> QED
      BY <1>3, <2>1, VerbatimStep
  <1>6. pass' = 1 /\ src' = src /\ lang' = lang
    BY <1>3 DEF Emit, fixed
  <1>7. Mask = out /\ Mask' = out'
    BY <1>6 DEF Mask
  <1>8. \A nm \in names : IsName(nm)'
    BY <1>1, <1>3, <1>5, <1>6, <1>7, IsNameSame DEF First, Named
  <1>9. new[1] = at /\ new[2] = end /\ start = at
    BY <1>2
  <1>10. IsName(new)'
    <2>1. QuotedName(start, end)'
      BY <1>4, <1>6 DEF QuotedName, Inside
    <2>2. QuotedName(new[1], new[2])'
      BY <2>1, <1>9
    <2> QED
      BY <2>2, <1>1, <1>3, <1>5, <1>6, <1>7, <1>9 DEF IsName
  <1>11. \A nm \in names : Apart(nm, new) /\ Apart(new, nm)
    BY <1>1, <1>7, <1>9 DEF First, Named, IsName, Apart
  <1>12. Named'
    BY <1>1, <1>3, <1>6, <1>8, <1>10, <1>11 DEF First, Named, Apart
  <1>13. \A k \in 1 .. Len(Mask') : Mask'[k] \in Blanks \/ InName(k)' \/ Plain(k)'
    <2> TAKE k \in 1 .. Len(Mask')
    <2>1. Plain(k)' <=> Plain(k)
      BY <1>6, PlainSame
    <2>2. CASE k < at
      <3>1. Mask[k] \in Blanks \/ InName(k) \/ Plain(k)
        BY <2>2, <1>1, <1>7 DEF First
      <3>2. Mask'[k] = Mask[k]
        BY <2>2, <1>1, <1>5, <1>7
      <3>3. InName(k) => InName(k)'
        BY <1>3 DEF InName
      <3> QED
        BY <2>1, <3>1, <3>2, <3>3
    <2>3. CASE k >= at
      <3>1. new \in names' /\ new[1] <= k /\ k < new[2]
        BY <2>3, <1>1, <1>3, <1>5, <1>7, <1>9
      <3> QED
        BY <3>1 DEF InName
    <2> QED
      BY <2>2, <2>3, <1>1, <1>3, <1>5, <1>7
  <1>14. Masks(Mask', src')
    BY <1>1, <1>5, <1>6, <1>7 DEF Kept
  <1> QED
    BY <1>1, <1>5, <1>6, <1>12, <1>13, <1>14 DEF First

LEMMA FirstStep ==
  ASSUME Kept, First, pass = 1, Next
  PROVE  First' /\ Second'
  <1> USE DEF scanVars, tokenVars
  <1>1. ASSUME ~Again, First' PROVE Second'
    <2>1. pass' = pass
      BY <1>1 DEF Next, Space, OpenComment, OpenName, OpenString, OpenTemplate, OpenRegex, Divide, Division,
         Ordinary, LineComment, BlockComment, Name, consumeString, consumeTemplate, consumeRegex,
         regexFlags, Emit, Enter, Look, fixed
    <2> QED
      BY <2>1 DEF Second
  <1>2. ASSUME Space PROVE First'
    BY <1>2, FirstSymbol DEF Space, Scanning
  <1>3. ASSUME OpenComment PROVE First'
    BY <1>3, FirstStays DEF OpenComment, Enter
  <1>4. ASSUME OpenName PROVE First'
    <2>1. /\ mode' = "name" /\ at' = at /\ ahead' = at + 1 /\ lang = "kotlin" /\ text[at] = "tick"
          /\ UNCHANGED <<fixed, out, names>>
      BY <1>4 DEF OpenName, Enter, NameHit
    <2>2. \A k \in at + 1 .. at + 1 - 1 : FALSE
      BY DEF Kept, Progress
    <2> QED
      BY <2>1, <2>2, FirstStays
  <1>5. ASSUME OpenString PROVE First'
    BY <1>5, FirstStays DEF OpenString, Enter
  <1>6. ASSUME Ordinary PROVE First'
    BY <1>6, FirstSymbol, OrdinaryIsPlain DEF Ordinary, Scanning, First
  <1>7. ASSUME LineComment PROVE First'
    <2> USE <1>7
    <2>1. CASE ~Ended /\ text[ahead] # "nl"
      BY <2>1, FirstStays DEF LineComment, Look
    <2>2. CASE ~(~Ended /\ text[ahead] # "nl")
      BY <2>2, FirstBlanks DEF LineComment, Kept, Progress
    <2> QED
      BY <2>1, <2>2
  <1>8. ASSUME BlockComment PROVE First'
    <2> USE <1>8
    <2>1. CASE Ended
      <3>1. at <= Len(text) + 1 /\ Len(text) + 1 \in Nat
        BY DEF Kept, Progress
      <3> QED
        BY <2>1, <3>1, FirstBlanks DEF BlockComment
    <2>2. CASE ~Ended /\ Matches(text, ahead, <<"*", "/">>)
      <3>1. <<"*", "/">> \in Seq(Marks) /\ Len(<<"*", "/">>) = 2
        BY DEF Marks
      <3>2. ahead + Len(<<"*", "/">>) <= Len(text) + 1
        <4>1. Len(<<"*", "/">>) > 0
          OBVIOUS
        <4> QED
          BY <2>2, <3>1, <4>1, MatchEnds DEF Kept, Progress
      <3>3. ahead + 2 <= Len(text) + 1 /\ at <= ahead + 2 /\ ahead + 2 \in Nat
        BY <3>1, <3>2 DEF Kept, Progress
      <3> QED
        BY <2>2, <3>3, FirstBlanks DEF BlockComment
    <2>3. CASE ~Ended /\ ~Matches(text, ahead, <<"*", "/">>)
      BY <2>3, FirstStays DEF BlockComment, Look
    <2> QED
      BY <2>1, <2>2, <2>3
  <1>9. ASSUME Name PROVE First'
    <2>1. CASE ~Ended /\ text[ahead] \notin {"tick", "nl"}
      <3>1. /\ UNCHANGED <<fixed, out, names>> /\ mode' = "name" /\ at' = at /\ ahead' = ahead + 1
        BY <1>9, <2>1 DEF Name, Look
      <3>2. lang = "kotlin" /\ text[at] = "tick"
        BY <1>9 DEF Name, First
      <3>3. \A k \in at + 1 .. ahead' - 1 : text[k] \notin {"tick", "nl"}
        <4>1. \A k \in at + 1 .. ahead - 1 : text[k] \notin {"tick", "nl"}
          BY <1>9 DEF Name, First
        <4>2. \A k \in at + 1 .. ahead' - 1 : k \in at + 1 .. ahead - 1 \/ k = ahead
          BY <3>1 DEF Kept, Progress
        <4> QED
          BY <2>1, <4>1, <4>2
      <3> QED
        BY <3>1, <3>2, <3>3, FirstStays
    <2>2. CASE Ended \/ text[ahead] \in {"tick", "nl"}
      BY <1>9, <2>2, FirstName
    <2> QED
      BY <2>1, <2>2
  <1>10. ASSUME consumeString PROVE First'
    <2> USE <1>10
    <2>1. CASE Look(1) \/ Look(2)
      BY <2>1, FirstStays DEF Look, consumeString
    <2>2. CASE ~(Look(1) \/ Look(2)) /\ (Ended \/ StopsAtLine)
      <3>1. Emit(blank(at, Capped), Capped) /\ names' = names
        BY <2>2 DEF consumeString
      <3>2. Capped \in Nat /\ at <= Capped /\ Capped <= Len(text) + 1
        BY DEF Capped, Ended, Kept, Progress
      <3> QED
        BY <3>1, <3>2, FirstBlanks
    <2>3. CASE ~(Look(1) \/ Look(2)) /\ ~(Ended \/ StopsAtLine)
      <3>1. /\ Matches(text, ahead, quote.open) /\ names' = names
            /\ Emit(blank(at, ahead + Len(quote.open)), ahead + Len(quote.open))
        BY <2>3 DEF consumeString
      <3>2. quote.open \in Seq(Marks) /\ Len(quote.open) \in Nat /\ Len(quote.open) > 0
        BY StringShapes DEF consumeString, Kept, Progress
      <3>3. ahead + Len(quote.open) <= Len(text) + 1
        BY <3>1, <3>2, MatchEnds DEF Kept, Progress
      <3>4. ahead + Len(quote.open) \in Nat /\ at <= ahead + Len(quote.open)
        BY <3>2 DEF Kept, Progress
      <3> QED
        BY <3>1, <3>3, <3>4, FirstBlanks
    <2> QED
      BY <2>1, <2>2, <2>3
  <1>11. CASE OpenTemplate \/ OpenRegex \/ Divide
    BY <1>11 DEF First, OpenTemplate, TemplateHit, OpenRegex, Divide, SlashHit
  <1>12. CASE consumeTemplate \/ consumeRegex \/ regexFlags
    BY <1>12 DEF First, consumeTemplate, consumeRegex, regexFlags
  <1>13. CASE Again
    <2>1. /\ mode = "code" /\ at > Len(text) /\ pass' = 2 /\ text' = out /\ out' = <<>> /\ at' = 1
          /\ ahead' = 1 /\ UNCHANGED <<lang, src, mode, names>>
      BY <1>13 DEF Again
    <2>2. Len(out) = Len(text) /\ text = src
      BY <2>1 DEF Kept, Progress, First
    <2>3. Mask' = out /\ Mask = out
      BY <2>1 DEF Mask
    <2>4. Named'
      BY <2>1, <2>3, NamedSame DEF First, Kept, Progress
    <2>5. \A k : (Plain(k)' <=> Plain(k)) /\ (InName(k)' <=> InName(k))
      BY <2>1, PlainSame DEF InName
    <2>6. First'
      BY <2>1, <2>2, <2>3, <2>4, <2>5 DEF First, Masks
    <2>7. \A nm \in names' : ~(nm[1] < at' /\ at' < nm[2])
      <3>1. \A nm \in names' : nm[1] \in Nat \ {0}
        BY <2>4 DEF Named, IsName
      <3> QED
        BY <2>1, <3>1
    <2>8. Len(out') = 0
      BY <2>1
    <2> QED
      BY <2>1, <2>6, <2>7, <2>8 DEF Second
  <1> QED
    BY <1>1, <1>2, <1>3, <1>4, <1>5, <1>6, <1>7, <1>8, <1>9, <1>10, <1>11, <1>12, <1>13 DEF Next

\* What matches in a mask matches in its text.
LEMMA MatchInSource ==
  ASSUME NEW m \in Seq(Symbols), NEW t \in Seq(Symbols), Masks(m, t), Len(m) = Len(t),
         NEW i \in Nat, NEW tok \in Seq(Marks), Matches(m, i, tok)
  PROVE  Matches(t, i, tok)
  <1> SUFFICES ASSUME NEW k \in DOMAIN tok
               PROVE  i + k - 1 \in DOMAIN t /\ t[i + k - 1] = tok[k]
    BY DEF Matches
  <1>1. i + k - 1 \in DOMAIN m /\ m[i + k - 1] = tok[k]
    BY DEF Matches
  <1>2. tok[k] # " "
    <2>1. tok[k] \in Marks
      OBVIOUS
    <2> QED
      BY <2>1 DEF Marks
  <1>3. i + k - 1 \in 1 .. Len(m) /\ i + k - 1 \in DOMAIN t
    BY <1>1
  <1> QED
    BY <1>1, <1>2, <1>3 DEF Masks, Keeps

\* A token begins with its first symbol.
LEMMA NoMatchAt ==
  ASSUME NEW t \in Seq(Symbols), NEW i \in Nat, NEW tok \in Seq(Marks), Len(tok) > 0, t[i] \notin Marks
  PROVE  ~Matches(t, i, tok)
  <1>1. 1 \in DOMAIN tok /\ tok[1] \in Marks
    OBVIOUS
  <1> QED
    BY <1>1 DEF Matches

LEMMA Openers ==
  /\ LineOpen \in Seq(Marks) /\ Len(LineOpen) > 0
  /\ BlockOpen \in Seq(Marks) /\ Len(BlockOpen) > 0
  /\ <<"#", "!">> \in Seq(Marks) /\ Len(<<"#", "!">>) > 0
  <1>1. <<"#">> \in Seq(Marks) /\ Len(<<"#">>) = 1
    BY DEF Marks
  <1>2. <<"/", "/">> \in Seq(Marks) /\ Len(<<"/", "/">>) = 2
    BY DEF Marks
  <1>3. <<"/", "*">> \in Seq(Marks) /\ Len(<<"/", "*">>) = 2
    BY DEF Marks
  <1>4. <<"#", "!">> \in Seq(Marks) /\ Len(<<"#", "!">>) = 2
    BY DEF Marks
  <1>5. CASE lang = "python"
    BY <1>1, <1>3, <1>4, <1>5 DEF LineOpen, BlockOpen
  <1>6. CASE lang # "python"
    BY <1>2, <1>3, <1>4, <1>6 DEF LineOpen, BlockOpen
  <1> QED
    BY <1>5, <1>6

\* In a mask nothing opens where nothing opens in its text, and at the beginning
\* of an identifier nothing else.
LEMMA NothingOpens ==
  ASSUME Kept, First, pass = 2, at <= Len(text), Plain(at)
  PROVE  ~Literal(at)
  <1>1. /\ text \in Seq(Symbols) /\ src \in Seq(Symbols) /\ Masks(text, src) /\ Len(text) = Len(src)
        /\ at \in Nat \ {0} /\ lang \in {"kotlin", "java", "python"}
    BY DEF First, Mask, Kept, Progress
  <1>2. \A tok \in Seq(Marks) : Matches(text, at, tok) => Matches(src, at, tok)
    BY <1>1, MatchInSource
  <1>3. ~LineHit(at) /\ ~BlockHit(at)
    BY <1>2, Openers DEF Plain, LineHit, BlockHit, Shebang
  <1>4. StringHit(at) = {}
    BY <1>2, StringShapes DEF Plain, StringHit
  <1>5. ~NameHit(at)
    <2>1. Keeps(src[at], text[at])
      BY <1>1 DEF Masks
    <2>2. text[at] = src[at] \/ text[at] = " "
      BY <2>1 DEF Keeps
    <2>3. lang = "kotlin" => src[at] # "tick"
      BY DEF Plain
    <2> QED
      BY <2>2, <2>3 DEF NameHit
  <1> QED
    BY <1>1, <1>3, <1>4, <1>5 DEF Literal, TemplateHit

LEMMA NameOpens ==
  ASSUME Kept, First, pass = 2, at <= Len(text), NEW nm \in names, nm[1] = at
  PROVE  text[at] = "tick" /\ NameHit(at) /\ ~LineHit(at) /\ ~BlockHit(at) /\ StringHit(at) = {}
  <1>1. text \in Seq(Symbols) /\ at \in Nat \ {0}
    BY DEF Kept, Progress
  <1>2. text[at] = "tick" /\ lang = "kotlin"
    <2>1. IsName(nm) /\ lang = "kotlin"
      BY DEF First, Named
    <2>2. at \in nm[1] .. nm[2] - 1
      BY <1>1, <2>1 DEF IsName
    <2> QED
      BY <2>1, <2>2 DEF IsName, QuotedName, Mask
  <1>3. \A tok \in Seq(Marks) : Len(tok) > 0 => ~Matches(text, at, tok)
    BY <1>1, <1>2, NoMatchAt DEF Marks
  <1>4. ~LineHit(at) /\ ~BlockHit(at)
    BY <1>3, Openers DEF LineHit, BlockHit, Shebang
  <1>5. StringHit(at) = {}
    BY <1>3, StringShapes DEF StringHit
  <1> QED
    BY <1>2, <1>4, <1>5 DEF NameHit

\* The second pass ends an identifier where the first did.
LEMMA NameEnds ==
  ASSUME Kept, First, pass = 2, mode = "name", NEW nm \in names, nm[1] = at,
         Ended \/ text[ahead] \in {"tick", "nl"}
  PROVE  nm[2] = IF ~Ended /\ text[ahead] = "tick" THEN ahead + 1 ELSE ahead
  <1> DEFINE b == nm[2]
  <1>1. /\ at \in Nat \ {0} /\ ahead \in Nat /\ at < ahead /\ ahead <= Len(text) + 1 /\ Len(text) \in Nat
        /\ \A k \in at + 1 .. ahead - 1 : text[k] \notin {"tick", "nl"}
        /\ Masks(text, src) /\ Len(text) = Len(src)
    BY DEF Kept, Progress, First, Mask
  <1>2. IsName(nm)
    BY DEF First, Named
  <1>3. /\ b \in Nat /\ at < b /\ b <= Len(text) + 1 /\ QuotedName(at, b)
        /\ \A k \in at .. b - 1 : text[k] = src[k]
    BY <1>2 DEF IsName, Mask
  <1> HIDE DEF b
  <1>4. CASE at < b - 1 /\ Inside(at + 1, b - 2) /\ src[b - 1] = "tick"
    <2>1. text[b - 1] = "tick"
      BY <1>1, <1>3, <1>4
    <2>2. ahead <= b - 1
      BY <1>1, <1>3, <1>4, <2>1
    <2>3. ahead = b - 1
      <3>1. CASE ahead < b - 1
        <4>1. text[ahead] \notin {"tick", "nl"} /\ ahead <= Len(text)
          BY <3>1, <1>1, <1>3, <1>4 DEF Inside
        <4> QED
          BY <4>1, <1>1 DEF Ended
      <3> QED
        BY <3>1, <2>2, <1>1, <1>3
    <2> QED
      BY <2>1, <2>3, <1>1, <1>3 DEF b, Ended
  <1>5. CASE Inside(at + 1, b - 1) /\ (b > Len(src) \/ src[b] = "nl")
    <2>1. b <= Len(text) => text[b] = "nl"
      <3> SUFFICES ASSUME b <= Len(text) PROVE text[b] = "nl"
        OBVIOUS
      <3>1. b \in 1 .. Len(text) /\ src[b] = "nl"
        BY <1>1, <1>3, <1>5
      <3> QED
        BY <3>1, <1>1 DEF Masks, Keeps
    <2>2. ahead <= b
      BY <1>1, <1>3, <2>1
    <2>3. ahead = b
      <3>1. CASE ahead < b
        <4>1. text[ahead] \notin {"tick", "nl"} /\ ahead <= Len(text)
          BY <3>1, <1>1, <1>3, <1>5 DEF Inside
        <4> QED
          BY <4>1, <1>1 DEF Ended
      <3> QED
        BY <3>1, <2>2, <1>1, <1>3
    <2> QED
      BY <2>1, <2>3, <1>1, <1>3 DEF b, Ended
  <1> QED
    BY <1>3, <1>4, <1>5 DEF QuotedName

\* The second pass emits the symbol it stands at.
LEMMA SecondSymbol ==
  ASSUME Kept, First, Second, pass = 2, names' = names, mode = "code", at <= Len(text),
         Emit(<<text[at]>>, at + 1), \A nm \in names : nm[1] # at
  PROVE  First' /\ Second'
  <1>1. /\ Kept' /\ text' = text /\ mode' = "code" /\ at' = at + 1 /\ Len(out') = at
        /\ \A k \in 1 .. at - 1 : out'[k] = out[k]
        /\ out'[at] = text[at]
    BY SymbolStep
  <1>2. UNCHANGED fixed /\ pass' = 2
    BY DEF Emit, fixed
  <1>3. First'
    BY <1>1, <1>2, FirstMask DEF Mask, fixed
  <1>4. at \in Nat \ {0} /\ Len(out) = at - 1
    BY DEF Kept, Progress
  <1>5. \A k \in 1 .. Len(out') : out'[k] = text'[k]
    BY <1>1, <1>4 DEF Second
  <1>6. ASSUME NEW nm \in names, nm[1] < at + 1, at + 1 < nm[2] PROVE FALSE
    <2>1. IsName(nm)
      BY DEF First, Named
    <2>2. nm[1] = at
      BY <1>4, <1>6, <2>1 DEF Second, IsName
    <2> QED
      BY <2>2
  <1> QED
    BY <1>1, <1>2, <1>3, <1>5, <1>6 DEF Second

LEMMA SecondStep ==
  ASSUME Kept, First, Second, pass = 2, Next
  PROVE  First' /\ Second'
  <1>1. /\ mode \in {"code", "name"}
        /\ mode = "code" => \A nm \in names : ~(nm[1] < at /\ at < nm[2])
    BY DEF Second
  <1>2. ASSUME mode = "code", at <= Len(text), text[at] \notin Blanks
        PROVE  Plain(at) \/ \E nm \in names : nm[1] = at
    <2>1. at \in 1 .. Len(Mask) /\ Mask = text
      BY <1>2 DEF Mask, Kept, Progress
    <2>2. Plain(at) \/ InName(at)
      BY <1>2, <2>1 DEF First
    <2>3. ASSUME NEW nm \in names, nm[1] <= at, at < nm[2] PROVE nm[1] = at
      BY <1>1, <1>2, <2>1, <2>3 DEF First, Named, IsName
    <2> QED
      BY <2>2, <2>3 DEF InName
  <1>3. CASE Space
    <2>1. /\ mode = "code" /\ at <= Len(text) /\ text[at] \in Blanks /\ names' = names
          /\ Emit(<<text[at]>>, at + 1)
      BY <1>3 DEF Space, Scanning
    <2>2. \A nm \in names : nm[1] # at
      BY <2>1, NameOpens DEF Blanks
    <2> QED
      BY <2>1, <2>2, SecondSymbol
  <1>4. CASE OpenComment \/ OpenString
    <2>1. mode = "code" /\ at <= Len(text) /\ (LineHit(at) \/ BlockHit(at) \/ StringHit(at) # {})
      BY <1>4 DEF OpenComment, OpenString, Scanning
    <2>2. text[at] \notin Blanks
      <3>1. ~(\A tok \in Seq(Marks) : Len(tok) > 0 => ~Matches(text, at, tok))
        BY <2>1, Openers, StringShapes DEF LineHit, BlockHit, StringHit, Shebang
      <3> QED
        BY <3>1, NoMatchAt DEF Blanks, Marks, Kept, Progress
    <2> QED
      BY <1>2, <2>1, <2>2, NothingOpens, NameOpens DEF Literal
  <1>5. CASE OpenName
    <2>1. /\ mode = "code" /\ at <= Len(text) /\ text[at] = "tick" /\ lang = "kotlin" /\ NameHit(at)
          /\ mode' = "name" /\ at' = at /\ ahead' = at + 1 /\ UNCHANGED <<fixed, out, names>>
      BY <1>5 DEF OpenName, Scanning, NameHit, Enter
    <2>2. \E nm \in names : nm[1] = at
      <3>1. ~Plain(at)
        BY <2>1, NothingOpens DEF Literal
      <3> QED
        BY <2>1, <3>1, <1>2 DEF Blanks
    <2>3. \A k \in at + 1 .. at + 1 - 1 : FALSE
      BY DEF Kept, Progress
    <2>4. First'
      BY <2>1, <2>3, FirstStays
    <2> QED
      BY <2>1, <2>2, <2>4 DEF Second, fixed
  <1>6. CASE Ordinary
    <2>1. /\ mode = "code" /\ at <= Len(text) /\ text[at] \notin Blanks /\ ~Literal(at)
          /\ names' = names /\ Emit(<<text[at]>>, at + 1)
      BY <1>6 DEF Ordinary, Scanning
    <2>2. \A nm \in names : nm[1] # at
      BY <2>1, NameOpens DEF Literal
    <2> QED
      BY <2>1, <2>2, SecondSymbol
  <1>7. CASE Name
    <2>1. PICK nm \in names : nm[1] = at
      BY <1>7 DEF Name, Second
    <2>2. mode = "name"
      BY <1>7 DEF Name
    <2>3. CASE ~Ended /\ text[ahead] \notin {"tick", "nl"}
      <3>1. /\ UNCHANGED <<fixed, out, names>> /\ mode' = "name" /\ at' = at /\ ahead' = ahead + 1
        BY <1>7, <2>3 DEF Name, Look
      <3>2. lang = "kotlin" /\ text[at] = "tick"
        BY <2>2 DEF First
      <3>3. \A k \in at + 1 .. ahead' - 1 : text[k] \notin {"tick", "nl"}
        <4>1. \A k \in at + 1 .. ahead - 1 : text[k] \notin {"tick", "nl"}
          BY <2>2 DEF First
        <4>2. \A k \in at + 1 .. ahead' - 1 : k \in at + 1 .. ahead - 1 \/ k = ahead
          BY <3>1 DEF Kept, Progress
        <4> QED
          BY <2>3, <4>1, <4>2
      <3>4. First'
        BY <3>1, <3>2, <3>3, FirstStays
      <3> QED
        BY <2>1, <3>1, <3>4 DEF Second, fixed
    <2>4. CASE Ended \/ text[ahead] \in {"tick", "nl"}
      <3>1. PICK end : end = nm[2]
        OBVIOUS
      <3>2. end = IF ~Ended /\ text[ahead] = "tick" THEN ahead + 1 ELSE ahead
        BY <2>1, <2>2, <2>4, <3>1, NameEnds
      <3>3. Emit(pushVerbatim(at, end), end) /\ names' = names
        BY <1>7, <2>4, <3>2 DEF Name
      <3>4. IsName(nm) /\ Len(Mask) = Len(text)
        BY DEF First, Named, Mask
      <3>5. at \in Nat \ {0} /\ end \in Nat /\ at <= end /\ end <= Len(text) + 1 /\ Len(out) = at - 1
        BY <2>1, <3>1, <3>4 DEF IsName, Kept, Progress
      <3>6. /\ Kept' /\ text' = text /\ mode' = "code" /\ at' = end /\ Len(out') = end - 1
            /\ \A k \in 1 .. at - 1 : out'[k] = out[k]
            /\ \A k \in at .. end - 1 : out'[k] = text[k]
        BY <3>3, <3>5, VerbatimStep
      <3>7. UNCHANGED fixed
        BY <3>3 DEF Emit
      <3>8. First'
        BY <3>3, <3>6, <3>7, FirstMask DEF Mask, fixed
      <3>9. \A k \in 1 .. Len(out') : out'[k] = text'[k]
        BY <3>5, <3>6 DEF Second
      <3>10. ASSUME NEW other \in names, other[1] < end, end < other[2] PROVE FALSE
        <4>1. Apart(nm, other) /\ IsName(other)
          BY DEF First, Named
        <4> QED
          BY <2>1, <3>1, <3>4, <3>5, <3>10, <4>1 DEF Apart, IsName
      <3> QED
        BY <3>3, <3>6, <3>7, <3>8, <3>9, <3>10 DEF Second, fixed
    <2> QED
      BY <2>3, <2>4
  <1>8. CASE OpenTemplate \/ OpenRegex \/ Divide
    BY <1>8 DEF First, OpenTemplate, TemplateHit, OpenRegex, Divide, SlashHit
  <1>9. CASE LineComment \/ BlockComment \/ consumeString \/ consumeTemplate \/ consumeRegex \/ regexFlags
    BY <1>1, <1>9 DEF LineComment, BlockComment, consumeString, consumeTemplate, consumeRegex, regexFlags
  <1>10. CASE Again
    BY <1>10 DEF Again
  <1> QED
    BY <1>3, <1>4, <1>5, <1>6, <1>7, <1>8, <1>9, <1>10 DEF Next

-----------------------------------------------------------------------------
(***************************************************************************)
(* The step of a reading that goes on to the end of its text.              *)
(***************************************************************************)
\* The token from s to e is in a literal, or, outside templates, is not.
Took(t, s, e, n) == e \in s.at .. Len(t) /\ n.at = e + 1 /\ s.at .. e \subseteq InLiteral(t)
Left(t, s, e, n) ==
  /\ e \in s.at .. Len(t) /\ n.at = e + 1
  /\ s.nest > 0 => s.at .. e \subseteq InLiteral(t)
  /\ s.nest = 0 => \A k \in s.at .. e : k \notin InLiteral(t)

LEMMA LitFound ==
  ASSUME NEW t, NEW s, NEW n, NEW a \in Nat \ {0}, NEW e \in a .. Len(t), Len(t) \in Nat,
         s.at = a, n.at = e + 1,
         s.lit = InLiteral(t) \cap (1 .. s.at - 1), n.lit = InLiteral(t) \cap (1 .. n.at - 1)
  PROVE  /\ n.lit = s.lit \cup (s.at .. e) => a .. e \subseteq InLiteral(t)
         /\ n.lit = s.lit => \A k \in a .. e : k \notin InLiteral(t)
  <1>1. n.at - 1 = e /\ a .. e \subseteq 1 .. e
    OBVIOUS
  <1>2. \A k \in a .. e : k \notin 1 .. a - 1
    OBVIOUS
  <1> QED
    BY <1>1, <1>2

LEMMA TookOrLeft ==
  ASSUME NEW t, Len(t) \in Nat, NEW s, Sane(t, s), NEW n, NEW m, NEW e \in s.at .. Len(t),
         s.lit = InLiteral(t) \cap (1 .. s.at - 1), n.lit = InLiteral(t) \cap (1 .. n.at - 1),
         n.at = m.at, n.lit = m.lit
  PROVE  GoesIn(s, e, m) => Took(t, s, e, n)
         
  <1>1. PICK a \in Nat \ {0} : a = s.at
    BY DEF Sane, ReadingType
  <1> QED
    BY <1>1, LitFound DEF Took, GoesIn, Goes

LEMMA LeftFrom ==
  ASSUME NEW t, Len(t) \in Nat, NEW s, Sane(t, s), NEW n, NEW m, NEW e \in s.at .. Len(t),
         s.lit = InLiteral(t) \cap (1 .. s.at - 1), n.lit = InLiteral(t) \cap (1 .. n.at - 1),
         n.at = m.at, n.lit = m.lit
  PROVE  GoesOn(s, e, m) => Left(t, s, e, n)
  <1>1. PICK a \in Nat \ {0} : a = s.at
    BY DEF Sane, ReadingType
  <1>2. PICK d \in Nat : d = s.nest
    BY DEF Sane, ReadingType
  <1>3. d > 0 \/ d = 0
    OBVIOUS
  <1>4. d = 0 => ~(d > 0)
    OBVIOUS
  <1> QED
    BY <1>1, <1>2, <1>3, <1>4, LitFound DEF Left, GoesOn, Goes

LEMMA StepGood ==
  ASSUME NEW t, Len(t) \in Nat, Lexical(t), NEW s, Good(t, s), s.at <= Len(t), NEW n, n = Step(t, s)
  PROVE  /\ Good(t, n) /\ Sane(t, s) /\ Sane(t, n) /\ s.at < n.at
         /\ n.shapes = s.shapes \cup Shapes(t, s, n) /\ n.shapes \subseteq Reading(t).shapes
         /\ s.lit = InLiteral(t) \cap (1 .. s.at - 1) /\ n.lit = InLiteral(t) \cap (1 .. n.at - 1)
         /\ \E m : /\ m = Token(t, s) /\ m # Stop(s)
                   /\ n.at = m.at /\ n.last = m.last /\ n.nest = m.nest /\ n.lit = m.lit
  <1>1. /\ Sane(t, s) /\ s.ok /\ s.lit = InLiteral(t) \cap (1 .. s.at - 1)
    BY GoodFacts
  <1>2. Good(t, n)
    BY GoodStep
  <1>3. /\ Sane(t, n) /\ n.ok /\ n.lit = InLiteral(t) \cap (1 .. n.at - 1) /\ n.shapes \subseteq Reading(t).shapes
    BY <1>2, GoodFacts
  <1>4. PICK m : m = Token(t, s)
    OBVIOUS
  <1>5. m # Stop(s)
    BY <1>1, <1>3, <1>4, StepLater
  <1>6. s \in ReadingType
    BY <1>1 DEF Sane
  <1>7. PICK e \in s.at .. Len(t) : Goes(s, e, m)
    BY <1>4, <1>5, <1>6, TokenAdvances
  <1>8. m \in ReadingType /\ m.shapes = s.shapes /\ m.at = e + 1
    BY <1>7 DEF Goes
  <1>9. m \in ReadingType
    BY <1>8
  <1>10. /\ n.at = m.at /\ n.last = m.last /\ n.nest = m.nest /\ n.lit = m.lit
         /\ n.shapes = m.shapes \cup Shapes(t, s, n)
    BY <1>1, <1>4, <1>6, <1>9, StepKeeps
  <1>11. s.at < n.at
    <2>1. PICK a \in Nat : a = s.at
      BY <1>6 DEF ReadingType
    <2>2. a < e + 1
      BY <2>1
    <2> QED
      BY <1>8, <1>10, <2>1, <2>2
  <1> QED
    BY <1>1, <1>2, <1>3, <1>4, <1>5, <1>8, <1>10, <1>11

\* What the step does, by the kind of its token.
LEMMA StepGoes ==
  ASSUME NEW t, Len(t) \in Nat, Lexical(t), NEW s, Good(t, s), s.at <= Len(t), NEW n, n = Step(t, s)
  PROVE  /\ ~Unread(t, s)
         /\ t[s.at] \in Blanks => Left(t, s, s.at, n) /\ n.last = s.last /\ n.nest = s.nest
         /\ Line(t, s) => \E e \in LineEnd(t, s.at) : Took(t, s, e, n) /\ n.last = s.last /\ n.nest = s.nest
         /\ Block(t, s) => \E e \in BlockEnd(t, s.at) : Took(t, s, e, n) /\ n.last = s.last /\ n.nest = s.nest
         /\ t[s.at] \in Words =>
              \E e \in WordEnd(t, s.at) : Left(t, s, e, n) /\ n.last = WordLast(t, s) /\ n.nest = s.nest
         /\ t[s.at] = "q" =>
              \E e \in StringEnd(t, s.at) : Took(t, s, e, n) /\ n.last = "literal" /\ n.nest = s.nest
         /\ Opens(t, s) =>
              \E e \in TemplateEnd(t, s.at) :
                /\ Took(t, s, e, n)
                /\ t[e] = "tick" => n.last = "literal" /\ n.nest = Around(t, s)
                /\ t[e] # "tick" => n.last = "operator" /\ n.nest = Around(t, s) + 1
         /\ Regex(t, s) =>
              \E e \in RegexEnd(t, s.at) : Took(t, s, e, n) /\ n.last = "literal" /\ n.nest = s.nest
         /\ Increment(t, s) =>
              /\ Left(t, s, s.at + 1, n) /\ n.nest = s.nest
              /\ n.last = IF s.last \in {"word", "operand"} THEN "postfix" ELSE "prefix"
         /\ Other(t, s) => Left(t, s, s.at, n) /\ n.last = PlainLast(t, s) /\ n.nest = s.nest
  <1>0. /\ Sane(t, s) /\ s.lit = InLiteral(t) \cap (1 .. s.at - 1) /\ n.lit = InLiteral(t) \cap (1 .. n.at - 1)
    BY StepGood
  <1>1. PICK m : /\ m = Token(t, s) /\ m # Stop(s)
                 /\ n.at = m.at /\ n.last = m.last /\ n.nest = m.nest /\ n.lit = m.lit
    BY StepGood
  <1>2. s \in ReadingType /\ s.at \in Nat /\ s.at + 1 \in Nat /\ s.at + 3 \in Nat
    BY <1>0 DEF Sane, ReadingType
  <1>3. \A e \in s.at .. Len(t) : /\ GoesIn(s, e, m) => Took(t, s, e, n)
                                  /\ GoesOn(s, e, m) => Left(t, s, e, n)
    BY <1>0, <1>1, TookOrLeft, LeftFrom
  <1> DEFINE a == s.at
  <1>4. /\ LineEnd(t, a) \subseteq a .. Len(t) /\ BlockEnd(t, a) \subseteq a + 3 .. Len(t)
        /\ StringEnd(t, a) \subseteq a + 1 .. Len(t) /\ RegexEnd(t, a) \subseteq a + 1 .. Len(t)
        /\ TemplateEnd(t, a) \subseteq a + 1 .. Len(t) /\ WordEnd(t, a) \subseteq a .. Len(t)
    BY <1>2, EndsInText, WordEnds
  <1>5. a + 1 .. Len(t) \subseteq a .. Len(t) /\ a + 3 .. Len(t) \subseteq a .. Len(t) /\ a \in a .. Len(t)
    BY <1>2
  <1>6. ~Unread(t, s)
    BY <1>1, <1>2, TokenGoes
  <1>7. ASSUME t[a] \in Blanks PROVE Left(t, s, a, n) /\ n.last = s.last /\ n.nest = s.nest
    BY <1>1, <1>2, <1>3, <1>5, <1>7, TokenGoes
  <1>8. ASSUME Line(t, s)
        PROVE  \E e \in LineEnd(t, a) : Took(t, s, e, n) /\ n.last = s.last /\ n.nest = s.nest
    <2>1. PICK e \in LineEnd(t, a) : GoesIn(s, e, m) /\ m.last = s.last /\ m.nest = s.nest
      BY <1>1, <1>2, <1>8, TokenGoes
    <2> QED
      BY <1>1, <1>3, <1>4, <2>1
  <1>9. ASSUME Block(t, s)
        PROVE  \E e \in BlockEnd(t, a) : Took(t, s, e, n) /\ n.last = s.last /\ n.nest = s.nest
    <2>1. PICK e \in BlockEnd(t, a) : GoesIn(s, e, m) /\ m.last = s.last /\ m.nest = s.nest
      BY <1>1, <1>2, <1>9, TokenGoes
    <2> QED
      BY <1>1, <1>3, <1>4, <1>5, <2>1
  <1>10. ASSUME t[a] \in Words
         PROVE  \E e \in WordEnd(t, a) : Left(t, s, e, n) /\ n.last = WordLast(t, s) /\ n.nest = s.nest
    <2>1. PICK e \in WordEnd(t, a) : GoesOn(s, e, m) /\ m.last = WordLast(t, s) /\ m.nest = s.nest
      BY <1>1, <1>2, <1>10, TokenGoes
    <2> QED
      BY <1>1, <1>3, <1>4, <2>1
  <1>11. ASSUME t[a] = "q"
         PROVE  \E e \in StringEnd(t, a) : Took(t, s, e, n) /\ n.last = "literal" /\ n.nest = s.nest
    <2>1. PICK e \in StringEnd(t, a) : GoesIn(s, e, m) /\ m.last = "literal" /\ m.nest = s.nest
      BY <1>1, <1>2, <1>11, TokenGoes
    <2> QED
      BY <1>1, <1>3, <1>4, <1>5, <2>1
  <1>12. ASSUME Opens(t, s)
         PROVE  \E e \in TemplateEnd(t, a) :
                  /\ Took(t, s, e, n)
                  /\ t[e] = "tick" => n.last = "literal" /\ n.nest = Around(t, s)
                  /\ t[e] # "tick" => n.last = "operator" /\ n.nest = Around(t, s) + 1
    <2>1. PICK e \in TemplateEnd(t, a) :
            /\ GoesIn(s, e, m)
            /\ t[e] = "tick" => m.last = "literal" /\ m.nest = Around(t, s)
            /\ t[e] # "tick" => m.last = "operator" /\ m.nest = Around(t, s) + 1
      BY <1>1, <1>2, <1>12, TokenGoes
    <2> QED
      BY <1>1, <1>3, <1>4, <1>5, <2>1
  <1>13. ASSUME Regex(t, s)
         PROVE  \E e \in RegexEnd(t, a) : Took(t, s, e, n) /\ n.last = "literal" /\ n.nest = s.nest
    <2>1. PICK e \in RegexEnd(t, a) : GoesIn(s, e, m) /\ m.last = "literal" /\ m.nest = s.nest
      BY <1>1, <1>2, <1>13, TokenGoes
    <2> QED
      BY <1>1, <1>3, <1>4, <1>5, <2>1
  <1>14. ASSUME Increment(t, s)
         PROVE  /\ Left(t, s, a + 1, n) /\ n.nest = s.nest
                /\ n.last = IF s.last \in {"word", "operand"} THEN "postfix" ELSE "prefix"
    <2>1. a + 1 \in a .. Len(t)
      BY <1>2, <1>14 DEF Increment, Two
    <2>2. /\ GoesOn(s, a + 1, m) /\ m.nest = s.nest
          /\ m.last = IF s.last \in {"word", "operand"} THEN "postfix" ELSE "prefix"
      BY <1>1, <1>2, <1>14, TokenGoes
    <2> QED
      BY <1>1, <1>3, <2>1, <2>2
  <1>15. ASSUME Other(t, s) PROVE Left(t, s, a, n) /\ n.last = PlainLast(t, s) /\ n.nest = s.nest
    BY <1>1, <1>2, <1>3, <1>5, <1>15, TokenGoes
  <1> QED
    BY <1>6, <1>7, <1>8, <1>9, <1>10, <1>11, <1>12, <1>13, <1>14, <1>15

(***************************************************************************)
(* Escapes, and where words and literals end.                              *)
(***************************************************************************)
LEMMA EscapedFirst == ASSUME NEW t, NEW a \in Nat PROVE ~Escaped(t, a, a + 1)
  BY DEF Escaped

LEMMA EscapedNext ==
  ASSUME NEW t, NEW a \in Nat, NEW k \in Nat, a < k
  PROVE  /\ t[k] # "esc" => ~Escaped(t, a, k + 1)
         /\ t[k] = "esc" /\ ~Escaped(t, a, k) => Escaped(t, a, k + 1)
         /\ t[k] = "esc" /\ Escaped(t, a, k) => ~Escaped(t, a, k + 1)
  <1>1. ASSUME t[k] # "esc", Escaped(t, a, k + 1) PROVE FALSE
    <2>1. PICK m \in a + 1 .. k : \A i \in m .. k : t[i] = "esc"
      BY <1>1 DEF Escaped
    <2> QED
      BY <1>1, <2>1
  <1>2. ASSUME t[k] = "esc", ~Escaped(t, a, k) PROVE Escaped(t, a, k + 1)
    <2> DEFINE R == {m \in a + 1 .. k : \A i \in m .. k : t[i] = "esc"}
    <2>1. k \in R /\ R \subseteq Nat
      BY <1>2
    <2>2. PICK m \in R : \A i \in R : m <= i
      <3> HIDE DEF R
      <3> QED
        BY <2>1, LeastOf
    <2>3. m \in a + 1 .. k /\ \A i \in m .. k : t[i] = "esc"
      OBVIOUS
    <2>4. m = a + 1 \/ t[m - 1] # "esc"
      <3> SUFFICES ASSUME m # a + 1, t[m - 1] = "esc" PROVE FALSE
        OBVIOUS
      <3>1. m - 1 \in a + 1 .. k /\ \A i \in m - 1 .. k : i = m - 1 \/ i \in m .. k
        BY <2>3
      <3>2. m - 1 \in R
        BY <2>3, <3>1
      <3>3. m <= m - 1
        BY <2>2, <3>2
      <3> QED
        BY <2>3, <3>3
    <2> HIDE DEF R
    <2>5. CASE (k - m) % 2 = 1
      <3>1. m # k
        BY <2>5
      <3>2. m \in a + 1 .. k - 1 /\ \A i \in m .. k - 1 : t[i] = "esc"
        BY <2>3, <3>1
      <3> QED
        BY <1>2, <2>4, <2>5, <3>2 DEF Escaped
    <2>6. CASE (k - m) % 2 # 1
      <3>1. (k + 1 - m) % 2 = 1 /\ k + 1 - 1 = k
        BY <2>3, <2>6
      <3> QED
        BY <2>3, <2>4, <3>1 DEF Escaped
    <2> QED
      BY <2>5, <2>6
  <1>3. ASSUME t[k] = "esc", Escaped(t, a, k), Escaped(t, a, k + 1) PROVE FALSE
    <2>1. PICK m \in a + 1 .. k - 1 :
            (k - m) % 2 = 1 /\ (\A i \in m .. k - 1 : t[i] = "esc") /\ (m = a + 1 \/ t[m - 1] # "esc")
      BY <1>3 DEF Escaped
    <2>2. PICK i \in a + 1 .. k + 1 - 1 :
            (k + 1 - i) % 2 = 1 /\ (\A j \in i .. k + 1 - 1 : t[j] = "esc") /\ (i = a + 1 \/ t[i - 1] # "esc")
      BY <1>3 DEF Escaped
    <2>3. ~(m < i)
      <3>1. m < i => i - 1 \in m .. k - 1 /\ i # a + 1
        OBVIOUS
      <3> QED
        BY <2>1, <2>2, <3>1
    <2>4. ~(i < m)
      <3>1. i < m => m - 1 \in i .. k + 1 - 1 /\ m # a + 1
        OBVIOUS
      <3> QED
        BY <2>1, <2>2, <3>1
    <2>5. i = m
      BY <2>3, <2>4
    <2>6. (k - m) % 2 = 1 /\ (k + 1 - m) % 2 = 1
      BY <2>1, <2>2, <2>5
    <2> QED
      BY <2>6
  <1> QED
    BY <1>1, <1>2, <1>3

\* What a literal being scanned has found bare, one symbol further or past an escape.
LEMMA BareNext ==
  ASSUME NEW t, NEW a \in Nat, NEW k \in Nat, a < k, ~Escaped(t, a, k)
  PROVE  /\ \A c : Bare(t, a, k, c) <=> t[k] = c
         /\ t[k] # "esc" => ~Escaped(t, a, k + 1)
         /\ t[k] = "esc" => ~Escaped(t, a, k + 2) /\ \A c : ~Bare(t, a, k + 1, c)
  <1>1. t[k] = "esc" => Escaped(t, a, k + 1)
    BY EscapedNext
  <1>2. k + 1 \in Nat /\ a < k + 1 /\ (k + 1) + 1 = k + 2
    OBVIOUS
  <1>3. t[k] = "esc" => ~Escaped(t, a, (k + 1) + 1)
    BY <1>1, <1>2, EscapedNext
  <1> QED
    BY <1>1, <1>2, <1>3, EscapedNext DEF Bare


LEMMA InBracketsNext ==
  ASSUME NEW t, NEW a \in Nat, NEW k \in Nat, a < k
  PROVE  /\ Bare(t, a, k, "[") => InBrackets(t, a, k + 1)
         /\ Bare(t, a, k, "]") => ~InBrackets(t, a, k + 1)
         /\ ~Bare(t, a, k, "[") /\ ~Bare(t, a, k, "]") => (InBrackets(t, a, k + 1) <=> InBrackets(t, a, k))
  <1>0. k + 1 - 1 = k
    OBVIOUS
  <1>1. ASSUME Bare(t, a, k, "[") PROVE InBrackets(t, a, k + 1)
    <2>1. k \in a + 1 .. k /\ \A i \in k + 1 .. k : FALSE
      OBVIOUS
    <2> QED
      BY <1>0, <1>1, <2>1 DEF InBrackets
  <1>2. ASSUME Bare(t, a, k, "]"), InBrackets(t, a, k + 1) PROVE FALSE
    <2>1. PICK m \in a + 1 .. k : Bare(t, a, m, "[") /\ \A i \in m + 1 .. k : ~Bare(t, a, i, "]")
      BY <1>0, <1>2 DEF InBrackets
    <2>2. m = k
      BY <1>2, <2>1
    <2> QED
      BY <1>2, <2>1, <2>2 DEF Bare
  <1>3. ASSUME ~Bare(t, a, k, "["), ~Bare(t, a, k, "]"), InBrackets(t, a, k + 1) PROVE InBrackets(t, a, k)
    <2>1. PICK m \in a + 1 .. k : Bare(t, a, m, "[") /\ \A i \in m + 1 .. k : ~Bare(t, a, i, "]")
      BY <1>0, <1>3 DEF InBrackets
    <2>2. m # k
      BY <1>3, <2>1
    <2>3. m \in a + 1 .. k - 1 /\ \A i \in m + 1 .. k - 1 : i \in m + 1 .. k
      BY <2>2
    <2> QED
      BY <2>1, <2>3 DEF InBrackets
  <1>4. ASSUME ~Bare(t, a, k, "["), ~Bare(t, a, k, "]"), InBrackets(t, a, k) PROVE InBrackets(t, a, k + 1)
    <2>1. PICK m \in a + 1 .. k - 1 : Bare(t, a, m, "[") /\ \A i \in m + 1 .. k - 1 : ~Bare(t, a, i, "]")
      BY <1>4 DEF InBrackets
    <2>2. m \in a + 1 .. k /\ \A i \in m + 1 .. k : i \in m + 1 .. k - 1 \/ i = k
      OBVIOUS
    <2> QED
      BY <1>0, <1>4, <2>1, <2>2 DEF InBrackets
  <1> QED
    BY <1>1, <1>2, <1>3, <1>4

\* A word is its symbols up to the first other.
LEMMA WordEndIs ==
  ASSUME NEW t, Len(t) \in Nat, NEW a \in Nat, NEW e \in WordEnd(t, a)
  PROVE  /\ e \in a .. Len(t)
         /\ \A k \in a + 1 .. e : t[k] \in Words
         /\ e < Len(t) => t[e + 1] \notin Words
         /\ a \in WordEnd(t, a) => e = a
  <1>1. e \in a .. Len(t) /\ (e = Len(t) \/ t[e + 1] \notin Words)
    BY DEF WordEnd, Least
  <1>2. \A b \in a .. Len(t) : b = Len(t) \/ t[b + 1] \notin Words => e <= b
    BY DEF WordEnd, Least
  <1>3. ASSUME NEW k \in a + 1 .. e, t[k] \notin Words PROVE FALSE
    <2>1. k - 1 \in a .. Len(t) /\ (k - 1) + 1 = k
      BY <1>1
    <2>2. e <= k - 1
      BY <1>2, <1>3, <2>1
    <2> QED
      BY <1>1, <2>2
  <1>4. ASSUME a \in WordEnd(t, a) PROVE e = a
    <2>1. a <= Len(t) /\ (a = Len(t) \/ t[a + 1] \notin Words)
      BY <1>4 DEF WordEnd, Least
    <2>2. e <= a
      BY <1>2, <2>1
    <2> QED
      BY <1>1, <2>2
  <1> QED
    BY <1>1, <1>3, <1>4

\* A comment ends before a newline or at the end of the text.
LEMMA LineEndIs ==
  ASSUME NEW t, Len(t) \in Nat, NEW a \in Nat, NEW e \in LineEnd(t, a), NEW k \in Nat, a < k, k <= Len(t) + 1,
         \A i \in a .. k - 1 : t[i] # "nl", k <= Len(t) => t[k] = "nl"
  PROVE  e = k - 1
  <1>1. e \in a .. Len(t) /\ (e = Len(t) \/ t[e + 1] = "nl")
    BY DEF LineEnd, Least
  <1>2. k - 1 \in a .. Len(t) /\ (k - 1 = Len(t) \/ t[(k - 1) + 1] = "nl")
    BY DEF LineEnd
  <1>3. e <= k - 1
    BY <1>2 DEF LineEnd, Least
  <1>4. e < k - 1 => e + 1 \in a .. k - 1 /\ e # Len(t)
    BY <1>1
  <1> QED
    BY <1>1, <1>3, <1>4

LEMMA BlockEndIs ==
  ASSUME NEW t, Len(t) \in Nat, NEW a \in Nat, NEW e \in BlockEnd(t, a), NEW k \in Nat, a + 2 <= k,
         \A i \in a + 2 .. k - 1 : ~Two(t, i, "*", "/")
  PROVE  k < e /\ e <= Len(t) /\ (Two(t, k, "*", "/") => e = k + 1)
  <1>1. e \in a + 3 .. Len(t) /\ t[e - 1] = "*" /\ t[e] = "/"
    BY DEF BlockEnd, Least
  <1>2. Two(t, e - 1, "*", "/")
    BY <1>1 DEF Two
  <1>3. ~(e - 1 \in a + 2 .. k - 1)
    BY <1>2
  <1>4. k < e
    BY <1>1, <1>3
  <1>5. ASSUME Two(t, k, "*", "/") PROVE e <= k + 1
    <2>1. k + 1 \in a + 3 .. Len(t) /\ t[(k + 1) - 1] = "*" /\ t[k + 1] = "/"
      BY <1>5 DEF Two
    <2> QED
      BY <2>1 DEF BlockEnd, Least
  <1> QED
    BY <1>1, <1>4, <1>5

LEMMA StringEndIs ==
  ASSUME NEW t, Len(t) \in Nat, NEW a \in Nat, t[a] = "q", NEW e \in StringEnd(t, a), NEW k \in Nat, a < k,
         ~Escaped(t, a, k), \A i \in a + 1 .. k - 1 : ~Bare(t, a, i, "q") /\ ~Bare(t, a, i, "nl")
  PROVE  k <= e /\ e <= Len(t) /\ t[k] # "nl" /\ (t[k] = "q" => e = k) /\ t[e] = "q"
  <1>1. e \in a + 1 .. Len(t) /\ Bare(t, a, e, "q") /\ \A i \in a + 1 .. e - 1 : ~Bare(t, a, i, "nl")
    BY DEF StringEnd, Least
  <1>2. k <= e
    BY <1>1
  <1>3. t[k] # "nl"
    <2> SUFFICES ASSUME t[k] = "nl" PROVE FALSE
      OBVIOUS
    <2>1. Bare(t, a, k, "nl")
      BY DEF Bare
    <2>2. k # e
      BY <1>1 DEF Bare
    <2>3. k \in a + 1 .. e - 1
      BY <1>1, <1>2, <2>2
    <2> QED
      BY <1>1, <2>1, <2>3
  <1>4. ASSUME t[k] = "q" PROVE e <= k
    <2>1. k \in a + 1 .. Len(t) /\ Bare(t, a, k, "q")
      BY <1>1, <1>2, <1>4 DEF Bare
    <2> QED
      BY <2>1 DEF StringEnd, Least
  <1> QED
    BY <1>1, <1>2, <1>3, <1>4 DEF Bare

LEMMA RegexCloseIs ==
  ASSUME NEW t, Len(t) \in Nat, NEW a \in Nat, RegexClose(t, a) # {}, NEW k \in Nat, a < k,
         ~Escaped(t, a, k), \A i \in a + 1 .. k - 1 : Bare(t, a, i, "/") => InBrackets(t, a, i)
  PROVE  k <= Len(t) /\ t[k] # "nl" /\ (t[k] = "/" /\ ~InBrackets(t, a, k) => k \in RegexClose(t, a))
  <1>1. PICK e \in RegexClose(t, a) : TRUE
    OBVIOUS
  <1>2. e \in a + 1 .. Len(t) /\ Bare(t, a, e, "/") /\ ~InBrackets(t, a, e) /\ \A i \in a + 1 .. e - 1 : t[i] # "nl"
    BY <1>1 DEF RegexClose, Least
  <1>3. k <= e
    BY <1>2
  <1>4. k = e \/ k \in a + 1 .. e - 1
    BY <1>2, <1>3
  <1>5. t[k] # "nl"
    BY <1>2, <1>4 DEF Bare
  <1>6. ASSUME t[k] = "/", ~InBrackets(t, a, k) PROVE e <= k
    <2>1. k \in a + 1 .. Len(t) /\ Bare(t, a, k, "/") /\ ~InBrackets(t, a, k)
      BY <1>2, <1>3, <1>6 DEF Bare
    <2> QED
      BY <1>1, <2>1 DEF RegexClose, Least
  <1>7. ASSUME t[k] = "/", ~InBrackets(t, a, k) PROVE k = e
    BY <1>2, <1>3, <1>6, <1>7
  <1> QED
    BY <1>1, <1>2, <1>3, <1>5, <1>7

LEMMA RegexEndIs ==
  ASSUME NEW t, Len(t) \in Nat, NEW a \in Nat, NEW b \in RegexClose(t, a), NEW e \in RegexEnd(t, a),
         NEW k \in Nat, b < k, k <= Len(t) + 1, \A i \in b + 1 .. k - 1 : t[i] \in Words \ {"$"},
         k <= Len(t) => t[k] \notin Words \ {"$"}
  PROVE  e = k - 1
  <1>1. \A x \in RegexClose(t, a) : x \in a + 1 .. Len(t) /\ x <= b /\ b <= x
    BY DEF RegexClose, Least
  <1>2. \A x \in RegexClose(t, a) : x = b
    <2> TAKE x \in RegexClose(t, a)
    <2>1. x \in Nat /\ b \in Nat /\ x <= b /\ b <= x
      BY <1>1
    <2> QED
      BY <2>1
  <1>3. b \in Nat /\ b + 1 \in Nat /\ b <= Len(t)
    BY <1>1
  <1>4. e \in IF b < Len(t) /\ t[b + 1] \in Words
                THEN {x \in WordEnd(t, b + 1) : \A i \in b + 1 .. x : t[i] # "$"} ELSE {b}
    BY <1>2 DEF RegexEnd
  <1>5. CASE b < Len(t) /\ t[b + 1] \in Words
    <2>1. e \in WordEnd(t, b + 1) /\ \A i \in b + 1 .. e : t[i] # "$"
      BY <1>4, <1>5
    <2>2. e \in b + 1 .. Len(t) /\ (\A i \in b + 1 + 1 .. e : t[i] \in Words) /\ (e < Len(t) => t[e + 1] \notin Words)
      BY <1>3, <2>1, WordEndIs
    <2>3. ~(k <= e)
      <3> SUFFICES ASSUME k <= e PROVE FALSE
        OBVIOUS
      <3>1. k \in b + 1 .. e /\ (k = b + 1 \/ k \in b + 1 + 1 .. e) /\ k <= Len(t)
        BY <1>3, <2>2
      <3> QED
        BY <1>5, <2>1, <2>2, <3>1
    <2>4. ~(e < k - 1)
      <3> SUFFICES ASSUME e < k - 1 PROVE FALSE
        OBVIOUS
      <3>1. e + 1 \in b + 1 .. k - 1 /\ e < Len(t)
        BY <1>3, <2>2
      <3> QED
        BY <2>2, <3>1
    <2> QED
      BY <1>3, <2>2, <2>3, <2>4
  <1>6. CASE ~(b < Len(t) /\ t[b + 1] \in Words)
    <2>1. e = b
      BY <1>4, <1>6
    <2>2. ~(b < k - 1)
      <3> SUFFICES ASSUME b < k - 1 PROVE FALSE
        OBVIOUS
      <3>1. b + 1 \in b + 1 .. k - 1 /\ b < Len(t)
        BY <1>3
      <3> QED
        BY <1>6, <3>1
    <2> QED
      BY <1>3, <2>1, <2>2
  <1> QED
    BY <1>5, <1>6

\* A ${ in the template that begins at a ends at k.
Hole(t, a, k) == Bare(t, a, k - 1, "$") /\ k - 1 > a /\ t[k] = "{"

LEMMA TemplateEndIs ==
  ASSUME NEW t, Len(t) \in Nat, NEW a \in Nat, NEW e \in TemplateEnd(t, a), NEW k \in Nat, a < k,
         ~Escaped(t, a, k), \A i \in a + 1 .. k - 1 : ~Bare(t, a, i, "tick"),
         \A i \in a + 1 .. k : ~Hole(t, a, i)
  PROVE  /\ k <= e /\ e <= Len(t) /\ (t[e] = "tick" \/ t[e] = "{")
         /\ t[k] = "tick" => e = k
         /\ t[k] # "tick" => k < e
         /\ t[k] = "$" /\ k < Len(t) /\ t[k + 1] = "{" => e = k + 1
  <1>0. e \in a + 1 .. Len(t) /\ e \in Nat /\ e <= Len(t)
    <2>1. e \in a + 1 .. Len(t)
      BY EndsInText
    <2> QED
      BY <2>1
  <1>1. Bare(t, a, e, "tick") \/ Hole(t, a, e)
    BY DEF TemplateEnd, Least, Hole
  <1>2. \A b \in a + 1 .. Len(t) :
          Bare(t, a, b, "tick") \/ Hole(t, a, b) => e <= b
    BY DEF TemplateEnd, Least, Hole
  <1>3. ~(e \in a + 1 .. k - 1)
    <2>1. e \in a + 1 .. k - 1 => e \in a + 1 .. k
      BY <1>0
    <2> QED
      BY <1>1, <2>1
  <1>4. k <= e
    BY <1>0, <1>3
  <1>5. ASSUME t[k] = "tick" PROVE e = k
    <2>1. k \in a + 1 .. Len(t) /\ Bare(t, a, k, "tick")
      BY <1>0, <1>4, <1>5 DEF Bare
    <2>2. e <= k
      BY <1>2, <2>1
    <2> QED
      BY <1>0, <1>4, <2>2
  <1>6. ASSUME t[k] # "tick" PROVE k # e
    <2> SUFFICES ASSUME k = e PROVE FALSE
      OBVIOUS
    <2>1. k \in a + 1 .. k /\ ~Bare(t, a, k, "tick")
      BY <1>0, <1>6 DEF Bare
    <2> QED
      BY <1>1, <2>1
  <1>7. ASSUME t[k] = "$", k < Len(t), t[k + 1] = "{" PROVE e = k + 1
    <2>0. k < Len(t)
      BY <1>7
    <2>1. k + 1 \in a + 1 .. Len(t) /\ (k + 1) - 1 = k /\ k > a
      BY <2>0
    <2>2. Hole(t, a, k + 1)
      BY <1>7, <2>1 DEF Bare, Hole
    <2>3. e <= k + 1
      BY <1>2, <1>7, <2>1, <2>2
    <2>4. k # e
      BY <1>6, <1>7
    <2> QED
      BY <1>0, <1>4, <2>3, <2>4
  <1>8. t[e] = "tick" \/ t[e] = "{"
    BY <1>1 DEF Bare, Hole
  <1>9. t[k] # "tick" => k < e
    <2>1. k # e => k < e
      BY <1>0, <1>4
    <2> QED
      BY <1>6, <2>1
  <1> QED
    BY <1>0, <1>4, <1>5, <1>7, <1>8, <1>9

(***************************************************************************)
(* Script: where the scan stands in the reading of its text.               *)
(***************************************************************************)
\* An operand ends what is emitted.
Ender ==
  \E j \in 1 .. Len(out) : /\ isExprEnder(out[j])
                           /\ \A m \in 1 .. Len(out) : m > j => out[m] \in Blanks

\* What prevSig and prevWord say of the token before.
Prev(last) ==
  /\ last = "none" => prevSig = "none"
  /\ last = "word" => prevSig \in Words /\ prevWord = "other" /\ Ender
  /\ last = "keyword" => prevSig \in Words /\ prevWord = "keyword"
  /\ last = "period" => prevSig = "."
  /\ last = "operand" => prevSig \in {")", "]"} /\ Ender
  /\ last = "literal" => prevSig = ")"
  /\ last = "postfix" => postfixIncDec
  /\ last = "prefix" => prevSig = "+"
  /\ last = "operator" => ~isExprEnder(prevSig) /\ ~postfixIncDec

\* A + in front of a + is the second of its pair.
Pair == at > 1 /\ at <= Len(src) /\ out[at - 1] = "+" /\ src[at] = "+" => at > 2 /\ out[at - 2] = "+"

AtToken(s) == mode = "code" /\ s.at = at /\ s.nest = 0 /\ Prev(s.last) /\ Pair
\* In a word, behind its first symbol; on the second + of x++.
InWord(s) ==
  /\ mode = "code" /\ s.nest = 0 /\ s.at < at /\ at <= Len(src)
  /\ \A k \in s.at .. at : src[k] \in Words
  /\ prevSig \in Words /\ prevWord # "none"
InPlus(s) ==
  /\ mode = "code" /\ s.nest = 0 /\ at = s.at + 1 /\ Increment(src, s)
  /\ out[s.at] = "+" /\ prevSig = "+"
  /\ s.last \in {"word", "operand"} =>
       \E j \in 1 .. s.at - 1 : isExprEnder(out[j]) /\ \A m \in j + 1 .. s.at - 1 : out[m] \in Blanks
InLine(s) ==
  /\ mode = "line" /\ s.at = at /\ s.nest = 0 /\ Prev(s.last) /\ Line(src, s)
  /\ \A k \in at .. ahead - 1 : src[k] # "nl"
InBlock(s) ==
  /\ mode = "block" /\ s.at = at /\ s.nest = 0 /\ Prev(s.last) /\ Block(src, s) /\ ahead >= at + 2
  /\ \A k \in at + 2 .. ahead - 1 : ~Two(src, k, "*", "/")
InString(s) ==
  /\ mode = "string" /\ s.at = at /\ s.nest = 0 /\ src[at] = "q"
  /\ quote.open = <<"q">> /\ quote.escape /\ ~quote.multiline /\ ahead > at /\ ~Escaped(src, at, ahead)
  /\ \A k \in at + 1 .. ahead - 1 : ~Bare(src, at, k, "q") /\ ~Bare(src, at, k, "nl")
InRegex(s) ==
  /\ mode = "regex" /\ s.at = at /\ s.nest = 0 /\ Regex(src, s)
  /\ ahead > at /\ ~Escaped(src, at, ahead) /\ (inClass <=> InBrackets(src, at, ahead))
  /\ \A k \in at + 1 .. ahead - 1 : Bare(src, at, k, "/") => InBrackets(src, at, k)
InFlags(s) ==
  /\ mode = "flags" /\ s.at = at /\ s.nest = 0 /\ Regex(src, s)
  /\ \E b \in RegexClose(src, at) : b < ahead /\ \A k \in b + 1 .. ahead - 1 : src[k] \in Words \ {"$"}
\* In a template: in its characters, or in the code of its ${ }.
InTemplate(s) == mode = "template" /\ at <= s.at /\ \A k \in at .. s.at - 1 : k \in InLiteral(src)
InChars(s) ==
  /\ InTemplate(s) /\ s.at <= Len(src) /\ Opens(src, s) /\ depth = Around(src, s)
  /\ ahead > s.at /\ ~Escaped(src, s.at, ahead)
  /\ \A k \in s.at + 1 .. ahead - 1 : ~Bare(src, s.at, k, "tick")
  /\ \A k \in s.at + 1 .. ahead : ~Hole(src, s.at, k)
InCode(s) ==
  /\ InTemplate(s) /\ depth = s.nest /\ s.nest > 0 /\ s.at <= ahead
  /\ ahead > s.at => ~Opens(src, s) /\ ahead < Step(src, s).at

\* What is emitted: the literals blank, the rest as it was.
LitOK == \A k \in 1 .. at - 1 : IF k \in InLiteral(src) THEN out[k] \in Blanks ELSE out[k] = src[k]
Single == prevSig \in Words \/ prevWord = "none"

Where(s) ==
  \/ AtToken(s) \/ InWord(s) \/ InPlus(s) \/ InLine(s) \/ InBlock(s) \/ InString(s)
  \/ InRegex(s) \/ InFlags(s) \/ InChars(s) \/ InCode(s)
ScriptRead == lang = "script" /\ src \in Seq(Symbols) /\ Lexical(src)
FirstRead == ScriptRead /\ pass = 1 /\ text = src /\ Reading(src).shapes \cap Misread = {}
FirstScript == (\E s : Good(src, s) /\ Where(s)) /\ LitOK /\ Single

LEMMA BlankOut ==
  ASSUME Kept, NEW end \in Nat, at <= end, end <= Len(text) + 1, Emit(blank(at, end), end)
  PROVE  /\ Kept' /\ UNCHANGED fixed /\ mode' = "code" /\ at' = end /\ Len(out') = end - 1
         /\ \A k \in 1 .. at - 1 : out'[k] = out[k]
         /\ \A k \in at .. end - 1 : out'[k] \in Blanks
  <1>0. text \in Seq(Symbols) /\ at \in Nat \ {0}
    BY DEF Kept, Progress
  <1>1. /\ blank(at, end) \in Seq(Symbols) /\ Len(blank(at, end)) = end - at
        /\ \A k \in 1 .. end - at : blank(at, end)[k] \in Blanks
        /\ \A k \in 1 .. end - at : Keeps(text[at + k - 1], blank(at, end)[k])
    BY <1>0, Blanked
  <1>2. end = at + Len(blank(at, end))
    BY <1>0, <1>1
  <1>3. /\ Kept' /\ mode' = "code" /\ at' = end /\ Len(out') = end - 1
        /\ \A k \in 1 .. at - 1 : out'[k] = out[k]
        /\ \A k \in 1 .. end - at : out'[at + k - 1] = blank(at, end)[k]
    BY <1>1, <1>2, EmitStep
  <1>4. \A k \in at .. end - 1 : out'[k] \in Blanks
    <2> TAKE k \in at .. end - 1
    <2>1. k - at + 1 \in 1 .. end - at /\ at + (k - at + 1) - 1 = k
      BY <1>0
    <2> QED
      BY <1>1, <1>3, <2>1
  <1> QED
    BY <1>3, <1>4 DEF Emit

LEMMA SymbolOut ==
  ASSUME Kept, at <= Len(text), NEW c, c = text[at], Emit(<<c>>, at + 1)
  PROVE  /\ Kept' /\ UNCHANGED fixed /\ mode' = "code" /\ at' = at + 1 /\ Len(out') = at
         /\ \A k \in 1 .. at - 1 : out'[k] = out[k]
         /\ out'[at] = c
  BY SymbolStep DEF Emit

\* Blanks behind it change nothing about the operand before.
LEMMA BlanksAfter ==
  ASSUME NEW n \in Nat, NEW n2 \in Nat, n <= n2, Len(out) = n, Len(out)' = n2, out \in Seq(Symbols), out' \in Seq(Symbols),
         \A k \in 1 .. n : out'[k] = out[k], \A k \in n + 1 .. n2 : out'[k] \in Blanks, prevSig' = prevSig
  PROVE  (postfixIncDec' <=> postfixIncDec) /\ (Ender => Ender')
  <1>0. DOMAIN out = 1 .. n /\ DOMAIN out' = 1 .. n2
    OBVIOUS
  <1>1. ASSUME postfixIncDec PROVE postfixIncDec'
    <2>1. prevSig' = "+"
      BY <1>1 DEF postfixIncDec
    <2>2. PICK k \in 1 .. n : \E j \in 1 .. k - 2 :
            /\ out[k] = "+" /\ out[k - 1] = "+"
            /\ \A m \in 1 .. n : m > k => out[m] \in Blanks
            /\ \A m \in j + 1 .. k - 2 : out[m] \in Blanks
            /\ isExprEnder(out[j])
      BY <1>0, <1>1 DEF postfixIncDec
    <2>3. PICK j \in 1 .. k - 2 :
            /\ out[k] = "+" /\ out[k - 1] = "+"
            /\ \A m \in 1 .. n : m > k => out[m] \in Blanks
            /\ \A m \in j + 1 .. k - 2 : out[m] \in Blanks
            /\ isExprEnder(out[j])
      BY <2>2
    <2>4. /\ k \in 1 .. n2 /\ k - 1 \in 1 .. n /\ j \in 1 .. n
          /\ \A m \in j + 1 .. k - 2 : m \in 1 .. n
          /\ \A m \in 1 .. n2 : m \in 1 .. n \/ m \in n + 1 .. n2
      OBVIOUS
    <2>5. /\ out'[k] = "+" /\ out'[k - 1] = "+" /\ out'[j] = out[j]
          /\ \A m \in j + 1 .. k - 2 : out'[m] \in Blanks
          /\ \A m \in 1 .. n2 : m > k => out'[m] \in Blanks
      BY <2>3, <2>4
    <2>6. isExprEnder(out[j])'
      BY <2>3, <2>5 DEF isExprEnder
    <2> QED
      BY <1>0, <2>1, <2>4, <2>5, <2>6 DEF postfixIncDec
  <1>2. ASSUME postfixIncDec' PROVE postfixIncDec
    <2>1. prevSig = "+"
      BY <1>2 DEF postfixIncDec
    <2>2. PICK k \in 1 .. n2 : \E j \in 1 .. k - 2 :
            /\ out'[k] = "+" /\ out'[k - 1] = "+"
            /\ \A m \in 1 .. n2 : m > k => out'[m] \in Blanks
            /\ \A m \in j + 1 .. k - 2 : out'[m] \in Blanks
            /\ isExprEnder(out'[j])
      BY <1>0, <1>2 DEF postfixIncDec
    <2>3. PICK j \in 1 .. k - 2 :
            /\ out'[k] = "+" /\ out'[k - 1] = "+"
            /\ \A m \in 1 .. n2 : m > k => out'[m] \in Blanks
            /\ \A m \in j + 1 .. k - 2 : out'[m] \in Blanks
            /\ isExprEnder(out'[j])
      BY <2>2
    <2>4. k \in 1 .. n
      <3>1. k \notin n + 1 .. n2
        BY <2>3 DEF Blanks
      <3> QED
        BY <3>1
    <2>5. /\ k - 1 \in 1 .. n /\ j \in 1 .. n
          /\ \A m \in j + 1 .. k - 2 : m \in 1 .. n
          /\ \A m \in 1 .. n : m \in 1 .. n2
      BY <2>4
    <2>6. /\ out[k] = "+" /\ out[k - 1] = "+" /\ out[j] = out'[j]
          /\ \A m \in j + 1 .. k - 2 : out[m] \in Blanks
          /\ \A m \in 1 .. n : m > k => out[m] \in Blanks
      BY <2>3, <2>4, <2>5
    <2> QED
      BY <1>0, <2>1, <2>3, <2>4, <2>6 DEF postfixIncDec
  <1>3. ASSUME Ender PROVE Ender'
    <2>1. PICK j \in 1 .. n : isExprEnder(out[j]) /\ \A m \in 1 .. n : m > j => out[m] \in Blanks
      BY <1>3 DEF Ender
    <2>2. \A m \in 1 .. n2 : m \in 1 .. n \/ m \in n + 1 .. n2
      OBVIOUS
    <2>3. j \in 1 .. n2 /\ out'[j] = out[j] /\ \A m \in 1 .. n2 : m > j => out'[m] \in Blanks
      BY <2>1, <2>2
    <2>4. isExprEnder(out[j])'
      BY <2>1, <2>3 DEF isExprEnder
    <2> QED
      BY <2>3, <2>4 DEF Ender
  <1> QED
    BY <1>1, <1>2, <1>3

LEMMA BlankBehind ==
  ASSUME Kept, Kept', NEW end \in Nat, at' = end, at < end, \A k \in 1 .. at - 1 : out'[k] = out[k],
         \A k \in at .. end - 1 : out'[k] \in Blanks, UNCHANGED tokenVars, NEW last, Prev(last)
  PROVE  Prev(last)' /\ Pair'
  <1>1. PICK n \in Nat : n = at - 1 /\ n = Len(out)
    BY DEF Kept, Progress
  <1>2. PICK n2 \in Nat : n2 = end - 1 /\ n2 = Len(out')
    BY DEF Kept, Progress
  <1>3. n <= n2 /\ \A k \in n + 1 .. n2 : k \in at .. end - 1
    BY <1>1, <1>2 DEF Kept, Progress
  <1>4. prevSig' = prevSig /\ prevWord' = prevWord
    BY DEF tokenVars
  <1>5. (postfixIncDec' <=> postfixIncDec) /\ (Ender => Ender')
    BY <1>1, <1>2, <1>3, <1>4, BlanksAfter DEF Kept, Progress
  <1>6. isExprEnder(prevSig)' <=> isExprEnder(prevSig)
    BY <1>4 DEF isExprEnder
  <1>7. Prev(last)'
    BY <1>4, <1>5, <1>6 DEF Prev
  <1>8. end - 1 \in at .. end - 1
    BY DEF Kept, Progress
  <1>9. out'[at' - 1] # "+"
    BY <1>8 DEF Blanks
  <1> QED
    BY <1>7, <1>9 DEF Pair

LEMMA LitGrows ==
  ASSUME LitOK, at \in Nat, NEW end \in Nat, at' = end, src' = src, \A k \in 1 .. at - 1 : out'[k] = out[k],
         \A k \in at .. end - 1 : IF k \in InLiteral(src) THEN out'[k] \in Blanks ELSE out'[k] = src[k]
  PROVE  LitOK'
  <1> SUFFICES ASSUME NEW k \in 1 .. end - 1
               PROVE  IF k \in InLiteral(src) THEN out'[k] \in Blanks ELSE out'[k] = src[k]
    BY DEF LitOK
  <1>1. k \in 1 .. at - 1 \/ k \in at .. end - 1
    OBVIOUS
  <1> QED
    BY <1>1 DEF LitOK

LEMMA Here ==
  ASSUME Kept, FirstRead, NEW s, Good(src, s)
  PROVE  /\ src \in Seq(Symbols) /\ Len(src) \in Nat /\ Lexical(src) /\ Len(text) = Len(src)
         /\ Sane(src, s) /\ s.at \in Nat \ {0} /\ s.nest \in Nat /\ s.at <= Len(src) + 1
         /\ at \in Nat \ {0} /\ ahead \in Nat /\ at <= ahead
         /\ s.at > Len(src) => s.nest = 0
  <1>1. src \in Seq(Symbols) /\ Len(src) \in Nat /\ Lexical(src) /\ Len(text) = Len(src)
    BY DEF FirstRead, ScriptRead
  <1>2. Sane(src, s) /\ (s.at > Len(src) => s.nest = 0)
    BY <1>1, GoodFacts
  <1>3. s.at \in Nat \ {0} /\ s.nest \in Nat /\ s.at <= Len(src) + 1
    BY <1>2 DEF Sane, ReadingType
  <1>4. at \in Nat \ {0} /\ ahead \in Nat /\ at <= ahead
    BY DEF Kept, Progress
  <1> QED
    BY <1>1, <1>2, <1>3, <1>4

LEMMA NotMisread ==
  ASSUME FirstRead, NEW s, Good(src, s), s.at <= Len(src), NEW n, n = Step(src, s)
  PROVE  ~Property(src, s, n) /\ ~Joined(src, s, n) /\ ~Braced(src, s, n)
  <1>1. n.shapes = s.shapes \cup Shapes(src, s, n) /\ n.shapes \subseteq Reading(src).shapes
    BY StepGood DEF FirstRead, ScriptRead
  <1>2. Shapes(src, s, n) \cap {"property", "joined", "braced"} = {}
    BY <1>1 DEF FirstRead, Misread
  <1> QED
    BY <1>2 DEF Shapes

LEMMA SpaceOn ==
  ASSUME Kept, FirstRead, LitOK, Single, NEW s, Good(src, s), AtToken(s), Space
  PROVE  FirstScript'
  <1>1. /\ at <= Len(src) /\ src[at] \in Blanks /\ Emit(<<src[at]>>, at + 1) /\ UNCHANGED <<tokenVars, names>>
        /\ s.at = at /\ s.nest = 0 /\ Prev(s.last) /\ text = src
    BY DEF Space, Scanning, FirstRead, AtToken
  <1>2. /\ Kept' /\ UNCHANGED fixed /\ mode' = "code" /\ at' = at + 1
        /\ \A k \in 1 .. at - 1 : out'[k] = out[k]
        /\ out'[at] = src[at]
    BY <1>1, SymbolOut
  <1>3. src' = src /\ UNCHANGED tokenVars
    BY <1>1, <1>2 DEF fixed
  <1>4. PICK end \in Nat : end = at + 1
    BY Here
  <1>5. at < end /\ \A k \in at .. end - 1 : k = at
    BY <1>4, Here
  <1>6. Prev(s.last)' /\ Pair'
    BY <1>1, <1>2, <1>3, <1>4, <1>5, BlankBehind
  <1>7. PICK n : n = Step(src, s)
    OBVIOUS
  <1>8. Good(src, n) /\ Left(src, s, s.at, n) /\ n.last = s.last /\ n.nest = s.nest
    BY <1>1, <1>7, Here, StepGood, StepGoes
  <1>9. at \notin InLiteral(src) /\ n.at = at + 1
    BY <1>1, <1>8, Here DEF Left
  <1>10. LitOK'
    BY <1>2, <1>3, <1>4, <1>5, <1>9, LitGrows, Here
  <1>11. AtToken(n)'
    BY <1>1, <1>2, <1>6, <1>8, <1>9 DEF AtToken
  <1>12. Single'
    BY <1>3 DEF Single, tokenVars
  <1> QED
    BY <1>3, <1>8, <1>10, <1>11, <1>12 DEF FirstScript, Where

LEMMA TwoMatch ==
  ASSUME NEW t \in Seq(Symbols), NEW i \in Nat \ {0}, NEW a, NEW b
  PROVE  /\ Matches(t, i, <<a, b>>) <=> Two(t, i, a, b)
         /\ Matches(t, i, <<a>>) <=> i <= Len(t) /\ t[i] = a
  <1>1. DOMAIN <<a, b>> = {1, 2} /\ DOMAIN <<a>> = {1} /\ <<a, b>>[1] = a /\ <<a, b>>[2] = b /\ <<a>>[1] = a
    OBVIOUS
  <1>2. DOMAIN t = 1 .. Len(t) /\ Len(t) \in Nat
    OBVIOUS
  <1>3. i + 1 - 1 = i /\ i + 2 - 1 = i + 1 /\ (i + 1 \in 1 .. Len(t) <=> i < Len(t)) /\ (i \in 1 .. Len(t) <=> i <= Len(t))
        /\ (i < Len(t) => i <= Len(t))
    BY <1>2
  <1>4. Matches(t, i, <<a, b>>) <=> i \in 1 .. Len(t) /\ t[i] = a /\ i + 1 \in 1 .. Len(t) /\ t[i + 1] = b
    BY <1>1, <1>2, <1>3 DEF Matches
  <1>5. Matches(t, i, <<a>>) <=> i \in 1 .. Len(t) /\ t[i] = a
    BY <1>1, <1>2, <1>3 DEF Matches
  <1> QED
    BY <1>3, <1>4, <1>5 DEF Two

LEMMA StaysBefore ==
  ASSUME src' = src, UNCHANGED <<out, at, tokenVars>>
  PROVE  (LitOK => LitOK') /\ (Single => Single') /\ \A last : Prev(last) => Prev(last)'
  BY DEF LitOK, Single, Prev, tokenVars, Ender, postfixIncDec, isExprEnder

\* What opens in a script.
LEMMA ScriptOpens ==
  ASSUME Kept, FirstRead, NEW s, Good(src, s), at <= Len(src)
  PROVE  /\ LineHit(at) => Two(src, at, "/", "/") \/ src[at] = "#"
         /\ Two(src, at, "/", "/") => LineHit(at)
         /\ BlockHit(at) <=> Two(src, at, "/", "*")
         /\ TemplateHit(at) <=> src[at] = "tick"
         /\ SlashHit(at) => src[at] = "/" /\ ~Two(src, at, "/", "/") /\ ~Two(src, at, "/", "*")
         /\ src[at] = "/" => SlashHit(at) \/ Two(src, at, "/", "/") \/ Two(src, at, "/", "*")
         /\ ~NameHit(at)
         /\ \A q \in StringHit(at) : \/ q = Quote(<<"q">>, TRUE, FALSE) /\ src[at] = "q"
                                     \/ src[at] = "dq"
         /\ src[at] = "q" => StringHit(at) # {}
  <1>0. lang = "script" /\ text = src /\ src \in Seq(Symbols) /\ at \in Nat \ {0} /\ 1 \in Nat \ {0} /\ Len(text) = Len(src)
    BY Here DEF FirstRead, ScriptRead
  <1>1. Shebang(at) => src[at] = "#"
    <2>1. Matches(text, 1, <<"#", "!">>) <=> Two(src, 1, "#", "!")
      BY <1>0, TwoMatch
    <2> QED
      BY <2>1 DEF Shebang, Two
  <1>2. Matches(text, at, LineOpen) <=> Two(src, at, "/", "/")
    BY <1>0, TwoMatch DEF LineOpen
  <1>3. BlockHit(at) <=> Two(src, at, "/", "*")
    BY <1>0, TwoMatch DEF BlockHit, BlockOpen
  <1>4. (TemplateHit(at) <=> src[at] = "tick") /\ ~NameHit(at)
    BY <1>0 DEF TemplateHit, NameHit
  <1>5. SlashHit(at) <=> src[at] = "/" /\ ~LineHit(at) /\ ~BlockHit(at)
    BY <1>0 DEF SlashHit
  <1>6. Strings = {Quote(<<"q">>, TRUE, FALSE), Quote(<<"dq">>, TRUE, FALSE)}
    BY <1>0 DEF Strings, Short
  <1>7. Quote(<<"q">>, TRUE, FALSE).open = <<"q">> /\ Quote(<<"dq">>, TRUE, FALSE).open = <<"dq">>
    BY DEF Quote
  <1>8. /\ Matches(text, at, <<"q">>) <=> src[at] = "q"
        /\ Matches(text, at, <<"dq">>) <=> src[at] = "dq"
    BY <1>0, TwoMatch
  <1>9. \A q \in StringHit(at) : \/ q = Quote(<<"q">>, TRUE, FALSE) /\ src[at] = "q"
                                 \/ src[at] = "dq"
    BY <1>6, <1>7, <1>8 DEF StringHit
  <1>10. ASSUME src[at] = "q" PROVE StringHit(at) # {}
    <2>1. PICK q : q = Quote(<<"q">>, TRUE, FALSE)
      OBVIOUS
    <2>2. q \in Strings /\ q.open = <<"q">> /\ Matches(text, at, q.open)
      BY <1>6, <1>7, <1>8, <1>10, <2>1
    <2>3. \A r \in Strings : Matches(text, at, r.open) => r = q
      BY <1>6, <1>7, <1>8, <1>10, <2>1
    <2>4. Len(q.open) = 1
      BY <2>2
    <2>5. ASSUME NEW r \in Strings, Matches(text, at, r.open) PROVE Len(r.open) <= Len(q.open)
      <3>1. r = q
        BY <2>3, <2>5
      <3>2. 1 <= 1
        OBVIOUS
      <3> QED
        BY <2>4, <3>1, <3>2
    <2>6. q \in StringHit(at)
      BY <2>2, <2>5 DEF StringHit
    <2> QED
      BY <2>6
  <1> QED
    BY <1>0, <1>1, <1>2, <1>3, <1>4, <1>5, <1>9, <1>10 DEF LineHit

LEMMA OpenOn ==
  ASSUME Kept, FirstRead, LitOK, Single, NEW s, Good(src, s), AtToken(s),
         OpenComment \/ OpenString \/ OpenTemplate \/ OpenRegex
  PROVE  FirstScript'
  <1>1. /\ at <= Len(src) /\ UNCHANGED <<fixed, out, at, tokenVars, names>> /\ text = src
        /\ s.at = at /\ s.nest = 0 /\ Prev(s.last) /\ mode = "code"
    BY DEF OpenComment, OpenString, OpenTemplate, OpenRegex, Enter, Scanning, FirstRead, AtToken
  <1>2. /\ src \in Seq(Symbols) /\ Len(src) \in Nat /\ at \in Nat \ {0} /\ ~Unread(src, s) /\ s.nest \in Nat
    BY <1>1, Here, StepGoes
  <1>3. src[at] \notin {"#", "dq"}
    BY <1>1, <1>2 DEF Unread, Opens, Absent
  <1>4. src' = src /\ LitOK' /\ Single' /\ Prev(s.last)'
    BY <1>1, StaysBefore DEF fixed
  <1>5. CASE OpenComment
    <2>1. CASE mode' = "line" /\ ahead' = at /\ LineHit(at)
      <3>1. Line(src, s)
        BY <1>1, <1>3, <2>1, ScriptOpens DEF Line
      <3>2. InLine(s)'
        BY <1>1, <1>2, <1>4, <2>1, <3>1 DEF InLine
      <3> QED
        BY <1>4, <3>2 DEF FirstScript, Where
    <2>2. CASE mode' = "block" /\ ahead' = at + 2 /\ BlockHit(at)
      <3>1. Block(src, s)
        BY <1>1, <1>3, <2>2, ScriptOpens DEF Block
      <3>2. ahead' >= at' + 2 /\ \A k \in at' + 2 .. ahead' - 1 : FALSE
        BY <1>1, <1>2, <2>2
      <3>3. InBlock(s)'
        BY <1>1, <1>2, <1>4, <2>2, <3>1, <3>2 DEF InBlock
      <3> QED
        BY <1>4, <3>3 DEF FirstScript, Where
    <2> QED
      BY <1>5, <2>1, <2>2 DEF OpenComment, Enter
  <1>6. CASE OpenString
    <2>1. PICK q \in StringHit(at) : quote' = q /\ Enter("string", at + Len(q.open))
      BY <1>6 DEF OpenString
    <2>2. q = Quote(<<"q">>, TRUE, FALSE) /\ src[at] = "q"
      BY <1>1, <1>3, <2>1, ScriptOpens
    <2>3. Len(q.open) = 1
      BY <2>2 DEF Quote
    <2>4. mode' = "string" /\ ahead' = at + 1
      BY <2>1, <2>3 DEF Enter
    <2>5. ahead' > at' /\ ~Escaped(src, at, ahead') /\ \A k \in at' + 1 .. ahead' - 1 : FALSE
      BY <1>1, <1>2, <2>4, EscapedFirst
    <2>6. InString(s)'
      BY <1>1, <1>4, <2>1, <2>2, <2>4, <2>5 DEF InString, Quote
    <2> QED
      BY <1>4, <2>6 DEF FirstScript, Where
  <1>7. CASE OpenTemplate
    <2>1. mode' = "template" /\ ahead' = at + 1 /\ depth' = 0 /\ src[at] = "tick"
      BY <1>1, <1>7, ScriptOpens DEF OpenTemplate, Enter
    <2>2. /\ ahead' > at' /\ ~Escaped(src, at, ahead') /\ \A k \in at' + 1 .. ahead' - 1 : FALSE
          /\ \A k \in at' + 1 .. ahead' : ~Hole(src, at, k)
      <3>1. \A k \in at + 1 .. at + 1 : ~(k - 1 > at)
        BY <1>2
      <3>2. \A k \in at + 1 .. at + 1 : ~Hole(src, at, k)
        BY <3>1 DEF Hole
      <3>3. at' = at /\ ahead' = at + 1 /\ at + 1 > at /\ \A k \in at + 1 .. at + 1 - 1 : FALSE
        BY <1>1, <1>2, <2>1
      <3> QED
        BY <1>2, <3>2, <3>3, EscapedFirst
    <2>3. \A k \in at' .. s.at - 1 : FALSE
      BY <1>1, <1>2
    <2>4. at' <= s.at /\ s.at <= Len(src')
      BY <1>1, <1>2, <1>4
    <2>5. InChars(s)'
      BY <1>1, <1>4, <2>1, <2>2, <2>3, <2>4 DEF InChars, InTemplate, Opens, Around
    <2> QED
      BY <1>4, <2>5 DEF FirstScript, Where
  <1>8. CASE OpenRegex
    <2>1. /\ mode' = "regex" /\ ahead' = at + 1 /\ ~inClass' /\ regexAllowed
          /\ src[at] = "/" /\ Slash(src, s)
      BY <1>1, <1>8, ScriptOpens DEF OpenRegex, Enter, Slash, Line, Block
    <2>2. s.last \notin Operands
      BY <1>1, <2>1 DEF Prev, regexAllowed, isExprEnder, Operands, Single, Words
    <2>3. Regex(src, s)
      BY <1>1, <1>2, <2>1, <2>2 DEF Regex, Unread, Opens
    <2>4. /\ ahead' > at' /\ ~Escaped(src, at, ahead') /\ \A k \in at' + 1 .. ahead' - 1 : FALSE
          /\ ~InBrackets(src, at, ahead')
      BY <1>1, <1>2, <2>1, EscapedFirst DEF InBrackets
    <2>5. InRegex(s)'
      BY <1>1, <1>4, <2>1, <2>3, <2>4 DEF InRegex
    <2> QED
      BY <1>4, <2>5 DEF FirstScript, Where
  <1> QED
    BY <1>5, <1>6, <1>7, <1>8

LEMMA SymbolOn ==
  ASSUME Kept, FirstRead, LitOK, at <= Len(src), NEW c, c = src[at], Emit(<<c>>, at + 1), at \notin InLiteral(src)
  PROVE  /\ LitOK' /\ src' = src /\ mode' = "code" /\ at' = at + 1 /\ Len(out') = at /\ Kept'
         /\ \A k \in 1 .. at - 1 : out'[k] = out[k]
         /\ out'[at] = c /\ at \in Nat \ {0} /\ Len(src) \in Nat
         /\ isExprEnder(c) => Ender'
         /\ c # "+" \/ at + 1 > Len(src) \/ src[at + 1] # "+" => Pair'
  <1>1. at \in Nat \ {0} /\ text = src /\ Len(text) = Len(src) /\ Len(src) \in Nat
    BY DEF Kept, Progress, FirstRead, ScriptRead
  <1>2. /\ Kept' /\ UNCHANGED fixed /\ mode' = "code" /\ at' = at + 1 /\ Len(out') = at
        /\ \A k \in 1 .. at - 1 : out'[k] = out[k]
        /\ out'[at] = c
    BY <1>1, SymbolOut
  <1>3. src' = src
    BY <1>2 DEF fixed
  <1>4. PICK end \in Nat : end = at + 1
    BY <1>1
  <1>5. \A k \in at .. end - 1 : k = at
    BY <1>1, <1>4
  <1>6. LitOK'
    BY <1>1, <1>2, <1>3, <1>4, <1>5, LitGrows
  <1>7. ASSUME isExprEnder(c) PROVE Ender'
    <2>1. at \in 1 .. Len(out') /\ \A m \in 1 .. Len(out') : ~(m > at)
      BY <1>1, <1>2
    <2>2. isExprEnder(out'[at])
      BY <1>2, <1>7
    <2> QED
      BY <2>1, <2>2, <1>2 DEF Ender, isExprEnder
  <1>8. ASSUME c # "+" \/ at + 1 > Len(src) \/ src[at + 1] # "+" PROVE Pair'
    <2>1. at' - 1 = at /\ (at + 1 > Len(src) <=> ~(at + 1 <= Len(src)))
      BY <1>1, <1>2
    <2>2. out'[at' - 1] # "+" \/ ~(at' <= Len(src')) \/ src'[at'] # "+"
      BY <1>2, <1>3, <1>8, <2>1
    <2> QED
      BY <2>2 DEF Pair
  <1> QED
    BY <1>1, <1>2, <1>3, <1>6, <1>7, <1>8

LEMMA DivideOn ==
  ASSUME Kept, FirstRead, LitOK, Single, NEW s, Good(src, s), AtToken(s), Divide
  PROVE  FirstScript'
  <1>1. /\ at <= Len(src) /\ prevSig' = "/" /\ prevWord' = "none" /\ ~regexAllowed
        /\ SlashHit(at) /\ Emit(<<"/">>, at + 1)
        /\ s.at = at /\ s.nest = 0 /\ Prev(s.last)
    BY DEF Divide, Division, Scanning, FirstRead, AtToken
  <1>2. /\ src[at] = "/" /\ Slash(src, s) /\ at \in Nat \ {0} /\ ~Unread(src, s) /\ Len(src) \in Nat /\ Lexical(src)
    BY <1>1, Here, ScriptOpens, StepGoes DEF Slash, Line, Block
  <1>3. s.last \in Operands
    <2>1. s.last \in Lasts
      BY Here DEF Sane, ReadingType
    <2>2. s.last # "prefix"
      BY <1>1, <1>2 DEF Unread, Opens
    <2>3. s.last \notin {"none", "keyword", "period", "operator"}
      BY <1>1 DEF Prev, regexAllowed, isExprEnder, Words, postfixIncDec
    <2> QED
      BY <2>1, <2>2, <2>3 DEF Lasts, Operands
  <1>4. Other(src, s)
    BY <1>1, <1>2, <1>3 DEF Other, Slash, Line, Block, Increment, Two, Blanks, Words, Absent
  <1>5. PICK n : n = Step(src, s)
    OBVIOUS
  <1>6. Good(src, n) /\ Left(src, s, s.at, n) /\ n.last = PlainLast(src, s) /\ n.nest = s.nest
    BY <1>1, <1>2, <1>4, <1>5, StepGood, StepGoes
  <1>7. at \notin InLiteral(src) /\ n.at = at + 1 /\ n.last = "operator"
    BY <1>1, <1>2, <1>6 DEF Left, PlainLast
  <1>8. LitOK' /\ src' = src /\ mode' = "code" /\ at' = at + 1 /\ Pair'
    BY <1>1, <1>2, <1>7, SymbolOn
  <1>9. Prev(n.last)'
    BY <1>1, <1>7 DEF Prev, isExprEnder, Words, postfixIncDec
  <1>10. AtToken(n)'
    BY <1>1, <1>6, <1>7, <1>8, <1>9 DEF AtToken
  <1>11. Single'
    BY <1>1 DEF Single
  <1> QED
    BY <1>6, <1>8, <1>10, <1>11 DEF FirstScript, Where

\* Ordinary on the symbols of a word, on ++, and on the other symbols of code.
LEMMA WordOn ==
  ASSUME Kept, FirstRead, LitOK, Single, NEW s, Good(src, s), AtToken(s), Ordinary, src[at] \in Words
  PROVE  FirstScript'
  <1>1. /\ at <= Len(src) /\ Emit(<<src[at]>>, at + 1) /\ prevSig' = src[at]
        /\ prevWord' = IF ~isWordChar(src[at]) THEN "none"
                       ELSE IF prevWord # "none" /\ isWordChar(prevSig) THEN "other"
                       ELSE IF src[at] = "return" THEN "keyword" ELSE "other"
        /\ s.at = at /\ s.nest = 0 /\ Prev(s.last)
    BY DEF Ordinary, Scanning, FirstRead, AtToken
  <1>2. at \in Nat \ {0} /\ Len(src) \in Nat /\ Lexical(src)
    BY Here
  <1>3. PICK n : n = Step(src, s)
    OBVIOUS
  <1>4. Good(src, n)
    BY <1>1, <1>2, <1>3, StepGood
  <1>5. PICK e \in WordEnd(src, at) : Left(src, s, e, n) /\ n.last = WordLast(src, s) /\ n.nest = s.nest
    BY <1>1, <1>2, <1>3, StepGoes
  <1>6. /\ e \in at .. Len(src) /\ \A k \in at + 1 .. e : src[k] \in Words
        /\ at \in WordEnd(src, at) => e = at
    BY <1>2, <1>5, WordEndIs
  <1>7. at \notin InLiteral(src) /\ n.at = e + 1
    BY <1>1, <1>2, <1>5, <1>6 DEF Left
  <1>8. PICK c : c = src[at]
    OBVIOUS
  <1>9. /\ LitOK' /\ src' = src /\ mode' = "code" /\ at' = at + 1 /\ Pair' /\ Ender'
    BY <1>1, <1>7, <1>8, SymbolOn DEF isExprEnder, Words
  <1>10. prevSig' \in Words /\ prevWord' # "none" /\ Single'
    BY <1>1 DEF isWordChar, Single
  <1>11. CASE e = at
    <2>1. ASSUME n.last = "keyword" PROVE prevWord' = "keyword"
      <3>1. src[at] = "return" /\ ~Joined(src, s, n) /\ s.last # "period"
        BY <1>1, <1>3, <1>5, <2>1, NotMisread DEF WordLast
      <3>2. s.last \notin {"word", "keyword"} /\ s.last \in Lasts
        BY <1>1, <1>7, <1>11, <3>1, Here DEF Joined, Sane, ReadingType
      <3>3. prevSig \notin Words
        BY <1>1, <3>2 DEF Prev, Lasts, isExprEnder, postfixIncDec, Words
      <3> QED
        BY <1>1, <3>1, <3>3 DEF isWordChar, Words
    <2>2. ASSUME n.last = "word" PROVE prevWord' = "other"
      <3>1. src[at] # "return" \/ s.last = "period"
        BY <1>1, <1>5, <1>11, <2>2 DEF WordLast
      <3>2. ~Property(src, s, n)
        BY <1>1, <1>3, NotMisread
      <3>3. src[at] # "return"
        BY <1>1, <1>7, <1>11, <3>1, <3>2 DEF Property
      <3> QED
        BY <1>1, <3>3 DEF isWordChar
    <2>3. n.last \in {"word", "keyword"}
      BY <1>5 DEF WordLast
    <2>4. Prev(n.last)'
      BY <1>9, <1>10, <2>1, <2>2, <2>3 DEF Prev
    <2>5. AtToken(n)'
      BY <1>1, <1>5, <1>7, <1>9, <1>11, <2>4 DEF AtToken
    <2> QED
      BY <1>4, <1>9, <1>10, <2>5 DEF FirstScript, Where
  <1>12. CASE e # at
    <2>1. at + 1 <= Len(src) /\ at < at + 1 /\ \A k \in at .. at + 1 : src[k] \in Words
      BY <1>2, <1>6, <1>12
    <2>2. InWord(s)'
      BY <1>1, <1>9, <1>10, <2>1 DEF InWord
    <2> QED
      BY <1>9, <1>10, <2>2 DEF FirstScript, Where
  <1> QED
    BY <1>11, <1>12

LEMMA PlusOn ==
  ASSUME Kept, FirstRead, LitOK, Single, NEW s, Good(src, s), AtToken(s), Ordinary, Increment(src, s)
  PROVE  FirstScript'
  <1>1. /\ at <= Len(src) /\ Emit(<<src[at]>>, at + 1) /\ prevSig' = src[at]
        /\ prevWord' = IF ~isWordChar(src[at]) THEN "none"
                       ELSE IF prevWord # "none" /\ isWordChar(prevSig) THEN "other"
                       ELSE IF src[at] = "return" THEN "keyword" ELSE "other"
        /\ s.at = at /\ s.nest = 0 /\ Prev(s.last)
    BY DEF Ordinary, Scanning, FirstRead, AtToken
  <1>2. at \in Nat \ {0} /\ Len(src) \in Nat /\ Lexical(src) /\ src[at] = "+" /\ Len(out) = at - 1
    BY <1>1, Here DEF Increment, Two, Kept, Progress
  <1>3. PICK n : n = Step(src, s)
    OBVIOUS
  <1>4. Left(src, s, at + 1, n)
    BY <1>1, <1>2, <1>3, StepGoes
  <1>5. at \notin InLiteral(src)
    BY <1>1, <1>2, <1>4 DEF Left
  <1>6. PICK c : c = src[at]
    OBVIOUS
  <1>7. /\ LitOK' /\ src' = src /\ mode' = "code" /\ at' = at + 1 /\ out'[at] = "+"
        /\ \A k \in 1 .. at - 1 : out'[k] = out[k]
    BY <1>1, <1>2, <1>5, <1>6, SymbolOn
  <1>8. prevSig' = "+" /\ Single'
    BY <1>1, <1>2 DEF isWordChar, Single, Words
  <1>9. ASSUME s.last \in {"word", "operand"}
        PROVE  \E j \in 1 .. s.at - 1 : isExprEnder(out'[j]) /\ \A m \in j + 1 .. s.at - 1 : out'[m] \in Blanks
    <2>1. Ender
      BY <1>1, <1>9 DEF Prev
    <2>2. PICK j \in 1 .. at - 1 : isExprEnder(out[j]) /\ \A m \in 1 .. at - 1 : m > j => out[m] \in Blanks
      BY <1>2, <2>1 DEF Ender
    <2>3. \A m \in j + 1 .. at - 1 : m \in 1 .. at - 1 /\ m > j
      BY <1>2
    <2>4. isExprEnder(out'[j]) /\ \A m \in j + 1 .. at - 1 : out'[m] \in Blanks
      BY <1>7, <2>2, <2>3
    <2> QED
      BY <1>1, <2>4
  <1>10. InPlus(s)'
    BY <1>1, <1>7, <1>8, <1>9 DEF InPlus, isExprEnder
  <1> QED
    BY <1>7, <1>8, <1>10 DEF FirstScript, Where

LEMMA OtherOn ==
  ASSUME Kept, FirstRead, LitOK, Single, NEW s, Good(src, s), AtToken(s), Ordinary, Other(src, s)
  PROVE  FirstScript'
  <1>1. /\ at <= Len(src) /\ Emit(<<src[at]>>, at + 1) /\ prevSig' = src[at] /\ ~Literal(at) /\ ~SlashHit(at)
        /\ prevWord' = IF ~isWordChar(src[at]) THEN "none"
                       ELSE IF prevWord # "none" /\ isWordChar(prevSig) THEN "other"
                       ELSE IF src[at] = "return" THEN "keyword" ELSE "other"
        /\ s.at = at /\ s.nest = 0 /\ Prev(s.last) /\ Pair
    BY DEF Ordinary, Scanning, FirstRead, AtToken
  <1>2. at \in Nat \ {0} /\ Len(src) \in Nat /\ Lexical(src) /\ Len(out) = at - 1 /\ Len(out) \in Nat
    BY <1>1, Here DEF Kept, Progress
  <1>3. /\ src[at] \notin Blanks \cup Words \cup Absent \cup {"q", "tick"} /\ ~Increment(src, s)
        /\ src[at] # "/"
    BY <1>1, ScriptOpens DEF Other, Literal
  <1>4. PICK n : n = Step(src, s)
    OBVIOUS
  <1>5. Good(src, n) /\ Left(src, s, s.at, n) /\ n.last = PlainLast(src, s) /\ n.nest = s.nest
    BY <1>1, <1>2, <1>4, StepGood, StepGoes
  <1>6. at \notin InLiteral(src) /\ n.at = at + 1
    BY <1>1, <1>2, <1>5 DEF Left
  <1>7. PICK c : c = src[at]
    OBVIOUS
  <1>8. /\ LitOK' /\ src' = src /\ mode' = "code" /\ at' = at + 1 /\ out'[at] = c /\ Len(out') = at
        /\ \A k \in 1 .. at - 1 : out'[k] = out[k]
        /\ isExprEnder(c) => Ender'
    BY <1>1, <1>2, <1>6, <1>7, SymbolOn
  <1>9. prevWord' = "none" /\ Single' /\ prevSig' = c
    BY <1>1, <1>3, <1>7 DEF isWordChar, Single
  <1>10. c = "+" => at + 1 > Len(src) \/ src[at + 1] # "+"
    <2>1. at < Len(src) \/ at + 1 > Len(src)
      BY <1>2
    <2> QED
      BY <1>1, <1>3, <1>7, <2>1 DEF Increment, Two
  <1>11. Pair'
    BY <1>1, <1>2, <1>6, <1>7, <1>10, SymbolOn
  <1>12. ~postfixIncDec'
    <2> SUFFICES ASSUME postfixIncDec' PROVE FALSE
      OBVIOUS
    <2>0. DOMAIN out' = 1 .. at /\ DOMAIN out = 1 .. at - 1
      BY <1>2, <1>8, SymbolOut DEF Kept, Progress
    <2>1. PICK k \in 1 .. at : \E j \in 1 .. k - 2 :
            /\ out'[k] = "+" /\ out'[k - 1] = "+" /\ prevSig' = "+"
            /\ \A m \in 1 .. at : m > k => out'[m] \in Blanks
            /\ \A m \in j + 1 .. k - 2 : out'[m] \in Blanks
            /\ isExprEnder(out'[j])
      BY <2>0 DEF postfixIncDec
    <2>2. PICK j \in 1 .. k - 2 :
            /\ out'[k] = "+" /\ out'[k - 1] = "+" /\ prevSig' = "+"
            /\ \A m \in 1 .. at : m > k => out'[m] \in Blanks
            /\ \A m \in j + 1 .. k - 2 : out'[m] \in Blanks
            /\ isExprEnder(out'[j])
      BY <2>1
    <2>3. c = "+"
      BY <1>9, <2>2
    <2>4. k = at
      <3>0. at \in 1 .. at /\ out'[at] \notin Blanks
        BY <1>2, <1>8, <2>3 DEF Blanks
      <3>1. ~(at > k)
        BY <2>2, <3>0
      <3> QED
        BY <1>2, <3>1
    <2>5. /\ at - 1 \in 1 .. at - 1 /\ at - 2 \in 1 .. at - 1 /\ j \in 1 .. at - 1 /\ at > 1
          /\ j = at - 2 \/ at - 2 \in j + 1 .. k - 2
      BY <1>2, <2>4
    <2>6. out[at - 1] = "+" /\ src[at] = "+"
      BY <1>7, <1>8, <2>2, <2>3, <2>4, <2>5
    <2>7. out'[at - 2] = "+"
      BY <1>1, <1>8, <2>5, <2>6 DEF Pair
    <2> QED
      BY <2>2, <2>5, <2>7 DEF isExprEnder, Words, Blanks
  <1>13. Prev(n.last)'
    <2>1. n.last = IF c \in {")", "]"} THEN "operand" ELSE IF c = "." THEN "period" ELSE "operator"
      BY <1>1, <1>5, <1>7 DEF PlainLast
    <2>2. isExprEnder(c) <=> c \in {")", "]"}
      BY <1>3, <1>7 DEF isExprEnder
    <2>3. isExprEnder(prevSig)' <=> isExprEnder(c)
      BY <1>9 DEF isExprEnder
    <2> QED
      BY <1>8, <1>9, <1>12, <2>1, <2>2, <2>3 DEF Prev
  <1>14. AtToken(n)'
    BY <1>1, <1>5, <1>6, <1>8, <1>11, <1>13 DEF AtToken
  <1> QED
    BY <1>5, <1>8, <1>9, <1>14 DEF FirstScript, Where

LEMMA InWordOn ==
  ASSUME Kept, FirstRead, LitOK, Single, NEW s, Good(src, s), InWord(s), Ordinary
  PROVE  FirstScript'
  <1>1. /\ at <= Len(src) /\ Emit(<<src[at]>>, at + 1) /\ prevSig' = src[at]
        /\ prevWord' = IF ~isWordChar(src[at]) THEN "none"
                       ELSE IF prevWord # "none" /\ isWordChar(prevSig) THEN "other"
                       ELSE IF src[at] = "return" THEN "keyword" ELSE "other"
        /\ s.nest = 0 /\ s.at < at /\ \A k \in s.at .. at : src[k] \in Words
        /\ prevSig \in Words /\ prevWord # "none"
    BY DEF Ordinary, Scanning, FirstRead, InWord
  <1>2. at \in Nat \ {0} /\ Len(src) \in Nat /\ Lexical(src) /\ s.at \in Nat \ {0}
    BY Here
  <1>3. src[at] \in Words /\ src[s.at] \in Words /\ src[s.at + 1] \in Words /\ s.at < Len(src) /\ s.at <= Len(src)
    BY <1>1, <1>2
  <1>4. PICK n : n = Step(src, s)
    OBVIOUS
  <1>5. Good(src, n)
    BY <1>2, <1>3, <1>4, StepGood
  <1>6. PICK e \in WordEnd(src, s.at) : Left(src, s, e, n) /\ n.last = WordLast(src, s) /\ n.nest = s.nest
    BY <1>2, <1>3, <1>4, StepGoes
  <1>7. /\ e \in s.at .. Len(src) /\ (\A k \in s.at + 1 .. e : src[k] \in Words)
        /\ e < Len(src) => src[e + 1] \notin Words
        /\ s.at \in WordEnd(src, s.at) => e = s.at
    BY <1>2, <1>6, WordEndIs
  <1>8. e >= at
    <2> SUFFICES ASSUME e < at PROVE FALSE
      BY <1>2, <1>7
    <2>1. e + 1 \in s.at .. at /\ e < Len(src)
      BY <1>1, <1>2, <1>7
    <2> QED
      BY <1>1, <1>7, <2>1
  <1>9. at \notin InLiteral(src) /\ n.at = e + 1
    BY <1>1, <1>2, <1>6, <1>7, <1>8 DEF Left
  <1>10. PICK c : c = src[at]
    OBVIOUS
  <1>11. /\ LitOK' /\ src' = src /\ mode' = "code" /\ at' = at + 1 /\ Pair' /\ Ender'
    BY <1>1, <1>3, <1>9, <1>10, SymbolOn DEF isExprEnder, Words
  <1>12. prevSig' \in Words /\ prevWord' = "other" /\ Single'
    BY <1>1, <1>3 DEF isWordChar, Single
  <1>13. CASE e = at
    <2>1. n.last = "word"
      <3>1. e # s.at
        BY <1>1, <1>2, <1>13
      <3> QED
        BY <1>6, <1>7, <3>1 DEF WordLast
    <2>2. Prev(n.last)'
      BY <1>11, <1>12, <2>1 DEF Prev
    <2>3. AtToken(n)'
      BY <1>1, <1>6, <1>9, <1>11, <1>13, <2>2 DEF AtToken
    <2> QED
      BY <1>5, <1>11, <1>12, <2>3 DEF FirstScript, Where
  <1>14. CASE e # at
    <2>1. at + 1 <= Len(src) /\ s.at < at + 1 /\ \A k \in s.at .. at + 1 : k = s.at \/ k \in s.at + 1 .. e
      BY <1>1, <1>2, <1>7, <1>8, <1>14
    <2>2. \A k \in s.at .. at + 1 : src[k] \in Words
      BY <1>3, <1>7, <2>1
    <2>3. InWord(s)'
      BY <1>1, <1>11, <1>12, <2>1, <2>2 DEF InWord
    <2> QED
      BY <1>11, <1>12, <2>3 DEF FirstScript, Where
  <1> QED
    BY <1>13, <1>14

LEMMA InPlusOn ==
  ASSUME Kept, FirstRead, LitOK, Single, NEW s, Good(src, s), InPlus(s), Ordinary
  PROVE  FirstScript'
  <1>1. /\ at <= Len(src) /\ Emit(<<src[at]>>, at + 1) /\ prevSig' = src[at]
        /\ prevWord' = IF ~isWordChar(src[at]) THEN "none"
                       ELSE IF prevWord # "none" /\ isWordChar(prevSig) THEN "other"
                       ELSE IF src[at] = "return" THEN "keyword" ELSE "other"
        /\ s.nest = 0 /\ at = s.at + 1 /\ Increment(src, s)
        /\ out[s.at] = "+" /\ prevSig = "+"
    BY DEF Ordinary, Scanning, FirstRead, InPlus
  <1>2. at \in Nat \ {0} /\ Len(src) \in Nat /\ Lexical(src) /\ s.at \in Nat \ {0} /\ Len(out) = at - 1
    BY Here DEF Kept, Progress
  <1>3. src[at] = "+" /\ s.at <= Len(src)
    BY <1>1, <1>2 DEF Increment, Two
  <1>0. at = s.at + 1
    BY <1>1
  <1>15. s.at = at - 1 /\ s.at \in 1 .. at - 1 /\ s.at - 1 = at - 2
    BY <1>0, <1>2
  <1>4. PICK n : n = Step(src, s)
    OBVIOUS
  <1>5. /\ Good(src, n) /\ Left(src, s, s.at + 1, n) /\ n.nest = s.nest
        /\ n.last = IF s.last \in {"word", "operand"} THEN "postfix" ELSE "prefix"
    BY <1>1, <1>2, <1>3, <1>4, StepGood, StepGoes
  <1>6. at \notin InLiteral(src) /\ n.at = at + 1
    BY <1>1, <1>2, <1>5 DEF Left
  <1>7. PICK c : c = src[at]
    OBVIOUS
  <1>8. /\ LitOK' /\ src' = src /\ mode' = "code" /\ at' = at + 1 /\ Len(out') = at /\ out'[at] = "+" /\ Kept'
        /\ \A k \in 1 .. at - 1 : out'[k] = out[k]
    BY <1>1, <1>3, <1>6, <1>7, SymbolOn
  <1>9. prevSig' = "+" /\ Single'
    BY <1>1, <1>3 DEF isWordChar, Single, Words
  <1>10. out'[at - 1] = "+"
    BY <1>1, <1>8, <1>15
  <1>11. Pair'
    <2>1. at' - 2 = at - 1 /\ at' > 2
      BY <1>1, <1>2, <1>8
    <2> QED
      BY <1>10, <2>1 DEF Pair
  <1>12. ASSUME s.last \in {"word", "operand"} PROVE postfixIncDec'
    <2>1. PICK j \in 1 .. s.at - 1 : isExprEnder(out[j]) /\ \A m \in j + 1 .. s.at - 1 : out[m] \in Blanks
      BY <1>12 DEF InPlus
    <2>2. /\ j \in 1 .. at - 2 /\ j \in 1 .. at - 1 /\ at \in 1 .. at
          /\ \A m \in j + 1 .. at - 2 : m \in j + 1 .. s.at - 1 /\ m \in 1 .. at - 1
          /\ \A m \in 1 .. at : ~(m > at)
      BY <1>2, <1>15
    <2>3. DOMAIN out' = 1 .. at
      BY <1>2, <1>8 DEF Kept, Progress
    <2>4. isExprEnder(out'[j]) /\ \A m \in j + 1 .. at - 2 : out'[m] \in Blanks
      BY <1>8, <2>1, <2>2
    <2>5. \E k \in 1 .. at : \E i \in 1 .. k - 2 :
            /\ out'[k] = "+" /\ out'[k - 1] = "+"
            /\ \A m \in 1 .. at : m > k => out'[m] \in Blanks
            /\ \A m \in i + 1 .. k - 2 : out'[m] \in Blanks
            /\ isExprEnder(out'[i])
      BY <1>8, <1>10, <2>2, <2>4
    <2> QED
      BY <1>9, <2>3, <2>5 DEF postfixIncDec, isExprEnder
  <1>13. Prev(n.last)'
    BY <1>5, <1>9, <1>12 DEF Prev
  <1>14. AtToken(n)'
    BY <1>1, <1>5, <1>6, <1>8, <1>11, <1>13 DEF AtToken
  <1> QED
    BY <1>5, <1>8, <1>9, <1>14 DEF FirstScript, Where

\* A comment or literal that ends at e, in the token of s, is blank.
LEMMA LiteralOut ==
  ASSUME Kept, FirstRead, LitOK, NEW s, Good(src, s), at <= s.at, \A k \in at .. s.at - 1 : k \in InLiteral(src),
         NEW n, NEW e, Took(src, s, e, n), Emit(blank(at, e + 1), e + 1)
  PROVE  /\ LitOK' /\ Kept' /\ src' = src /\ mode' = "code" /\ at' = n.at /\ at' = e + 1 /\ Pair'
         /\ e + 1 \in Nat /\ at < e + 1
         /\ \A k \in 1 .. at - 1 : out'[k] = out[k]
         /\ \A k \in at .. e : out'[k] \in Blanks
  <1>1. /\ at \in Nat \ {0} /\ s.at \in Nat \ {0} /\ Len(src) \in Nat /\ Len(text) = Len(src)
    BY Here
  <1>2. e \in s.at .. Len(src) /\ n.at = e + 1 /\ \A k \in s.at .. e : k \in InLiteral(src)
    BY DEF Took
  <1>3. PICK end \in Nat : end = e + 1
    BY <1>1, <1>2
  <1>4. at <= end /\ end <= Len(text) + 1 /\ at < end /\ end - 1 = e /\ e \in at .. end - 1
    BY <1>1, <1>2, <1>3
  <1>5. /\ Kept' /\ UNCHANGED fixed /\ mode' = "code" /\ at' = end
        /\ \A k \in 1 .. at - 1 : out'[k] = out[k]
        /\ \A k \in at .. end - 1 : out'[k] \in Blanks
    BY <1>3, <1>4, BlankOut
  <1>6. src' = src
    BY <1>5 DEF fixed
  <1>7. \A k \in at .. end - 1 : k \in InLiteral(src)
    <2> TAKE k \in at .. end - 1
    <2>1. k \in at .. s.at - 1 \/ k \in s.at .. e
      BY <1>1, <1>2, <1>4
    <2> QED
      BY <1>2, <2>1
  <1>8. LitOK'
    BY <1>1, <1>5, <1>6, <1>7, LitGrows
  <1>9. Pair'
    BY <1>3, <1>4, <1>5 DEF Pair, Blanks
  <1> QED
    BY <1>2, <1>3, <1>4, <1>5, <1>6, <1>8, <1>9

\* A comment ends: the token before stays the last.
LEMMA CommentEnds ==
  ASSUME Kept, FirstRead, LitOK, Single, NEW s, Good(src, s), s.at = at, s.nest = 0, Prev(s.last), NEW n, Good(src, n),
         NEW e, Took(src, s, e, n), n.last = s.last, n.nest = s.nest,
         Emit(blank(at, e + 1), e + 1), UNCHANGED tokenVars
  PROVE  FirstScript'
  <1>1. at \in Nat \ {0} /\ at <= s.at /\ \A k \in at .. s.at - 1 : FALSE
    BY Here
  <1>2. /\ LitOK' /\ Kept' /\ src' = src /\ mode' = "code" /\ at' = n.at /\ at' = e + 1
        /\ e + 1 \in Nat /\ at < e + 1
        /\ \A k \in 1 .. at - 1 : out'[k] = out[k]
        /\ \A k \in at .. e : out'[k] \in Blanks
    BY <1>1, LiteralOut
  <1>3. PICK end \in Nat : end = e + 1
    BY <1>2
  <1>4. at < end /\ at' = end /\ \A k \in at .. end - 1 : k \in at .. e
    <2>1. e \in Nat
      BY Here DEF Took
    <2> QED
      BY <1>1, <1>2, <1>3, <2>1
  <1>5. Prev(s.last)' /\ Pair'
    BY <1>2, <1>3, <1>4, BlankBehind
  <1>6. AtToken(n)'
    BY <1>2, <1>5 DEF AtToken
  <1>7. Single'
    BY DEF Single, tokenVars
  <1> QED
    BY <1>2, <1>6, <1>7 DEF FirstScript, Where

\* A literal ends: it is a value.
LEMMA ValueEnds ==
  ASSUME Kept, FirstRead, LitOK, NEW s, Good(src, s), at <= s.at, \A k \in at .. s.at - 1 : k \in InLiteral(src),
         NEW n, Good(src, n), NEW e, Took(src, s, e, n), n.last = "literal", n.nest = 0,
         Emit(blank(at, e + 1), e + 1), Value
  PROVE  FirstScript'
  <1>1. LitOK' /\ src' = src /\ mode' = "code" /\ at' = n.at /\ Pair'
    BY LiteralOut
  <1>2. Prev(n.last)' /\ Single'
    BY DEF Value, Prev, Single
  <1>3. AtToken(n)'
    BY <1>1, <1>2 DEF AtToken
  <1> QED
    BY <1>1, <1>2, <1>3 DEF FirstScript, Where

LEMMA LineOn ==
  ASSUME Kept, FirstRead, LitOK, Single, NEW s, Good(src, s), InLine(s), LineComment
  PROVE  FirstScript'
  <1>1. /\ mode = "line" /\ s.at = at /\ s.nest = 0 /\ Prev(s.last) /\ Line(src, s) /\ text = src
        /\ \A k \in at .. ahead - 1 : src[k] # "nl"
    BY DEF InLine, FirstRead
  <1>2. /\ src \in Seq(Symbols) /\ Len(src) \in Nat /\ Lexical(src) /\ at \in Nat \ {0} /\ ahead \in Nat /\ at <= ahead
        /\ ahead <= Len(src) + 1 /\ at <= Len(src)
    BY <1>1, Here DEF Kept, Progress
  <1>3. CASE ~Ended /\ text[ahead] # "nl"
    <2>1. UNCHANGED <<fixed, out, at, tokenVars>> /\ ahead' = ahead + 1 /\ mode' = "line"
      BY <1>1, <1>3 DEF LineComment, Look
    <2>2. src' = src /\ LitOK' /\ Single' /\ Prev(s.last)'
      BY <1>1, <2>1, StaysBefore DEF fixed
    <2>3. \A k \in at .. ahead + 1 - 1 : k \in at .. ahead - 1 \/ k = ahead
      BY <1>2
    <2>4. \A k \in at' .. ahead' - 1 : src[k] # "nl"
      <3>1. \A k \in at .. ahead + 1 - 1 : src[k] # "nl"
        BY <1>1, <1>3, <2>3
      <3>2. at' = at /\ ahead' = ahead + 1
        BY <2>1
      <3> QED
        BY <1>2, <3>1, <3>2
    <2>5. InLine(s)'
      BY <1>1, <2>1, <2>2, <2>4 DEF InLine
    <2> QED
      BY <2>2, <2>5 DEF FirstScript, Where
  <1>4. CASE Ended \/ text[ahead] = "nl"
    <2>1. Emit(blank(at, ahead), ahead) /\ UNCHANGED tokenVars
      BY <1>1, <1>4 DEF LineComment
    <2>2. PICK n : n = Step(src, s)
      OBVIOUS
    <2>3. Good(src, n)
      BY <1>1, <1>2, <2>2, StepGood
    <2>4. PICK e \in LineEnd(src, at) : Took(src, s, e, n) /\ n.last = s.last /\ n.nest = s.nest
      BY <1>1, <1>2, <2>2, StepGoes
    <2>5. at < ahead
      <3>1. src[at] = "/"
        BY <1>1 DEF Line, Two
      <3>2. at # ahead
        <4>1. ~Ended => ahead <= Len(src)
          BY <1>1, <1>2 DEF Ended
        <4> QED
          BY <1>1, <1>2, <1>4, <3>1 DEF Ended
      <3> QED
        BY <1>2, <3>2
    <2>6. ahead <= Len(src) => src[ahead] = "nl"
      BY <1>1, <1>2, <1>4 DEF Ended
    <2>7. e = ahead - 1
      BY <1>1, <1>2, <2>5, <2>6, LineEndIs
    <2>8. e + 1 = ahead
      BY <1>2, <2>7
    <2>9. Emit(blank(at, e + 1), e + 1)
      BY <2>1, <2>8
    <2> QED
      BY <1>1, <2>1, <2>3, <2>4, <2>9, CommentEnds
  <1> QED
    BY <1>3, <1>4

LEMMA BlockOn ==
  ASSUME Kept, FirstRead, LitOK, Single, NEW s, Good(src, s), InBlock(s), BlockComment
  PROVE  FirstScript'
  <1>1. /\ mode = "block" /\ s.at = at /\ s.nest = 0 /\ Prev(s.last) /\ Block(src, s) /\ text = src
        /\ ahead >= at + 2 /\ \A k \in at + 2 .. ahead - 1 : ~Two(src, k, "*", "/")
    BY DEF InBlock, FirstRead
  <1>2. /\ src \in Seq(Symbols) /\ Len(src) \in Nat /\ Lexical(src) /\ at \in Nat \ {0} /\ ahead \in Nat \ {0}
        /\ at <= Len(src) /\ at + 2 <= ahead
    BY <1>1, Here DEF Kept, Progress
  <1>3. PICK n : n = Step(src, s)
    OBVIOUS
  <1>4. Good(src, n)
    BY <1>1, <1>2, <1>3, StepGood
  <1>5. PICK e \in BlockEnd(src, at) : Took(src, s, e, n) /\ n.last = s.last /\ n.nest = s.nest
    BY <1>1, <1>2, <1>3, StepGoes
  <1>6. ahead < e /\ e <= Len(src) /\ (Two(src, ahead, "*", "/") => e = ahead + 1)
    BY <1>1, <1>2, BlockEndIs
  <1>7. ~Ended
    <2>1. e \in Nat
      BY <1>1, <1>2, <1>5 DEF Took
    <2>2. ~(ahead > Len(src))
      BY <1>2, <1>6, <2>1
    <2> QED
      BY <1>1, <2>2 DEF Ended
  <1>8. Matches(text, ahead, <<"*", "/">>) <=> Two(src, ahead, "*", "/")
    BY <1>1, <1>2, TwoMatch
  <1>9. CASE Two(src, ahead, "*", "/")
    <2>1. Emit(blank(at, ahead + 2), ahead + 2) /\ UNCHANGED tokenVars
      BY <1>1, <1>7, <1>8, <1>9 DEF BlockComment
    <2>2. e + 1 = ahead + 2
      BY <1>2, <1>6, <1>9
    <2>3. Emit(blank(at, e + 1), e + 1)
      BY <2>1, <2>2
    <2> QED
      BY <1>1, <1>4, <1>5, <2>1, <2>3, CommentEnds
  <1>10. CASE ~Two(src, ahead, "*", "/")
    <2>1. UNCHANGED <<fixed, out, at, tokenVars>> /\ ahead' = ahead + 1 /\ mode' = "block"
      BY <1>1, <1>7, <1>8, <1>10 DEF BlockComment, Look
    <2>2. src' = src /\ LitOK' /\ Single' /\ Prev(s.last)'
      BY <1>1, <2>1, StaysBefore DEF fixed
    <2>3. ahead + 1 >= at + 2 /\ \A k \in at + 2 .. ahead + 1 - 1 : k \in at + 2 .. ahead - 1 \/ k = ahead
      BY <1>2
    <2>4. ahead' >= at' + 2 /\ \A k \in at' + 2 .. ahead' - 1 : ~Two(src, k, "*", "/")
      <3>1. \A k \in at + 2 .. ahead + 1 - 1 : ~Two(src, k, "*", "/")
        BY <1>1, <1>10, <2>3
      <3>2. at' = at /\ ahead' = ahead + 1
        BY <2>1
      <3> QED
        BY <1>2, <2>3, <3>1, <3>2
    <2>5. InBlock(s)'
      BY <1>1, <2>1, <2>2, <2>4 DEF InBlock
    <2> QED
      BY <2>2, <2>5 DEF FirstScript, Where
  <1> QED
    BY <1>9, <1>10

LEMMA StringOn ==
  ASSUME Kept, FirstRead, LitOK, Single, NEW s, Good(src, s), InString(s), consumeString
  PROVE  FirstScript'
  <1>1. /\ mode = "string" /\ s.at = at /\ s.nest = 0 /\ src[at] = "q" /\ text = src
        /\ quote.open = <<"q">> /\ quote.escape /\ ~quote.multiline /\ ahead > at /\ ~Escaped(src, at, ahead)
        /\ \A k \in at + 1 .. ahead - 1 : ~Bare(src, at, k, "q") /\ ~Bare(src, at, k, "nl")
    BY DEF InString, FirstRead
  <1>2. /\ src \in Seq(Symbols) /\ Len(src) \in Nat /\ Lexical(src) /\ at \in Nat \ {0} /\ ahead \in Nat \ {0}
        /\ at <= Len(src) /\ at < ahead
    BY <1>1, Here DEF Kept, Progress
  <1>3. PICK n : n = Step(src, s)
    OBVIOUS
  <1>4. Good(src, n)
    BY <1>1, <1>2, <1>3, StepGood
  <1>5. PICK e \in StringEnd(src, at) : Took(src, s, e, n) /\ n.last = "literal" /\ n.nest = s.nest
    BY <1>1, <1>2, <1>3, StepGoes
  <1>6. ahead <= e /\ e <= Len(src) /\ src[ahead] # "nl" /\ (src[ahead] = "q" => e = ahead)
    BY <1>1, <1>2, StringEndIs
  <1>7. ~Ended /\ ahead <= Len(src)
    <2>1. e \in Nat
      BY <1>1, <1>2, <1>5 DEF Took
    <2>2. ahead <= Len(src) /\ ~(ahead > Len(src))
      BY <1>2, <1>6, <2>1
    <2> QED
      BY <1>1, <2>2 DEF Ended
  <1>8. quote.escape /\ quote.open = <<"q">> /\ Len(quote.open) = 1 /\ ~StopsAtLine
    <2>1. Len(<<"q">>) = 1
      OBVIOUS
    <2> QED
      BY <1>1, <1>6, <2>1 DEF StopsAtLine
  <1>9. Matches(text, ahead, quote.open) <=> src[ahead] = "q"
    <2>1. Matches(src, ahead, <<"q">>) <=> src[ahead] = "q"
      BY <1>2, <1>7, TwoMatch
    <2> QED
      BY <1>1, <2>1
  <1>10. /\ \A c : Bare(src, at, ahead, c) <=> src[ahead] = c
         /\ src[ahead] # "esc" => ~Escaped(src, at, ahead + 1)
         /\ src[ahead] = "esc" => ~Escaped(src, at, ahead + 2) /\ \A c : ~Bare(src, at, ahead + 1, c)
    BY <1>1, <1>2, BareNext
  <1>11. CASE src[ahead] = "q"
    <2>1. Emit(blank(at, ahead + 1), ahead + 1) /\ Value
      BY <1>1, <1>7, <1>8, <1>9, <1>11 DEF consumeString
    <2>2. Emit(blank(at, e + 1), e + 1)
      BY <1>6, <1>11, <2>1
    <2>3. at <= s.at /\ \A k \in at .. s.at - 1 : FALSE
      BY <1>1, <1>2
    <2> QED
      BY <1>1, <1>4, <1>5, <2>1, <2>2, <2>3, ValueEnds
  <1>12. ASSUME NEW j \in Nat, ahead < j, ahead' = j, ~Escaped(src, at, j),
                UNCHANGED <<fixed, out, at, mode, quote, tokenVars>>,
                \A k \in ahead .. j - 1 : ~Bare(src, at, k, "q") /\ ~Bare(src, at, k, "nl")
         PROVE  FirstScript'
    <2>1. src' = src /\ LitOK' /\ Single' /\ at' = at /\ mode' = mode /\ quote' = quote
      BY <1>12, StaysBefore DEF fixed
    <2>2. j > at /\ \A k \in at + 1 .. j - 1 : k \in at + 1 .. ahead - 1 \/ k \in ahead .. j - 1
      BY <1>2, <1>12
    <2>3. \A k \in at + 1 .. j - 1 : ~Bare(src, at, k, "q") /\ ~Bare(src, at, k, "nl")
      BY <1>1, <1>12, <2>2
    <2>4. InString(s)'
      BY <1>1, <1>12, <2>1, <2>2, <2>3 DEF InString
    <2> QED
      BY <2>1, <2>4 DEF FirstScript, Where
  <1>13. CASE src[ahead] = "esc"
    <2>0. PICK j \in Nat : j = ahead + 2
      BY <1>2
    <2>1. ahead' = j /\ UNCHANGED <<fixed, out, at, mode, quote, tokenVars>>
      BY <2>0, <1>1, <1>7, <1>8, <1>13 DEF consumeString, Look, scanVars
    <2>2. \A k \in ahead .. j - 1 : k = ahead \/ k = ahead + 1
      BY <1>2, <2>0
    <2>3. \A k \in ahead .. j - 1 : ~Bare(src, at, k, "q") /\ ~Bare(src, at, k, "nl")
      BY <1>10, <1>13, <2>2
    <2>9. ~Escaped(src, at, j) /\ ahead < j
      BY <1>2, <1>10, <1>13, <2>0
    <2> QED
      BY <1>12, <2>1, <2>3, <2>9
  <1>14. CASE src[ahead] \notin {"q", "esc"}
    <2>0. PICK j \in Nat : j = ahead + 1
      BY <1>2
    <2>1. ahead' = j /\ UNCHANGED <<fixed, out, at, mode, quote, tokenVars>>
      BY <2>0, <1>1, <1>7, <1>8, <1>9, <1>14 DEF consumeString, Look, scanVars
    <2>2. \A k \in ahead .. j - 1 : k = ahead
      BY <1>2, <2>0
    <2>3. \A k \in ahead .. j - 1 : ~Bare(src, at, k, "q") /\ ~Bare(src, at, k, "nl")
      BY <1>6, <1>10, <1>14, <2>2
    <2>9. ~Escaped(src, at, j) /\ ahead < j
      BY <1>2, <1>10, <1>14, <2>0
    <2> QED
      BY <1>12, <2>1, <2>3, <2>9
  <1> QED
    BY <1>11, <1>13, <1>14

LEMMA RegexOn ==
  ASSUME Kept, FirstRead, LitOK, Single, NEW s, Good(src, s), InRegex(s), consumeRegex
  PROVE  FirstScript'
  <1>1. /\ mode = "regex" /\ s.at = at /\ s.nest = 0 /\ Regex(src, s) /\ text = src
        /\ ahead > at /\ ~Escaped(src, at, ahead) /\ (inClass <=> InBrackets(src, at, ahead))
        /\ \A k \in at + 1 .. ahead - 1 : Bare(src, at, k, "/") => InBrackets(src, at, k)
    BY DEF InRegex, FirstRead
  <1>2. /\ src \in Seq(Symbols) /\ Len(src) \in Nat /\ Lexical(src) /\ at \in Nat \ {0} /\ ahead \in Nat \ {0}
        /\ at <= Len(src) /\ at < ahead
    BY <1>1, Here DEF Kept, Progress
  <1>3. RegexClose(src, at) # {}
    <2>1. RegexEnd(src, at) # {}
      BY <1>1, <1>2, StepGoes
    <2> QED
      BY <2>1 DEF RegexEnd
  <1>4. ahead <= Len(src) /\ src[ahead] # "nl"
        /\ (src[ahead] = "/" /\ ~InBrackets(src, at, ahead) => ahead \in RegexClose(src, at))
    BY <1>1, <1>2, <1>3, RegexCloseIs
  <1>5. ~Ended
    BY <1>1, <1>2, <1>4 DEF Ended
  <1>6. /\ \A c : Bare(src, at, ahead, c) <=> src[ahead] = c
        /\ src[ahead] # "esc" => ~Escaped(src, at, ahead + 1)
        /\ src[ahead] = "esc" => ~Escaped(src, at, ahead + 2) /\ \A c : ~Bare(src, at, ahead + 1, c)
    BY <1>1, <1>2, BareNext
  <1>7. ahead + 1 \in Nat /\ at < ahead + 1 /\ (ahead + 1) + 1 = ahead + 2
    BY <1>2
  <1>8. /\ src[ahead] = "[" => InBrackets(src, at, ahead + 1)
        /\ src[ahead] = "]" => ~InBrackets(src, at, ahead + 1)
        /\ src[ahead] \notin {"[", "]"} => (InBrackets(src, at, ahead + 1) <=> InBrackets(src, at, ahead))
    BY <1>2, <1>6, InBracketsNext
  <1>9. src[ahead] = "esc" => (InBrackets(src, at, ahead + 2) <=> InBrackets(src, at, ahead))
    <2>1. src[ahead] = "esc" => (InBrackets(src, at, (ahead + 1) + 1) <=> InBrackets(src, at, ahead + 1))
      BY <1>2, <1>6, <1>7, InBracketsNext
    <2> QED
      BY <1>7, <1>8, <2>1
  <1>10. ASSUME NEW j \in Nat, ahead < j, ahead' = j, ~Escaped(src, at, j),
                UNCHANGED <<fixed, out, at, mode, tokenVars>>, inClass' <=> InBrackets(src, at, j),
                \A k \in ahead .. j - 1 : Bare(src, at, k, "/") => InBrackets(src, at, k)
         PROVE  FirstScript'
    <2>1. src' = src /\ LitOK' /\ Single' /\ at' = at /\ mode' = mode
      BY <1>10, StaysBefore DEF fixed
    <2>2. j > at /\ \A k \in at + 1 .. j - 1 : k \in at + 1 .. ahead - 1 \/ k \in ahead .. j - 1
      BY <1>2, <1>10
    <2>3. \A k \in at + 1 .. j - 1 : Bare(src, at, k, "/") => InBrackets(src, at, k)
      BY <1>1, <1>10, <2>2
    <2>4. InRegex(s)'
      BY <1>1, <1>10, <2>1, <2>2, <2>3 DEF InRegex
    <2> QED
      BY <2>1, <2>4 DEF FirstScript, Where
  <1>11. CASE src[ahead] = "esc"
    <2>0. PICK j \in Nat : j = ahead + 2
      BY <1>2
    <2>1. ahead' = j /\ UNCHANGED <<fixed, out, at, mode, tokenVars, inClass>>
      BY <2>0, <1>1, <1>4, <1>5, <1>11 DEF consumeRegex, Look, scanVars
    <2>2. \A k \in ahead .. j - 1 : k = ahead \/ k = ahead + 1
      BY <1>2, <2>0
    <2>3. \A k \in ahead .. j - 1 : Bare(src, at, k, "/") => InBrackets(src, at, k)
      BY <1>6, <1>11, <2>2
    <2>4. inClass' <=> InBrackets(src, at, j)
      BY <1>1, <1>9, <1>11, <2>0, <2>1
    <2>9. ~Escaped(src, at, j) /\ ahead < j
      BY <1>2, <1>6, <1>11, <2>0
    <2> QED
      BY <1>10, <2>1, <2>3, <2>9, <2>4
  <1>12. CASE src[ahead] = "/" /\ ~inClass
    <2>1. mode' = "flags" /\ ahead' = ahead + 1 /\ UNCHANGED <<fixed, out, at, tokenVars>>
      BY <1>1, <1>4, <1>5, <1>12 DEF consumeRegex
    <2>2. src' = src /\ LitOK' /\ Single' /\ at' = at
      BY <2>1, StaysBefore DEF fixed
    <2>3. ahead \in RegexClose(src, at)
      BY <1>1, <1>4, <1>12
    <2>4. ahead < ahead + 1 /\ \A k \in ahead + 1 .. ahead + 1 - 1 : FALSE
      BY <1>2
    <2>5. \E b \in RegexClose(src, at) : b < ahead' /\ \A k \in b + 1 .. ahead' - 1 : src[k] \in Words \ {"$"}
      BY <2>1, <2>3, <2>4
    <2>6. InFlags(s)'
      BY <1>1, <2>1, <2>2, <2>5 DEF InFlags
    <2> QED
      BY <2>2, <2>6 DEF FirstScript, Where
  <1>13. CASE src[ahead] # "esc" /\ ~(src[ahead] = "/" /\ ~inClass)
    <2>0. PICK j \in Nat : j = ahead + 1
      BY <1>2
    <2>1. ahead' = j /\ UNCHANGED <<fixed, out, at, mode, tokenVars>>
          /\ inClass' = IF src[ahead] = "[" THEN TRUE ELSE IF src[ahead] = "]" THEN FALSE ELSE inClass
      BY <2>0, <1>1, <1>4, <1>5, <1>13 DEF consumeRegex, Look
    <2>2. inClass' <=> InBrackets(src, at, j)
      BY <1>1, <1>8, <2>0, <2>1
    <2>3. \A k \in ahead .. j - 1 : k = ahead
      BY <1>2, <2>0
    <2>4. \A k \in ahead .. j - 1 : Bare(src, at, k, "/") => InBrackets(src, at, k)
      BY <1>1, <1>6, <1>13, <2>3
    <2>9. ~Escaped(src, at, j) /\ ahead < j
      BY <1>2, <1>6, <1>13, <2>0
    <2> QED
      BY <1>10, <2>1, <2>3, <2>9, <2>2, <2>4
  <1> QED
    BY <1>11, <1>12, <1>13

LEMMA FlagsOn ==
  ASSUME Kept, FirstRead, LitOK, Single, NEW s, Good(src, s), InFlags(s), regexFlags
  PROVE  FirstScript'
  <1>1. /\ mode = "flags" /\ s.at = at /\ s.nest = 0 /\ Regex(src, s) /\ text = src
    BY DEF InFlags, FirstRead
  <1>2. PICK b \in RegexClose(src, at) : b < ahead /\ \A k \in b + 1 .. ahead - 1 : src[k] \in Words \ {"$"}
    BY DEF InFlags
  <1>3. /\ src \in Seq(Symbols) /\ Len(src) \in Nat /\ Lexical(src) /\ at \in Nat \ {0} /\ ahead \in Nat \ {0}
        /\ at <= Len(src) /\ ahead <= Len(src) + 1
    BY <1>1, Here DEF Kept, Progress
  <1>4. PICK n : n = Step(src, s)
    OBVIOUS
  <1>5. Good(src, n)
    BY <1>1, <1>3, <1>4, StepGood
  <1>6. PICK e \in RegexEnd(src, at) : Took(src, s, e, n) /\ n.last = "literal" /\ n.nest = s.nest
    BY <1>1, <1>3, <1>4, StepGoes
  <1>7. b \in Nat
    <2>1. RegexClose(src, at) \subseteq at + 1 .. Len(src)
      BY <1>3, EndsInText
    <2> QED
      BY <1>3, <2>1
  <1>8. CASE ~Ended /\ src[ahead] \in Words \ {"$"}
    <2>1. ahead' = ahead + 1 /\ UNCHANGED <<fixed, out, at, mode, tokenVars>>
      BY <1>1, <1>8 DEF regexFlags, Look
    <2>2. src' = src /\ LitOK' /\ Single' /\ at' = at /\ mode' = mode
      BY <2>1, StaysBefore DEF fixed
    <2>0. PICK j \in Nat : j = ahead + 1
      BY <1>3
    <2>3. b < j /\ \A k \in b + 1 .. j - 1 : k \in b + 1 .. ahead - 1 \/ k = ahead
      BY <1>2, <1>3, <1>7, <2>0
    <2>4. \A k \in b + 1 .. j - 1 : src[k] \in Words \ {"$"}
      BY <1>2, <1>8, <2>3
    <2>5. InFlags(s)'
      BY <1>1, <2>0, <2>1, <2>2, <2>3, <2>4 DEF InFlags
    <2> QED
      BY <2>2, <2>5 DEF FirstScript, Where
  <1>9. CASE Ended \/ src[ahead] \notin Words \ {"$"}
    <2>1. Emit(blank(at, ahead), ahead) /\ Value
      BY <1>1, <1>9 DEF regexFlags
    <2>2. ahead <= Len(src) => src[ahead] \notin Words \ {"$"}
      BY <1>1, <1>3, <1>9 DEF Ended
    <2>3. e = ahead - 1
      BY <1>2, <1>3, <2>2, RegexEndIs
    <2>4. e + 1 = ahead
      BY <1>3, <2>3
    <2>5. Emit(blank(at, e + 1), e + 1)
      BY <2>1, <2>4
    <2>6. at <= s.at /\ \A k \in at .. s.at - 1 : FALSE
      BY <1>1, <1>3
    <2> QED
      BY <1>1, <1>5, <1>6, <2>1, <2>5, <2>6, ValueEnds
  <1> QED
    BY <1>8, <1>9

\* The template goes on to the reading n, in the code of a ${ }.
LEMMA IntoCode ==
  ASSUME Kept, FirstRead, LitOK, Single, NEW s, Good(src, s), InTemplate(s), NEW n, Good(src, n),
         NEW e \in s.at .. Len(src), n.at = e + 1, \A k \in s.at .. e : k \in InLiteral(src), n.nest > 0,
         UNCHANGED <<fixed, out, at, mode, tokenVars>>, ahead' = n.at, depth' = n.nest
  PROVE  FirstScript'
  <1>1. at \in Nat \ {0} /\ s.at \in Nat \ {0} /\ Len(src) \in Nat /\ n.at \in Nat
    BY Here
  <1>2. src' = src /\ LitOK' /\ Single' /\ at' = at /\ mode' = mode
    BY StaysBefore DEF fixed
  <1>3. mode = "template" /\ at <= s.at /\ \A k \in at .. s.at - 1 : k \in InLiteral(src)
    BY DEF InTemplate
  <1>4. at <= n.at /\ \A k \in at .. n.at - 1 : k \in at .. s.at - 1 \/ k \in s.at .. e
    BY <1>1, <1>3
  <1>5. \A k \in at .. n.at - 1 : k \in InLiteral(src)
    BY <1>3, <1>4
  <1>6. InTemplate(n)'
    BY <1>2, <1>3, <1>4, <1>5 DEF InTemplate
  <1>7. ~(n.at > n.at) /\ n.at <= n.at
    BY <1>1
  <1>8. InCode(n)'
    BY <1>6, <1>7 DEF InCode
  <1> QED
    BY <1>2, <1>8 DEF FirstScript, Where

LEMMA CharsOn ==
  ASSUME Kept, FirstRead, LitOK, Single, NEW s, Good(src, s), InChars(s), consumeTemplate
  PROVE  FirstScript'
  <1>1. /\ mode = "template" /\ text = src /\ InTemplate(s) /\ s.at <= Len(src) /\ Opens(src, s) /\ depth = Around(src, s)
        /\ at <= s.at /\ \A k \in at .. s.at - 1 : k \in InLiteral(src)
    BY DEF InChars, InTemplate, FirstRead
  <1>2. PICK a \in Nat \ {0} : a = s.at
    BY Here
  <1>3. /\ ahead > a /\ ~Escaped(src, a, ahead)
        /\ \A k \in a + 1 .. ahead - 1 : ~Bare(src, a, k, "tick")
        /\ \A k \in a + 1 .. ahead : ~Hole(src, a, k)
    BY <1>2 DEF InChars
  <1>4. /\ src \in Seq(Symbols) /\ Len(src) \in Nat /\ Lexical(src) /\ at \in Nat \ {0} /\ ahead \in Nat \ {0}
        /\ a < ahead
    BY <1>1, <1>2, <1>3, Here
  <1>5. PICK n : n = Step(src, s)
    OBVIOUS
  <1>6. Good(src, n) /\ ~Braced(src, s, n)
    BY <1>1, <1>4, <1>5, StepGood, NotMisread
  <1>7. PICK e \in TemplateEnd(src, a) :
          /\ Took(src, s, e, n)
          /\ src[e] = "tick" => n.last = "literal" /\ n.nest = Around(src, s)
          /\ src[e] # "tick" => n.last = "operator" /\ n.nest = Around(src, s) + 1
    BY <1>1, <1>2, <1>4, <1>5, StepGoes
  <1>8. e \in s.at .. Len(src) /\ e \in Nat /\ n.at = e + 1 /\ \A k \in s.at .. e : k \in InLiteral(src)
    BY <1>2, <1>4, <1>7 DEF Took
  <1>9. /\ ahead <= e /\ e <= Len(src) /\ (src[e] = "tick" \/ src[e] = "{")
        /\ src[ahead] = "tick" => e = ahead
        /\ src[ahead] # "tick" => ahead < e
        /\ src[ahead] = "$" /\ ahead < Len(src) /\ src[ahead + 1] = "{" => e = ahead + 1
    BY <1>3, <1>4, TemplateEndIs
  <1>10. ahead <= Len(src)
    <2>1. ahead <= e /\ e <= Len(src)
      BY <1>9
    <2> QED
      BY <1>4, <1>8, <2>1
  <1>11. ~Ended
    BY <1>1, <1>4, <1>10 DEF Ended
  <1>12. Matches(text, ahead, <<"$", "{">>) <=> Two(src, ahead, "$", "{")
    BY <1>1, <1>4, TwoMatch
  <1>13. /\ \A c : Bare(src, a, ahead, c) <=> src[ahead] = c
         /\ src[ahead] # "esc" => ~Escaped(src, a, ahead + 1)
         /\ src[ahead] = "esc" => ~Escaped(src, a, ahead + 2) /\ \A c : ~Bare(src, a, ahead + 1, c)
    BY <1>3, <1>4, BareNext
  <1>14. depth \in Nat /\ Around(src, s) \in Nat
    <2>1. s.nest \in Nat
      BY Here
    <2>2. src[s.at] # "tick" => s.nest > 0
      BY <1>1 DEF Opens
    <2>3. s.nest > 0 => s.nest - 1 \in Nat
      BY <2>1
    <2> QED
      BY <1>1, <2>1, <2>2, <2>3 DEF Around
  <1>15. ASSUME NEW j \in Nat, ahead < j, ahead' = j, depth' = depth, ~Escaped(src, a, j),
                UNCHANGED <<fixed, out, at, mode, tokenVars>>,
                \A k \in ahead .. j - 1 : ~Bare(src, a, k, "tick"), \A k \in ahead + 1 .. j : ~Hole(src, a, k)
         PROVE  FirstScript'
    <2>1. src' = src /\ LitOK' /\ Single' /\ at' = at /\ mode' = mode
      BY <1>15, StaysBefore DEF fixed
    <2>2. /\ j > a /\ \A k \in a + 1 .. j - 1 : k \in a + 1 .. ahead - 1 \/ k \in ahead .. j - 1
          /\ \A k \in a + 1 .. j : k \in a + 1 .. ahead \/ k \in ahead + 1 .. j
      BY <1>4, <1>15
    <2>3. \A k \in a + 1 .. j - 1 : ~Bare(src, a, k, "tick")
      BY <1>3, <1>15, <2>2
    <2>4. \A k \in a + 1 .. j : ~Hole(src, a, k)
      BY <1>3, <1>15, <2>2
    <2>5. InTemplate(s)'
      BY <1>1, <2>1 DEF InTemplate
    <2>6. InChars(s)'
      BY <1>1, <1>2, <1>15, <2>1, <2>2, <2>3, <2>4, <2>5 DEF InChars
    <2> QED
      BY <2>1, <2>6 DEF FirstScript, Where
  <1>16. CASE src[ahead] = "esc"
    <2>0. PICK j \in Nat : j = ahead + 2
      BY <1>4
    <2>1. ahead' = j /\ depth' = depth /\ UNCHANGED <<fixed, out, at, mode, tokenVars>>
      BY <1>1, <1>11, <1>16, <2>0 DEF consumeTemplate, Look, scanVars
    <2>2. /\ ahead < j /\ (\A k \in ahead .. j - 1 : k = ahead \/ k = ahead + 1)
          /\ \A k \in ahead + 1 .. j : k - 1 = ahead \/ k - 1 = ahead + 1
      BY <1>4, <2>0
    <2>3. \A k \in ahead .. j - 1 : ~Bare(src, a, k, "tick")
      BY <1>13, <1>16, <2>2
    <2>4. \A k \in ahead + 1 .. j : ~Bare(src, a, k - 1, "$")
      BY <1>13, <1>16, <2>2
    <2>5. ~Escaped(src, a, j)
      BY <1>13, <1>16, <2>0
    <2>6. \A k \in ahead + 1 .. j : ~Hole(src, a, k)
      BY <2>4 DEF Hole
    <2> QED
      BY <1>15, <2>1, <2>2, <2>3, <2>5, <2>6
  <1>17. CASE src[ahead] = "tick" /\ depth = 0
    <2>1. Emit(blank(at, ahead + 1), ahead + 1) /\ Value
      BY <1>1, <1>11, <1>17 DEF consumeTemplate
    <2>2. e = ahead /\ src[e] = "tick"
      BY <1>9, <1>17
    <2>3. n.last = "literal" /\ n.nest = 0
      BY <1>1, <1>7, <1>17, <2>2
    <2>4. Emit(blank(at, e + 1), e + 1)
      BY <2>1, <2>2
    <2> QED
      BY <1>1, <1>6, <1>7, <2>1, <2>3, <2>4, ValueEnds
  <1>18. CASE Two(src, ahead, "$", "{")
    <2>1. /\ ahead' = ahead + 2 /\ depth' = depth + 1 /\ UNCHANGED <<fixed, out, at, mode, tokenVars>>
          /\ src[ahead] = "$" /\ ahead < Len(src) /\ src[ahead + 1] = "{"
      BY <1>1, <1>11, <1>12, <1>18 DEF consumeTemplate, Look, Two
    <2>2. e = ahead + 1
      BY <1>9, <2>1
    <2>3. src[e] # "tick"
      BY <2>1, <2>2
    <2>4. n.nest = depth + 1 /\ n.nest > 0
      BY <1>1, <1>7, <1>14, <2>3
    <2>5. n.at = ahead + 2
      BY <1>4, <1>8, <2>2
    <2>6. ahead' = n.at /\ depth' = n.nest
      BY <2>1, <2>4, <2>5
    <2> QED
      BY <1>1, <1>6, <1>8, <2>1, <2>4, <2>6, IntoCode
  <1>19. CASE src[ahead] = "tick" /\ depth # 0
    <2>1. ahead' = ahead + 1 /\ depth' = depth /\ UNCHANGED <<fixed, out, at, mode, tokenVars>>
      BY <1>1, <1>11, <1>12, <1>19 DEF consumeTemplate, Look, Two
    <2>2. e = ahead /\ src[e] = "tick"
      BY <1>9, <1>19
    <2>3. n.nest = depth /\ n.nest > 0
      BY <1>1, <1>7, <1>14, <1>19, <2>2
    <2>4. ahead' = n.at /\ depth' = n.nest
      BY <1>8, <2>1, <2>2, <2>3
    <2> QED
      BY <1>1, <1>6, <1>8, <2>1, <2>3, <2>4, IntoCode
  <1>20. CASE src[ahead] = "}" /\ depth > 0
    <2>1. ahead < e /\ ahead \in s.at + 1 .. n.at - 1 /\ ahead < n.at - 1
      <3>1. src[ahead] # "tick"
        BY <1>20
      <3>2. ahead < e
        BY <1>9, <3>1
      <3> QED
        BY <1>2, <1>4, <1>8, <3>2
    <2>2. IF src[s.at] = "}" THEN s.nest > 1 ELSE s.nest > 0
      <3>1. s.nest \in Nat
        BY Here
      <3>2. CASE src[s.at] = "}"
        <4>1. s.nest - 1 > 0
          BY <1>1, <1>20, <3>2 DEF Around
        <4>2. s.nest > 1
          BY <3>1, <4>1
        <4> QED
          BY <3>2, <4>2
      <3>3. CASE src[s.at] # "}"
        <4>1. src[s.at] = "tick"
          BY <1>1, <3>3 DEF Opens
        <4>2. s.nest > 0
          BY <1>1, <1>20, <4>1 DEF Around
        <4> QED
          BY <3>3, <4>2
      <3> QED
        BY <3>2, <3>3
    <2> QED
      BY <1>6, <1>20, <2>1, <2>2 DEF Braced
  <1>21. CASE /\ src[ahead] \notin {"esc", "tick"} /\ ~Two(src, ahead, "$", "{")
              /\ ~(src[ahead] = "}" /\ depth > 0)
    <2>0. PICK j \in Nat : j = ahead + 1
      BY <1>4
    <2>1. ahead' = j /\ depth' = depth /\ UNCHANGED <<fixed, out, at, mode, tokenVars>>
      BY <1>1, <1>11, <1>12, <1>21, <2>0 DEF consumeTemplate, Look
    <2>2. /\ ahead < j /\ (\A k \in ahead .. j - 1 : k = ahead)
          /\ \A k \in ahead + 1 .. j : k = ahead + 1 /\ k - 1 = ahead
      BY <1>4, <2>0
    <2>3. \A k \in ahead .. j - 1 : ~Bare(src, a, k, "tick")
      BY <1>13, <1>21, <2>2
    <2>4. ~(src[ahead] = "$" /\ src[ahead + 1] = "{")
      <3>0. ahead < e /\ e <= Len(src)
        BY <1>9, <1>21
      <3>1. ahead < Len(src)
        BY <1>4, <1>8, <3>0
      <3> QED
        BY <1>21, <3>1 DEF Two
    <2>5. \A k \in ahead + 1 .. j : ~Hole(src, a, k)
      BY <1>13, <2>2, <2>4 DEF Hole
    <2>6. ~Escaped(src, a, j)
      BY <1>13, <1>21, <2>0
    <2> QED
      BY <1>15, <2>1, <2>2, <2>3, <2>5, <2>6
  <1> QED
    BY <1>16, <1>17, <1>18, <1>19, <1>20, <1>21

\* What a token that is not template characters ends with, and where its braces are.
Closes(t, s, e) ==
  /\ t[e] = "esc" /\ e < Len(t) => t[e + 1] = "nl"
  /\ t[e] = "$" /\ e < Len(t) => t[e + 1] = "nl" \/ t[s.at] \in Words
  /\ \A k \in s.at .. e : t[k] \in {"{", "}"} => k > s.at /\ (k < e \/ t[s.at] = "/")

LEMMA RegexLast ==
  ASSUME NEW t, Len(t) \in Nat, NEW a \in Nat, NEW e \in RegexEnd(t, a)
  PROVE  t[e] = "/" \/ t[e] \in Words \ {"$"}
  <1>1. PICK b \in RegexClose(t, a) :
          e \in IF b < Len(t) /\ t[b + 1] \in Words
                  THEN {x \in WordEnd(t, b + 1) : \A k \in b + 1 .. x : t[k] # "$"} ELSE {b}
    BY DEF RegexEnd
  <1>2. Bare(t, a, b, "/") /\ b \in a + 1 .. Len(t)
    BY DEF RegexClose, Least
  <1>3. CASE e = b
    BY <1>2, <1>3 DEF Bare
  <1>4. CASE e \in WordEnd(t, b + 1) /\ t[b + 1] \in Words /\ \A k \in b + 1 .. e : t[k] # "$"
    <2>1. b + 1 \in Nat
      BY <1>2
    <2>2. e \in b + 1 .. Len(t) /\ \A k \in b + 1 + 1 .. e : t[k] \in Words
      BY <1>4, <2>1, WordEndIs
    <2>3. e = b + 1 \/ e \in b + 1 + 1 .. e
      BY <2>1, <2>2
    <2>4. e \in b + 1 .. e
      BY <2>1, <2>2
    <2> QED
      BY <1>4, <2>2, <2>3, <2>4
  <1> QED
    BY <1>1, <1>3, <1>4

LEMMA TokenCloses ==
  ASSUME NEW t, Len(t) \in Nat, Lexical(t), NEW s, Good(t, s), s.at <= Len(t), NEW n, n = Step(t, s), ~Opens(t, s)
  PROVE  \E e \in s.at .. Len(t) : /\ n.at = e + 1 /\ n.nest = s.nest /\ Closes(t, s, e)
                                   /\ s.nest > 0 => \A k \in s.at .. e : k \in InLiteral(t)
  <1>1. PICK a \in Nat \ {0} : a = s.at
    BY StepGood DEF Sane, ReadingType
  <1>2. \A e : Left(t, s, e, n) \/ Took(t, s, e, n) =>
                 /\ e \in s.at .. Len(t) /\ n.at = e + 1
                 /\ s.nest > 0 => \A k \in s.at .. e : k \in InLiteral(t)
    BY DEF Left, Took
  <1>3. SUFFICES \E e : (Left(t, s, e, n) \/ Took(t, s, e, n)) /\ n.nest = s.nest /\ Closes(t, s, e)
    BY <1>2
  <1>4. CASE t[a] \in Blanks \/ Other(t, s)
    <2>1. Left(t, s, a, n) /\ n.nest = s.nest
      BY <1>1, <1>4, StepGoes
    <2>2. \A k \in a .. a : k = a
      BY <1>1
    <2>3. t[a] \notin {"{", "}", "esc", "$"}
      BY <1>1, <1>4 DEF Other, Absent, Blanks, Words
    <2> QED
      BY <1>1, <2>1, <2>2, <2>3 DEF Closes
  <1>5. CASE Line(t, s)
    <2>1. PICK e \in LineEnd(t, a) : Took(t, s, e, n) /\ n.nest = s.nest
      BY <1>1, <1>5, StepGoes
    <2>2. e \in Nat /\ (e < Len(t) => t[e + 1] = "nl")
      BY <1>1 DEF LineEnd, Least
    <2>3. t[a] = "/"
      BY <1>1, <1>5 DEF Line, Two
    <2>4. \A k \in a .. e : k = a \/ k > a
      BY <1>1, <2>2
    <2> QED
      BY <1>1, <2>1, <2>2, <2>3, <2>4 DEF Closes
  <1>6. CASE Block(t, s)
    <2>1. PICK e \in BlockEnd(t, a) : Took(t, s, e, n) /\ n.nest = s.nest
      BY <1>1, <1>6, StepGoes
    <2>2. e \in Nat /\ t[e] = "/"
      BY <1>1 DEF BlockEnd, Least
    <2>3. t[a] = "/"
      BY <1>1, <1>6 DEF Block, Two
    <2>4. \A k \in a .. e : k = a \/ k > a
      BY <1>1, <2>2
    <2> QED
      BY <1>1, <2>1, <2>2, <2>3, <2>4 DEF Closes
  <1>7. CASE t[a] \in Words
    <2>1. PICK e \in WordEnd(t, a) : Left(t, s, e, n) /\ n.nest = s.nest
      BY <1>1, <1>7, StepGoes
    <2>2. e \in a .. Len(t) /\ \A k \in a + 1 .. e : t[k] \in Words
      BY <1>1, WordEndIs
    <2>3. e \in a .. e /\ \A k \in a .. e : k = a \/ k \in a + 1 .. e
      BY <1>1, <2>2
    <2>4. \A k \in a .. e : t[k] \in Words
      BY <1>7, <2>2, <2>3
    <2>5. t[e] # "esc" /\ \A k \in a .. e : t[k] \notin {"{", "}"}
      BY <2>3, <2>4 DEF Words
    <2> QED
      BY <1>1, <1>7, <2>1, <2>5 DEF Closes
  <1>8. CASE t[a] = "q"
    <2>1. PICK e \in StringEnd(t, a) : Took(t, s, e, n) /\ n.nest = s.nest
      BY <1>1, <1>8, StepGoes
    <2>2. e \in a + 1 .. Len(t) /\ t[e] = "q"
      BY <1>8 DEF StringEnd, Least, Bare
    <2>3. \A k \in a .. e : k = a \/ k = e \/ (k > a /\ k < e)
      BY <1>1, <2>2
    <2> QED
      BY <1>1, <1>8, <2>1, <2>2, <2>3 DEF Closes
  <1>9. CASE Regex(t, s)
    <2>1. PICK e \in RegexEnd(t, a) : Took(t, s, e, n) /\ n.nest = s.nest
      BY <1>1, <1>9, StepGoes
    <2>2. e \in Nat /\ t[e] \notin {"esc", "$"}
      <3>1. e \in a + 1 .. Len(t)
        BY <1>1, EndsInText
      <3> QED
        BY <1>1, <3>1, RegexLast DEF Words
    <2>3. t[a] = "/"
      BY <1>1, <1>9 DEF Regex, Slash
    <2>4. \A k \in a .. e : k = a \/ k > a
      BY <1>1, <2>2
    <2> QED
      BY <1>1, <2>1, <2>2, <2>3, <2>4 DEF Closes
  <1>10. CASE Increment(t, s)
    <2>1. Left(t, s, a + 1, n) /\ n.nest = s.nest
      BY <1>1, <1>10, StepGoes
    <2>2. \A k \in a .. a + 1 : k = a \/ k = a + 1
      BY <1>1
    <2>3. t[a] = "+" /\ t[a + 1] = "+"
      BY <1>1, <1>10 DEF Increment, Two
    <2>4. \A k \in a .. a + 1 : t[k] \notin {"{", "}"}
      BY <2>2, <2>3
    <2> QED
      BY <1>1, <2>1, <2>3, <2>4 DEF Closes
  <1> QED
    BY <1>1, <1>4, <1>5, <1>6, <1>7, <1>8, <1>9, <1>10, AllTokens, StepGoes

\* The scan of a template begins with the token of s, or goes on in it.
LEMMA CodeOpensOn ==
  ASSUME Kept, FirstRead, LitOK, Single, NEW s, Good(src, s), InCode(s), ahead = s.at, Opens(src, s), consumeTemplate
  PROVE  FirstScript'
  <1>1. /\ mode = "template" /\ text = src /\ InTemplate(s) /\ depth = s.nest /\ s.nest > 0
        /\ at <= s.at /\ \A k \in at .. s.at - 1 : k \in InLiteral(src)
    BY DEF InCode, InTemplate, FirstRead
  <1>2. /\ src \in Seq(Symbols) /\ Len(src) \in Nat /\ Lexical(src) /\ at \in Nat \ {0} /\ ahead \in Nat \ {0}
        /\ s.nest \in Nat /\ s.at <= Len(src)
    BY <1>1, Here
  <1>3. ~Ended
    BY <1>1, <1>2 DEF Ended
  <1>4. src[ahead] \in {"tick", "}"} /\ depth # 0
    <2>1. src[s.at] \in {"tick", "}"}
      BY DEF Opens
    <2>2. depth \in Nat /\ depth > 0
      BY <1>1, <1>2
    <2>3. depth # 0
      BY <2>2
    <2> QED
      BY <2>1, <2>3
  <1>5. ~Matches(text, ahead, <<"$", "{">>)
    <2>1. ~Two(src, ahead, "$", "{")
      BY <1>4 DEF Two
    <2> QED
      BY <1>1, <1>2, <2>1, TwoMatch
  <1>6. PICK j \in Nat : j = ahead + 1
    BY <1>2
  <1>7. /\ ahead' = j /\ depth' = IF src[ahead] = "}" THEN depth - 1 ELSE depth
        /\ UNCHANGED <<fixed, out, at, mode, tokenVars>>
    BY <1>1, <1>3, <1>4, <1>5, <1>6 DEF consumeTemplate, Look
  <1>8. src' = src /\ LitOK' /\ Single' /\ at' = at /\ mode' = mode
    BY <1>7, StaysBefore DEF fixed
  <1>9. depth' = Around(src, s)
    BY <1>1, <1>4, <1>7 DEF Around
  <1>10. /\ j > s.at /\ (\A k \in s.at + 1 .. j - 1 : FALSE)
         /\ \A k \in s.at + 1 .. j : ~(k - 1 > s.at)
    BY <1>2, <1>6
  <1>11. ~Escaped(src, s.at, j)
    BY <1>2, <1>6, EscapedFirst
  <1>12. \A k \in s.at + 1 .. j : ~Hole(src, s.at, k)
    BY <1>10 DEF Hole
  <1>13. InTemplate(s)'
    BY <1>1, <1>8 DEF InTemplate
  <1>14. InChars(s)'
    BY <1>2, <1>7, <1>8, <1>9, <1>10, <1>11, <1>12, <1>13 DEF InChars
  <1> QED
    BY <1>8, <1>14 DEF FirstScript, Where

LEMMA CodeOn ==
  ASSUME Kept, FirstRead, LitOK, Single, NEW s, Good(src, s), InCode(s), ~Opens(src, s), consumeTemplate
  PROVE  FirstScript'
  <1>1. /\ mode = "template" /\ text = src /\ InTemplate(s) /\ depth = s.nest /\ s.nest > 0 /\ s.at <= ahead
        /\ at <= s.at /\ \A k \in at .. s.at - 1 : k \in InLiteral(src)
    BY DEF InCode, InTemplate, FirstRead
  <1>2. /\ src \in Seq(Symbols) /\ Len(src) \in Nat /\ Lexical(src) /\ at \in Nat \ {0} /\ ahead \in Nat \ {0}
        /\ s.nest \in Nat /\ s.at \in Nat \ {0} /\ s.at <= Len(src)
    BY <1>1, Here
  <1>3. PICK n : n = Step(src, s)
    OBVIOUS
  <1>4. Good(src, n) /\ ~Braced(src, s, n)
    BY <1>2, <1>3, StepGood, NotMisread
  <1>5. PICK e \in s.at .. Len(src) : /\ n.at = e + 1 /\ n.nest = s.nest /\ Closes(src, s, e)
                                      /\ \A k \in s.at .. e : k \in InLiteral(src)
    BY <1>1, <1>2, <1>3, TokenCloses
  <1>6. n.at <= Len(src) /\ n.nest > 0 /\ n.at \in Nat
    BY <1>1, <1>4, <1>5, Here
  <1>7. e < Len(src) /\ e \in Nat
    BY <1>2, <1>5, <1>6
  <1>8. ahead <= e
    <2>1. ahead > s.at => ahead < n.at
      BY <1>3 DEF InCode
    <2> QED
      BY <1>1, <1>2, <1>5, <1>7, <2>1
  <1>9. ~Ended /\ ahead \in s.at .. e /\ ahead < Len(src)
    BY <1>1, <1>2, <1>7, <1>8 DEF Ended
  <1>10. depth # 0
    BY <1>1, <1>2
  <1>11. Matches(text, ahead, <<"$", "{">>) <=> src[ahead] = "$" /\ src[ahead + 1] = "{"
    <2>1. Matches(src, ahead, <<"$", "{">>) <=> Two(src, ahead, "$", "{")
      BY <1>2, TwoMatch
    <2> QED
      BY <1>1, <1>9, <2>1 DEF Two
  <1>12. ASSUME NEW k \in s.at .. e, src[k] \in {"{", "}"} PROVE FALSE
    <2>1. k > s.at /\ (k < e \/ src[s.at] = "/")
      BY <1>5, <1>12 DEF Closes
    <2>2. src[s.at] # "}"
      BY <1>1 DEF Opens
    <2>3. k \in s.at + 1 .. n.at - 1 /\ (k < n.at - 1 \/ src[s.at] = "/")
      BY <1>2, <1>5, <1>7, <2>1
    <2> QED
      BY <1>1, <1>4, <1>12, <2>2, <2>3 DEF Braced
  <1>21. ahead < e => ahead + 1 \in s.at .. e
    BY <1>2, <1>7, <1>8, <1>9
  <1>22. ahead < e \/ ahead = e
    BY <1>2, <1>7, <1>8
  <1>13. ~(src[ahead] = "$" /\ src[ahead + 1] = "{")
    <2> SUFFICES ASSUME src[ahead] = "$", src[ahead + 1] = "{" PROVE FALSE
      OBVIOUS
    <2>1. CASE ahead < e
      <3>1. ahead + 1 \in s.at .. e
        BY <1>21, <2>1
      <3> QED
        BY <1>12, <3>1
    <2>2. CASE ahead = e
      <3>1. src[n.at] = "{"
        BY <1>5, <2>2
      <3>2. Unread(src, n)
        BY <3>1 DEF Unread, Opens, Absent
      <3> QED
        BY <1>2, <1>4, <1>6, <3>2, StepGoes
    <2> QED
      BY <1>22, <2>1, <2>2
  <1>14. src[ahead] # "}"
    BY <1>9, <1>12
  <1>15. ASSUME NEW j \in Nat, ahead < j, j <= n.at, ahead' = j, depth' = depth,
                UNCHANGED <<fixed, out, at, mode, tokenVars>>
         PROVE  FirstScript'
    <2>1. CASE j = n.at
      <3>1. ahead' = n.at /\ depth' = n.nest
        BY <1>1, <1>5, <1>15, <2>1
      <3> QED
        BY <1>1, <1>4, <1>5, <1>6, <1>15, <3>1, IntoCode
    <2>2. CASE j # n.at
      <3>1. src' = src /\ LitOK' /\ Single' /\ at' = at /\ mode' = mode
        BY <1>15, StaysBefore DEF fixed
      <3>2. s.at <= j /\ j < n.at
        BY <1>1, <1>2, <1>6, <1>15, <2>2
      <3>3. InTemplate(s)'
        BY <1>1, <3>1 DEF InTemplate
      <3>4. InCode(s)'
        BY <1>1, <1>3, <1>15, <3>1, <3>2, <3>3 DEF InCode
      <3> QED
        BY <3>1, <3>4 DEF FirstScript, Where
    <2> QED
      BY <2>1, <2>2
  <1>16. CASE src[ahead] = "esc" /\ ahead < e
    <2>0. PICK j \in Nat : j = ahead + 2
      BY <1>2
    <2>1. ahead' = j /\ depth' = depth /\ UNCHANGED <<fixed, out, at, mode, tokenVars>>
      BY <1>1, <1>9, <1>16, <2>0 DEF consumeTemplate, Look, scanVars
    <2>2. ahead < j /\ j <= n.at
      BY <1>2, <1>5, <1>7, <1>16, <2>0
    <2> QED
      BY <1>15, <2>1, <2>2
  <1>17. CASE src[ahead] = "esc" /\ ahead = e
    <2>1. ahead' = ahead + 2 /\ depth' = depth /\ UNCHANGED <<fixed, out, at, mode, tokenVars>>
      BY <1>1, <1>9, <1>17 DEF consumeTemplate, Look, scanVars
    <2>2. src[n.at] \in Blanks
      BY <1>5, <1>7, <1>17 DEF Closes, Blanks
    <2>3. PICK m : m = Step(src, n)
      OBVIOUS
    <2>4. Good(src, m) /\ Left(src, n, n.at, m) /\ m.nest = n.nest
      BY <1>2, <1>4, <1>6, <2>2, <2>3, StepGood, StepGoes
    <2>5. m.at = e + 1 + 1 /\ e + 1 \in InLiteral(src)
      BY <1>5, <1>6, <1>7, <2>4 DEF Left
    <2>6. PICK i \in Nat : i = e + 1
      BY <1>7
    <2>7. i \in s.at .. Len(src) /\ m.at = i + 1 /\ \A k \in s.at .. i : k \in s.at .. e \/ k = i
      BY <1>2, <1>5, <1>6, <1>7, <2>5, <2>6
    <2>8. \A k \in s.at .. i : k \in InLiteral(src)
      BY <1>5, <2>5, <2>6, <2>7
    <2>9. ahead' = m.at /\ depth' = m.nest /\ m.nest > 0
      BY <1>1, <1>5, <1>7, <1>17, <2>1, <2>4, <2>5
    <2> QED
      BY <1>1, <2>1, <2>4, <2>7, <2>8, <2>9, IntoCode
  <1>18. CASE src[ahead] # "esc"
    <2>0. PICK j \in Nat : j = ahead + 1
      BY <1>2
    <2>1. ahead' = j /\ depth' = depth /\ UNCHANGED <<fixed, out, at, mode, tokenVars>>
      BY <1>1, <1>9, <1>10, <1>11, <1>13, <1>14, <1>18, <2>0 DEF consumeTemplate, Look
    <2>2. ahead < j /\ j <= n.at
      BY <1>2, <1>5, <1>7, <1>8, <2>0
    <2> QED
      BY <1>15, <2>1, <2>2
  <1> QED
    BY <1>2, <1>7, <1>8, <1>16, <1>17, <1>18

\* The loop of the mode is the one that steps.
LEMMA ModeActs ==
  ASSUME Next
  PROVE  /\ mode = "code" => \/ Space \/ OpenComment \/ OpenName \/ OpenString \/ OpenTemplate \/ OpenRegex
                             \/ Divide \/ Ordinary \/ Again
         /\ mode = "line" => LineComment
         /\ mode = "block" => BlockComment
         /\ mode = "name" => Name
         /\ mode = "string" => consumeString
         /\ mode = "template" => consumeTemplate
         /\ mode = "regex" => consumeRegex
         /\ mode = "flags" => regexFlags
  BY DEF Next, Scanning, Space, OpenComment, OpenName, OpenString, OpenTemplate, OpenRegex, Divide, Ordinary, Again,
         LineComment, BlockComment, Name, consumeString, consumeTemplate, consumeRegex, regexFlags

LEMMA AtTokenOn ==
  ASSUME Kept, FirstRead, LitOK, Single, NEW s, Good(src, s), AtToken(s), Next, at <= Len(src)
  PROVE  FirstScript'
  <1>1. mode = "code" /\ s.at = at /\ s.nest = 0 /\ text = src /\ Len(src) \in Nat /\ Lexical(src)
        /\ src \in Seq(Symbols)
    BY Here DEF AtToken, FirstRead
  <1>2. ~Again /\ ~OpenName
    <2>1. ~(at > Len(src))
      BY <1>1, Here
    <2>2. ~NameHit(at)
      BY ScriptOpens
    <2> QED
      BY <1>1, <2>1, <2>2 DEF Again, OpenName
  <1>3. CASE Space
    BY <1>3, SpaceOn
  <1>4. CASE OpenComment \/ OpenString \/ OpenTemplate \/ OpenRegex
    BY <1>4, OpenOn
  <1>5. CASE Divide
    BY <1>5, DivideOn
  <1>6. CASE Ordinary
    <2>1. src[at] \notin Blanks /\ ~Literal(at) /\ ~SlashHit(at)
      BY <1>1, <1>6 DEF Ordinary
    <2>2. /\ ~Two(src, at, "/", "/") /\ ~Two(src, at, "/", "*") /\ src[at] \notin {"tick", "q", "/"}
      BY <2>1, ScriptOpens DEF Literal
    <2>3. ~Line(src, s) /\ ~Block(src, s) /\ ~Opens(src, s) /\ ~Regex(src, s) /\ ~Unread(src, s)
      <3>1. ~Unread(src, s)
        BY <1>1, StepGoes
      <3>2. ~Opens(src, s)
        <4>1. ~(s.nest > 0)
          BY <1>1
        <4> QED
          BY <1>1, <2>2, <4>1 DEF Opens
      <3> QED
        BY <1>1, <2>2, <3>1, <3>2 DEF Line, Block, Regex, Slash
    <2>4. src[at] \in Words \/ Increment(src, s) \/ Other(src, s)
      BY <1>1, <2>1, <2>2, <2>3, AllTokens
    <2> QED
      BY <1>6, <2>4, WordOn, PlusOn, OtherOn
  <1> QED
    BY <1>1, <1>2, <1>3, <1>4, <1>5, <1>6, ModeActs

\* Within a word or x++ only the next symbol of it can come.
LEMMA InsideOn ==
  ASSUME Kept, FirstRead, LitOK, Single, NEW s, Good(src, s), InWord(s) \/ InPlus(s), Next
  PROVE  FirstScript'
  <1>1. mode = "code" /\ text = src /\ at <= Len(src) /\ src[at] \in Words \cup {"+"}
    <2>1. s.at \in Nat /\ at \in Nat /\ Len(src) \in Nat /\ text = src
      BY Here DEF FirstRead
    <2>2. CASE InWord(s)
      <3>1. at \in s.at .. at
        BY <2>1, <2>2 DEF InWord
      <3> QED
        BY <2>1, <2>2, <3>1 DEF InWord
    <2>3. CASE InPlus(s)
      <3>1. at = s.at + 1 /\ mode = "code" /\ Two(src, s.at, "+", "+")
        BY <2>3 DEF InPlus, Increment
      <3>2. src[s.at + 1] = "+" /\ s.at < Len(src)
        BY <3>1 DEF Two
      <3>3. at <= Len(src)
        BY <2>1, <3>1, <3>2
      <3> QED
        BY <2>1, <3>1, <3>2, <3>3
    <2> QED
      BY <2>2, <2>3
  <1>2. src[at] \notin {" ", "nl", "/", "#", "tick", "q", "dq", "*"}
    BY <1>1 DEF Words
  <1>3. ~Two(src, at, "/", "/") /\ ~Two(src, at, "/", "*")
    BY <1>2 DEF Two
  <1>4. ~LineHit(at) /\ ~BlockHit(at) /\ ~TemplateHit(at) /\ ~SlashHit(at) /\ ~NameHit(at) /\ StringHit(at) = {}
    <2>1. \A q \in StringHit(at) : FALSE
      BY <1>1, <1>2, ScriptOpens
    <2> QED
      BY <1>1, <1>2, <1>3, <2>1, ScriptOpens
  <1>5. /\ ~Space /\ ~OpenComment /\ ~OpenName /\ ~OpenString /\ ~OpenTemplate /\ ~OpenRegex /\ ~Divide
    BY <1>1, <1>2, <1>4 DEF Space, OpenComment, OpenName, OpenString, OpenTemplate, OpenRegex, Divide, Blanks
  <1>6. ~Again
    <2>1. ~(at > Len(src))
      BY <1>1, Here
    <2> QED
      BY <1>1, <2>1 DEF Again
  <1>7. Ordinary
    BY <1>1, <1>5, <1>6, ModeActs
  <1> QED
    BY <1>7, InWordOn, InPlusOn

LEMMA FirstScriptStep ==
  ASSUME Kept, FirstRead, FirstScript, Next, ~Masked
  PROVE  FirstScript'
  <1>1. PICK s : Good(src, s) /\ Where(s)
    BY DEF FirstScript
  <1>2. LitOK /\ Single /\ text = src
    BY DEF FirstScript, FirstRead
  <1>3. CASE AtToken(s)
    <2>1. at <= Len(src)
      <3>1. ~(at > Len(src))
        BY <1>2, <1>3 DEF Masked, AtToken
      <3> QED
        BY <1>1, <3>1, Here
    <2> QED
      BY <1>1, <1>2, <1>3, <2>1, AtTokenOn
  <1>4. CASE InWord(s) \/ InPlus(s)
    BY <1>1, <1>2, <1>4, InsideOn
  <1>5. CASE InLine(s)
    BY <1>1, <1>2, <1>5, LineOn, ModeActs DEF InLine
  <1>6. CASE InBlock(s)
    BY <1>1, <1>2, <1>6, BlockOn, ModeActs DEF InBlock
  <1>7. CASE InString(s)
    BY <1>1, <1>2, <1>7, StringOn, ModeActs DEF InString
  <1>8. CASE InRegex(s)
    BY <1>1, <1>2, <1>8, RegexOn, ModeActs DEF InRegex
  <1>9. CASE InFlags(s)
    BY <1>1, <1>2, <1>9, FlagsOn, ModeActs DEF InFlags
  <1>10. CASE InChars(s)
    BY <1>1, <1>2, <1>10, CharsOn, ModeActs DEF InChars, InTemplate
  <1>11. CASE InCode(s)
    <2>1. consumeTemplate
      BY <1>11, ModeActs DEF InCode, InTemplate
    <2>2. CASE Opens(src, s)
      <3>1. ~(ahead > s.at) /\ s.at <= ahead
        BY <1>11, <2>2 DEF InCode
      <3>2. ahead = s.at
        BY <1>1, <3>1, Here
      <3> QED
        BY <1>1, <1>2, <1>11, <2>1, <2>2, <3>2, CodeOpensOn
    <2>3. CASE ~Opens(src, s)
      BY <1>1, <1>2, <1>11, <2>1, <2>3, CodeOn
    <2> QED
      BY <2>2, <2>3
  <1> QED
    BY <1>1, <1>3, <1>4, <1>5, <1>6, <1>7, <1>8, <1>9, <1>10, <1>11 DEF Where

LEMMA FirstScriptInit ==
  ASSUME Init, ScriptRead, Reading(src).shapes \cap Misread = {}
  PROVE  FirstRead /\ FirstScript
  <1>1. /\ pass = 1 /\ text = src /\ out = <<>> /\ at = 1 /\ ahead = 1 /\ mode = "code"
        /\ prevSig = "none" /\ prevWord = "none"
    BY DEF Init
  <1>2. Good(src, Start)
    BY GoodStart
  <1>3. Start.at = 1 /\ Start.last = "none" /\ Start.nest = 0
    BY DEF Start
  <1>4. ~Pair => FALSE
    BY <1>1 DEF Pair
  <1>5. Prev(Start.last)
    BY <1>1, <1>3 DEF Prev
  <1>6. LitOK /\ Single
    BY <1>1 DEF LitOK, Single
  <1> QED
    BY <1>1, <1>2, <1>3, <1>4, <1>5, <1>6 DEF FirstScript, Where, AtToken, FirstRead

(***************************************************************************)
(* The second scan, of the mask of a script none of whose literals is      *)
(* divided.  It meets no literal, and keeps every symbol.                  *)
(***************************************************************************)
SecondRead ==
  /\ ScriptRead /\ pass = 2 /\ Reading(src).shapes = {} /\ Len(text) = Len(src)
  /\ \A k \in 1 .. Len(src) : IF k \in InLiteral(src) THEN text[k] \in Blanks ELSE text[k] = src[k]
Same == \A k \in 1 .. at - 1 : out[k] = text[k]

\* What prevSig and prevWord still say of the token before: a literal leaves none.
Known(last) ==
  /\ last = "word" => prevSig \in Words /\ prevWord = "other" /\ Ender
  /\ last = "operand" => prevSig \in {")", "]"} /\ Ender
  /\ last = "postfix" => postfixIncDec
Stays(s) == s.nest = 0 => Known(s.last)
\* In what was a literal.
InBlank(s) ==
  \E n : /\ n = Step(src, s) /\ Stays(n) /\ s.at < at /\ at < n.at
         /\ \A k \in s.at .. n.at - 1 : k \in InLiteral(src)
SecondAt(s) == (s.at = at /\ Stays(s)) \/ InBlank(s) \/ InWord(s) \/ InPlus(s)
SecondScript == mode = "code" /\ (\E s : Good(src, s) /\ SecondAt(s)) /\ Same /\ Single

LEMMA MaskHere ==
  ASSUME Kept, SecondRead, NEW s, Good(src, s)
  PROVE  /\ src \in Seq(Symbols) /\ Len(src) \in Nat /\ Lexical(src) /\ Len(text) = Len(src) /\ lang = "script"
         /\ Sane(src, s) /\ s.at \in Nat \ {0} /\ s.nest \in Nat /\ s.at <= Len(src) + 1
         /\ at \in Nat \ {0} /\ at <= Len(src) + 1 /\ Len(out) = at - 1
         /\ s.at > Len(src) => s.nest = 0
  <1>1. src \in Seq(Symbols) /\ Len(src) \in Nat /\ Lexical(src) /\ Len(text) = Len(src) /\ lang = "script"
    BY DEF SecondRead, ScriptRead
  <1>2. Sane(src, s) /\ (s.at > Len(src) => s.nest = 0)
    BY <1>1, GoodFacts
  <1>3. s.at \in Nat \ {0} /\ s.nest \in Nat /\ s.at <= Len(src) + 1
    BY <1>2 DEF Sane, ReadingType
  <1>4. at \in Nat \ {0} /\ at <= Len(src) + 1 /\ Len(out) = at - 1
    BY <1>1 DEF Kept, Progress
  <1> QED
    BY <1>1, <1>2, <1>3, <1>4

\* A token that begins in a literal is all in it; behind it a literal is the last, or
\* what was before.
LEMMA LiteralToken ==
  ASSUME NEW t, Len(t) \in Nat, Lexical(t), NEW s, Good(t, s), s.at <= Len(t), NEW n, n = Step(t, s),
         s.at \in InLiteral(t)
  PROVE  /\ \A k \in s.at .. n.at - 1 : k \in InLiteral(t)
         /\ n.nest = 0 => n.last = "literal" \/ (s.nest = 0 /\ n.last = s.last)
         /\ n.at \in Nat /\ s.at < n.at
  <1>1. PICK a \in Nat \ {0} : a = s.at
    BY StepGood DEF Sane, ReadingType
  <1>2. PICK d \in Nat : d = s.nest
    BY StepGood DEF Sane, ReadingType
  <1>3. (d > 0 \/ d = 0) /\ ~(d > 0 /\ d = 0) /\ (d > 0 => d - 1 \in Nat) /\ \A i \in Nat : i + 1 # 0
    OBVIOUS
  <1>4. n.at \in Nat /\ s.at < n.at
    BY StepGood DEF Sane, ReadingType
  <1>5. ASSUME NEW e, Took(t, s, e, n) PROVE \A k \in s.at .. n.at - 1 : k \in InLiteral(t)
    <2>1. e \in a .. Len(t) /\ n.at = e + 1 /\ \A k \in a .. e : k \in InLiteral(t)
      BY <1>1, <1>5 DEF Took
    <2>2. n.at - 1 = e
      BY <2>1
    <2> QED
      BY <1>1, <2>1, <2>2
  <1>6. ASSUME NEW e, Left(t, s, e, n)
        PROVE  s.nest > 0 /\ \A k \in s.at .. n.at - 1 : k \in InLiteral(t)
    <2>1. e \in a .. Len(t) /\ n.at = e + 1 /\ (d = 0 => \A k \in a .. e : k \notin InLiteral(t))
      BY <1>1, <1>2, <1>6 DEF Left
    <2>2. n.at - 1 = e /\ a \in a .. e
      BY <2>1
    <2>3. d > 0
      BY <1>1, <1>3, <2>1, <2>2
    <2>4. \A k \in a .. e : k \in InLiteral(t)
      BY <1>1, <1>2, <1>6, <2>3 DEF Left
    <2> QED
      BY <1>1, <1>2, <2>2, <2>3, <2>4
  <1>7. CASE t[s.at] \in Blanks \/ t[s.at] \in Words \/ Increment(t, s) \/ Other(t, s)
    <2>1. (\E e : Left(t, s, e, n)) /\ n.nest = s.nest
      BY <1>7, StepGoes
    <2>2. s.nest > 0 /\ \A k \in s.at .. n.at - 1 : k \in InLiteral(t)
      BY <1>6, <2>1
    <2>3. n.nest # 0
      BY <1>2, <1>3, <2>1, <2>2
    <2> QED
      BY <1>4, <2>2, <2>3
  <1>8. CASE Line(t, s) \/ Block(t, s)
    <2>1. (\E e : Took(t, s, e, n)) /\ n.last = s.last /\ n.nest = s.nest
      BY <1>8, StepGoes
    <2> QED
      BY <1>4, <1>5, <2>1
  <1>9. CASE t[s.at] = "q" \/ Regex(t, s)
    <2>1. (\E e : Took(t, s, e, n)) /\ n.last = "literal"
      BY <1>9, StepGoes
    <2> QED
      BY <1>4, <1>5, <2>1
  <1>10. CASE Opens(t, s)
    <2>1. PICK e : /\ Took(t, s, e, n)
                   /\ t[e] = "tick" => n.last = "literal"
                   /\ t[e] # "tick" => n.nest = Around(t, s) + 1
      BY <1>10, StepGoes
    <2>2. Around(t, s) \in Nat
      BY <1>2, <1>3, <1>10 DEF Opens, Around
    <2>3. Around(t, s) + 1 # 0
      BY <2>2
    <2> QED
      BY <1>4, <1>5, <2>1, <2>3
  <1> QED
    BY <1>7, <1>8, <1>9, <1>10, AllTokens, StepGoes

\* A token that does not is one of code.
LEMMA CodeToken ==
  ASSUME NEW t, Len(t) \in Nat, Lexical(t), NEW s, Good(t, s), s.at <= Len(t), s.at \notin InLiteral(t)
  PROVE  /\ s.nest = 0 /\ ~Two(t, s.at, "/", "/") /\ ~Two(t, s.at, "/", "*")
         /\ t[s.at] \notin {"#", "q", "dq", "tick"}
         /\ t[s.at] \in Blanks \/ t[s.at] \in Words \/ Increment(t, s) \/ Other(t, s)
  <1>1. PICK n : n = Step(t, s)
    OBVIOUS
  <1>2. PICK a \in Nat \ {0} : a = s.at
    BY <1>1, StepGood DEF Sane, ReadingType
  <1>3. ~\E e : Took(t, s, e, n)
    <2> SUFFICES ASSUME NEW e, Took(t, s, e, n) PROVE FALSE
      OBVIOUS
    <2>1. e \in a .. Len(t) /\ a .. e \subseteq InLiteral(t)
      BY <1>2 DEF Took
    <2>2. a \in a .. e
      BY <2>1
    <2> QED
      BY <1>2, <2>1, <2>2
  <1>4. ~Line(t, s) /\ ~Block(t, s) /\ t[s.at] # "q" /\ ~Opens(t, s) /\ ~Regex(t, s) /\ ~Unread(t, s)
    BY <1>1, <1>3, StepGoes
  <1>5. t[s.at] \in Blanks \/ t[s.at] \in Words \/ Increment(t, s) \/ Other(t, s)
    BY <1>4, AllTokens
  <1>6. s.nest = 0
    <2>1. PICK e : Left(t, s, e, n)
      BY <1>1, <1>5, StepGoes
    <2>2. e \in a .. Len(t) /\ (s.nest > 0 => a .. e \subseteq InLiteral(t))
      BY <1>2, <2>1 DEF Left
    <2>3. a \in a .. e
      BY <2>2
    <2>4. ~(s.nest > 0) /\ s.nest \in Nat
      BY <1>1, <1>2, <2>2, <2>3, StepGood DEF Sane, ReadingType
    <2> QED
      BY <2>4
  <1>7. t[s.at] \notin Absent
    BY <1>4 DEF Unread, Opens
  <1> QED
    BY <1>4, <1>5, <1>6, <1>7 DEF Line, Block, Opens, Absent

LEMMA MaskSymbol ==
  ASSUME SecondRead, NEW k \in 1 .. Len(src)
  PROVE  /\ k \in InLiteral(src) => text[k] \in Blanks
         /\ k \notin InLiteral(src) => text[k] = src[k]
         /\ text[k] \notin Blanks => k \notin InLiteral(src) /\ text[k] = src[k]
  BY DEF SecondRead

\* What opens in a mask opens in its text.
LEMMA MaskOpens ==
  ASSUME Kept, SecondRead, NEW s, Good(src, s), at <= Len(src)
  PROVE  /\ LineHit(at) => Two(src, at, "/", "/") \/ text[at] = "#"
         /\ BlockHit(at) => Two(src, at, "/", "*")
         /\ TemplateHit(at) => text[at] = "tick"
         /\ SlashHit(at) => text[at] = "/"
         /\ text[at] = "/" => SlashHit(at) \/ Two(src, at, "/", "/") \/ Two(src, at, "/", "*")
         /\ ~NameHit(at)
         /\ \A q \in StringHit(at) : text[at] \in {"q", "dq"}
  <1>0. /\ lang = "script" /\ text \in Seq(Symbols) /\ at \in Nat \ {0} /\ 1 \in Nat \ {0} /\ Len(text) = Len(src)
        /\ Len(src) \in Nat
    BY MaskHere DEF Kept, Progress
  <1>1. Shebang(at) => text[at] = "#"
    <2>1. Matches(text, 1, <<"#", "!">>) <=> Two(text, 1, "#", "!")
      BY <1>0, TwoMatch
    <2> QED
      BY <2>1 DEF Shebang, Two
  <1>2. ASSUME NEW c \in {"/", "*"}, Two(text, at, "/", c) PROVE Two(src, at, "/", c)
    <2>1. at < Len(src) /\ text[at] = "/" /\ text[at + 1] = c /\ at \in 1 .. Len(src)
      BY <1>0, <1>2 DEF Two
    <2>2. at + 1 \in 1 .. Len(src)
      BY <1>0, <2>1
    <2>3. "/" \notin Blanks /\ c \notin Blanks
      BY DEF Blanks
    <2>4. src[at] = "/" /\ src[at + 1] = c
      BY <2>1, <2>2, <2>3, MaskSymbol
    <2> QED
      BY <2>1, <2>4 DEF Two
  <1>3. Matches(text, at, LineOpen) => Two(src, at, "/", "/")
    BY <1>0, <1>2, TwoMatch DEF LineOpen
  <1>4. BlockHit(at) => Two(src, at, "/", "*")
    BY <1>0, <1>2, TwoMatch DEF BlockHit, BlockOpen
  <1>5. (TemplateHit(at) => text[at] = "tick") /\ ~NameHit(at)
    BY <1>0 DEF TemplateHit, NameHit
  <1>6. SlashHit(at) <=> text[at] = "/" /\ ~LineHit(at) /\ ~BlockHit(at)
    BY <1>0 DEF SlashHit
  <1>7. Strings = {Quote(<<"q">>, TRUE, FALSE), Quote(<<"dq">>, TRUE, FALSE)}
    BY <1>0 DEF Strings, Short
  <1>8. Quote(<<"q">>, TRUE, FALSE).open = <<"q">> /\ Quote(<<"dq">>, TRUE, FALSE).open = <<"dq">>
    BY DEF Quote
  <1>9. /\ Matches(text, at, <<"q">>) <=> text[at] = "q"
        /\ Matches(text, at, <<"dq">>) <=> text[at] = "dq"
    BY <1>0, TwoMatch
  <1>10. \A q \in StringHit(at) : text[at] \in {"q", "dq"}
    BY <1>7, <1>8, <1>9 DEF StringHit
  <1>11. text[at] = "/" /\ LineHit(at) => Two(src, at, "/", "/")
    BY <1>1, <1>3 DEF LineHit
  <1> QED
    BY <1>1, <1>3, <1>4, <1>5, <1>6, <1>10, <1>11 DEF LineHit

LEMMA SecondOut ==
  ASSUME Kept, SecondRead, Same, NEW s, Good(src, s), at <= Len(src), NEW c, c = text[at], Emit(<<c>>, at + 1)
  PROVE  /\ SecondRead' /\ src' = src /\ mode' = "code" /\ at' = at + 1 /\ Len(out') = at /\ Kept' /\ Same'
         /\ \A k \in 1 .. at - 1 : out'[k] = out[k]
         /\ out'[at] = c
         /\ isExprEnder(c) => Ender'
  <1>1. at \in Nat \ {0} /\ Len(text) = Len(src) /\ Len(src) \in Nat
    BY MaskHere
  <1>2. /\ Kept' /\ UNCHANGED fixed /\ mode' = "code" /\ at' = at + 1 /\ Len(out') = at
        /\ \A k \in 1 .. at - 1 : out'[k] = out[k]
        /\ out'[at] = c
    BY <1>1, SymbolOut
  <1>3. SecondRead' /\ src' = src /\ text' = text
    BY <1>2 DEF fixed, SecondRead, ScriptRead
  <1>4. Same'
    <2> SUFFICES ASSUME NEW k \in 1 .. at' - 1 PROVE out'[k] = text[k]
      BY <1>3 DEF Same
    <2>1. k \in 1 .. at - 1 \/ k = at
      BY <1>1, <1>2
    <2> QED
      BY <1>2, <2>1 DEF Same
  <1>5. ASSUME isExprEnder(c) PROVE Ender'
    <2>1. at \in 1 .. Len(out') /\ \A m \in 1 .. Len(out') : ~(m > at)
      BY <1>1, <1>2
    <2>2. isExprEnder(out'[at])
      BY <1>2, <1>5
    <2> QED
      BY <2>1, <2>2, <1>2 DEF Ender, isExprEnder
  <1> QED
    BY <1>2, <1>3, <1>4, <1>5

\* A blank changes nothing about the token before it.
LEMMA KnownBehind ==
  ASSUME Kept, Kept', at' = at + 1, \A k \in 1 .. at - 1 : out'[k] = out[k], out'[at] \in Blanks,
         UNCHANGED tokenVars, NEW last, Known(last)
  PROVE  Known(last)'
  <1>1. PICK n \in Nat : n = at - 1 /\ n = Len(out)
    BY DEF Kept, Progress
  <1>2. PICK n2 \in Nat : n2 = at /\ n2 = Len(out')
    BY DEF Kept, Progress
  <1>0. at \in Nat \ {0}
    BY DEF Kept, Progress
  <1>3. n <= n2 /\ \A k \in n + 1 .. n2 : k = at
    BY <1>0, <1>1, <1>2
  <1>4. prevSig' = prevSig /\ prevWord' = prevWord
    BY DEF tokenVars
  <1>5. (postfixIncDec' <=> postfixIncDec) /\ (Ender => Ender')
    BY <1>1, <1>2, <1>3, <1>4, BlanksAfter DEF Kept, Progress
  <1> QED
    BY <1>4, <1>5 DEF Known

\* Within a word or x++ the symbol is of the token, and the mask holds it.
LEMMA InsideSymbol ==
  ASSUME Kept, SecondRead, NEW s, Good(src, s), InWord(s) \/ InPlus(s)
  PROVE  /\ at <= Len(src) /\ at \notin InLiteral(src) /\ text[at] = src[at]
         /\ text[at] \notin Blanks
         /\ InWord(s) => src[at] \in Words
         /\ InPlus(s) => src[at] = "+"
  <1>1. /\ Len(src) \in Nat /\ Lexical(src) /\ at \in Nat \ {0} /\ s.at \in Nat \ {0}
    BY MaskHere
  <1>2. PICK n : n = Step(src, s)
    OBVIOUS
  <1>3. ASSUME at <= Len(src), at \notin InLiteral(src), src[at] \notin Blanks
        PROVE  text[at] = src[at] /\ text[at] \notin Blanks
    <2>1. at \in 1 .. Len(src)
      BY <1>1, <1>3
    <2> QED
      BY <1>3, <2>1, MaskSymbol
  <1>4. CASE InWord(s)
    <2>1. s.nest = 0 /\ s.at < at /\ at <= Len(src) /\ \A k \in s.at .. at : src[k] \in Words
      BY <1>4 DEF InWord
    <2>2. s.at <= Len(src) /\ s.at \in s.at .. at /\ at \in s.at .. at
      BY <1>1, <2>1
    <2>3. PICK e \in WordEnd(src, s.at) : Left(src, s, e, n)
      BY <1>1, <1>2, <2>1, <2>2, StepGoes
    <2>4. /\ e \in s.at .. Len(src)
          /\ e < Len(src) => src[e + 1] \notin Words
      BY <1>1, <2>2, <2>3, WordEndIs
    <2>5. e >= at
      <3> SUFFICES ASSUME e < at PROVE FALSE
        BY <1>1, <2>4
      <3>1. e + 1 \in s.at .. at /\ e < Len(src)
        BY <1>1, <2>1, <2>4
      <3> QED
        BY <2>1, <2>4, <3>1
    <2>6. at \in s.at .. e
      BY <1>1, <2>1, <2>4, <2>5
    <2>7. at \notin InLiteral(src)
      BY <2>1, <2>3, <2>6 DEF Left
    <2>8. src[at] \in Words /\ src[at] \notin Blanks /\ src[at] # "+"
      BY <2>1, <2>2 DEF Words, Blanks
    <2>9. ~InPlus(s)
      <3>1. InPlus(s) => src[at] = "+"
        BY DEF InPlus, Increment, Two
      <3> QED
        BY <2>8, <3>1
    <2> QED
      BY <1>3, <2>1, <2>7, <2>8, <2>9
  <1>5. CASE InPlus(s)
    <2>1. s.nest = 0 /\ at = s.at + 1 /\ Increment(src, s) /\ s.at < Len(src) /\ src[s.at + 1] = "+"
      BY <1>5 DEF InPlus, Increment, Two
    <2>2. at <= Len(src) /\ s.at <= Len(src) /\ at \in s.at .. s.at + 1
      BY <1>1, <2>1
    <2>3. Left(src, s, s.at + 1, n)
      BY <1>1, <1>2, <2>1, <2>2, StepGoes
    <2>4. at \notin InLiteral(src)
      BY <2>1, <2>2, <2>3 DEF Left
    <2>5. src[at] = "+" /\ src[at] \notin Blanks /\ src[at] \notin Words
      BY <2>1 DEF Words, Blanks
    <2>6. ~InWord(s)
      <3>1. at \in s.at .. at
        BY <1>1, <2>1
      <3> QED
        BY <2>5, <3>1 DEF InWord
    <2> QED
      BY <1>3, <2>2, <2>4, <2>5, <2>6
  <1> QED
    BY <1>4, <1>5

LEMMA SecondSpace ==
  ASSUME Kept, SecondRead, SecondScript, Space
  PROVE  SecondScript' /\ SecondRead'
  <1>1. /\ at <= Len(src) /\ text[at] \in Blanks /\ Emit(<<text[at]>>, at + 1) /\ UNCHANGED tokenVars
        /\ mode = "code" /\ Same /\ Single
    BY DEF Space, Scanning, SecondRead, SecondScript
  <1>2. PICK s : Good(src, s) /\ SecondAt(s)
    BY DEF SecondScript
  <1>3. /\ Len(src) \in Nat /\ Lexical(src) /\ at \in Nat \ {0} /\ s.at \in Nat \ {0} /\ s.nest \in Nat
    BY <1>2, MaskHere
  <1>4. PICK c : c = text[at]
    OBVIOUS
  <1>5. /\ SecondRead' /\ src' = src /\ mode' = "code" /\ at' = at + 1 /\ Kept' /\ Same'
        /\ \A k \in 1 .. at - 1 : out'[k] = out[k]
        /\ out'[at] \in Blanks
    BY <1>1, <1>2, <1>4, SecondOut
  <1>6. Single'
    BY <1>1 DEF Single, tokenVars
  <1>7. \A last : Known(last) => Known(last)'
    BY <1>1, <1>5, KnownBehind
  <1>8. ASSUME NEW m, Good(src, m), m.at = at, Stays(m) PROVE SecondScript'
    <2>1. PICK n : n = Step(src, m)
      OBVIOUS
    <2>2. Good(src, n) /\ n.at \in Nat /\ m.at < n.at
      BY <1>1, <1>3, <1>8, <2>1, StepGood DEF Sane, ReadingType
    <2>3. CASE at \in InLiteral(src)
      <3>1. /\ \A k \in m.at .. n.at - 1 : k \in InLiteral(src)
            /\ n.nest = 0 => n.last = "literal" \/ (m.nest = 0 /\ n.last = m.last)
        BY <1>1, <1>3, <1>8, <2>1, <2>3, LiteralToken
      <3>2. Stays(n)'
        <4> SUFFICES ASSUME n.nest = 0 PROVE Known(n.last)'
          BY DEF Stays
        <4>1. CASE n.last = "literal"
          BY <4>1 DEF Known
        <4>2. CASE m.nest = 0 /\ n.last = m.last
          BY <1>7, <1>8, <4>2 DEF Stays
        <4> QED
          BY <3>1, <4>1, <4>2
      <3>3. n.at = at + 1 \/ at + 1 < n.at
        BY <1>3, <1>8, <2>2
      <3>4. CASE n.at = at + 1
        <4>1. SecondAt(n)'
          BY <1>5, <3>2, <3>4 DEF SecondAt
        <4> QED
          BY <1>5, <1>6, <2>2, <4>1 DEF SecondScript
      <3>5. CASE at + 1 < n.at
        <4>0. m.at < at + 1
          BY <1>3, <1>8
        <4>1. InBlank(m)'
          BY <1>5, <2>1, <3>1, <3>2, <3>5, <4>0 DEF InBlank
        <4> QED
          BY <1>5, <1>6, <1>8, <4>1 DEF SecondScript, SecondAt
      <3> QED
        BY <3>3, <3>4, <3>5
    <2>4. CASE at \notin InLiteral(src)
      <3>1. src[at] \in Blanks /\ m.nest = 0
        <4>1. at \in 1 .. Len(src)
          BY <1>1, <1>3
        <4> QED
          BY <1>1, <1>3, <1>8, <2>4, <4>1, MaskSymbol, CodeToken
      <3>2. Left(src, m, m.at, n) /\ n.last = m.last /\ n.nest = m.nest
        BY <1>1, <1>3, <1>8, <2>1, <3>1, StepGoes
      <3>3. n.at = at + 1
        BY <1>8, <3>2 DEF Left
      <3>4. Stays(n)'
        BY <1>7, <1>8, <3>1, <3>2 DEF Stays
      <3>5. SecondAt(n)'
        BY <1>5, <3>3, <3>4 DEF SecondAt
      <3> QED
        BY <1>5, <1>6, <2>2, <3>5 DEF SecondScript
    <2> QED
      BY <2>3, <2>4
  <1>9. CASE InBlank(s)
    <2>1. PICK n : /\ n = Step(src, s) /\ Stays(n) /\ s.at < at /\ at < n.at
                   /\ \A k \in s.at .. n.at - 1 : k \in InLiteral(src)
      BY <1>9 DEF InBlank
    <2>2. Good(src, n) /\ n.at \in Nat
      BY <1>1, <1>2, <1>3, <2>1, GoodStep, MaskHere
    <2>3. Stays(n)'
      BY <1>7, <2>1 DEF Stays
    <2>4. n.at = at + 1 \/ at + 1 < n.at
      BY <1>3, <2>1, <2>2
    <2>5. CASE n.at = at + 1
      <3>1. SecondAt(n)'
        BY <1>5, <2>3, <2>5 DEF SecondAt
      <3> QED
        BY <1>5, <1>6, <2>2, <3>1 DEF SecondScript
    <2>6. CASE at + 1 < n.at
      <3>0. s.at < at + 1
        BY <1>3, <2>1
      <3>1. InBlank(s)'
        BY <1>5, <2>1, <2>3, <2>6, <3>0 DEF InBlank
      <3> QED
        BY <1>2, <1>5, <1>6, <3>1 DEF SecondScript, SecondAt
    <2> QED
      BY <2>4, <2>5, <2>6
  <1>10. ASSUME InWord(s) \/ InPlus(s) PROVE FALSE
    BY <1>1, <1>2, <1>10, InsideSymbol
  <1> QED
    BY <1>2, <1>5, <1>8, <1>9, <1>10 DEF SecondAt

\* None of the shapes that matter to the mask is met.
LEMMA MaskShapes ==
  ASSUME SecondRead, NEW s, Good(src, s), s.at <= Len(src), NEW n, n = Step(src, s)
  PROVE  ~Property(src, s, n) /\ ~Divided(src, s, n)
  <1>1. n.shapes = s.shapes \cup Shapes(src, s, n) /\ n.shapes \subseteq Reading(src).shapes
    BY StepGood DEF SecondRead, ScriptRead
  <1>2. Shapes(src, s, n) = {}
    BY <1>1 DEF SecondRead
  <1> QED
    BY <1>2 DEF Shapes

\* The symbols of code, at a token of the text.
LEMMA SecondCode ==
  ASSUME Kept, SecondRead, SecondScript, at <= Len(src), text[at] \notin Blanks
  PROVE  /\ at \notin InLiteral(src) /\ text[at] = src[at] /\ at \in Nat \ {0} /\ Len(src) \in Nat /\ Lexical(src)
         /\ ~Literal(at)
         /\ \E s : /\ Good(src, s)
                   /\ \/ InWord(s) \/ InPlus(s)
                      \/ /\ s.at = at /\ s.nest = 0 /\ Known(s.last)
                         /\ src[at] \in Words \/ Increment(src, s) \/ Other(src, s)
  <1>1. PICK s : Good(src, s) /\ SecondAt(s)
    BY DEF SecondScript
  <1>2. /\ Len(src) \in Nat /\ Lexical(src) /\ at \in Nat \ {0} /\ s.at \in Nat \ {0}
    BY <1>1, MaskHere
  <1>3. at \in 1 .. Len(src)
    BY <1>2
  <1>4. at \notin InLiteral(src) /\ text[at] = src[at]
    BY <1>3, MaskSymbol
  <1>5. ~InBlank(s)
    <2> SUFFICES ASSUME InBlank(s) PROVE FALSE
      OBVIOUS
    <2>1. PICK n : n = Step(src, s) /\ s.at < at /\ at < n.at /\ \A k \in s.at .. n.at - 1 : k \in InLiteral(src)
      BY DEF InBlank
    <2>2. n.at \in Nat
      BY <1>1, <2>1, GoodStep, MaskHere
    <2>3. at \in s.at .. n.at - 1
      BY <1>2, <2>1, <2>2
    <2> QED
      BY <1>4, <2>1, <2>3
  <1>6. ASSUME ~Two(src, at, "/", "/"), ~Two(src, at, "/", "*"), src[at] \notin {"#", "q", "dq", "tick"}
        PROVE  ~Literal(at)
    <2>1. ~LineHit(at) /\ ~BlockHit(at) /\ ~TemplateHit(at) /\ ~NameHit(at)
      BY <1>1, <1>4, <1>6, MaskOpens
    <2>2. \A q \in StringHit(at) : FALSE
      BY <1>1, <1>4, <1>6, MaskOpens
    <2> QED
      BY <2>1, <2>2 DEF Literal
  <1>7. CASE s.at = at /\ Stays(s)
    <2>1. /\ s.nest = 0 /\ ~Two(src, at, "/", "/") /\ ~Two(src, at, "/", "*")
          /\ src[at] \notin {"#", "q", "dq", "tick"}
          /\ src[at] \in Words \/ Increment(src, s) \/ Other(src, s)
      BY <1>1, <1>2, <1>4, <1>7, CodeToken
    <2>2. Known(s.last)
      BY <1>7, <2>1 DEF Stays
    <2> QED
      BY <1>1, <1>2, <1>4, <1>6, <1>7, <2>1, <2>2
  <1>8. CASE InWord(s) \/ InPlus(s)
    <2>1. src[at] \in Words \cup {"+"}
      BY <1>1, <1>8, InsideSymbol
    <2>2. src[at] \notin {"#", "q", "dq", "tick", "/"}
      BY <2>1 DEF Words
    <2> QED
      BY <1>1, <1>2, <1>4, <1>6, <1>8, <2>2 DEF Two
  <1> QED
    BY <1>1, <1>5, <1>7, <1>8 DEF SecondAt

LEMMA SecondOrdinary ==
  ASSUME Kept, SecondRead, SecondScript, Ordinary
  PROVE  SecondScript' /\ SecondRead'
  <1>1. /\ at <= Len(src) /\ text[at] \notin Blanks /\ ~SlashHit(at) /\ Emit(<<text[at]>>, at + 1) /\ prevSig' = text[at]
        /\ prevWord' = IF ~isWordChar(text[at]) THEN "none"
                       ELSE IF prevWord # "none" /\ isWordChar(prevSig) THEN "other"
                       ELSE IF text[at] = "return" THEN "keyword" ELSE "other"
        /\ mode = "code" /\ Same /\ Single
    BY DEF Ordinary, Scanning, SecondRead, SecondScript
  <1>2. PICK c : c = src[at]
    OBVIOUS
  <1>3. /\ c = text[at] /\ at \notin InLiteral(src) /\ at \in Nat \ {0} /\ Len(src) \in Nat /\ Lexical(src)
    BY <1>1, <1>2, SecondCode
  <1>4. PICK s : /\ Good(src, s)
                 /\ \/ InWord(s) \/ InPlus(s)
                    \/ /\ s.at = at /\ s.nest = 0 /\ Known(s.last)
                       /\ src[at] \in Words \/ Increment(src, s) \/ Other(src, s)
    BY <1>1, SecondCode
  <1>5. /\ SecondRead' /\ src' = src /\ mode' = "code" /\ at' = at + 1 /\ Len(out') = at /\ Kept' /\ Same'
        /\ \A k \in 1 .. at - 1 : out'[k] = out[k]
        /\ out'[at] = c
        /\ isExprEnder(c) => Ender'
    BY <1>1, <1>3, <1>4, SecondOut
  <1>6. /\ prevSig' = c
        /\ prevWord' = IF c \notin Words THEN "none"
                       ELSE IF prevWord # "none" /\ isWordChar(prevSig) THEN "other"
                       ELSE IF c = "return" THEN "keyword" ELSE "other"
    BY <1>1, <1>3 DEF isWordChar
  <1>7. Single'
    BY <1>6 DEF Single
  <1>8. s.at \in Nat \ {0} /\ Len(out) = at - 1
    BY <1>4, MaskHere
  <1>9. PICK n : n = Step(src, s)
    OBVIOUS
  <1>10. ASSUME NEW m, Good(src, m), SecondAt(m)' PROVE SecondScript' /\ SecondRead'
    BY <1>5, <1>7, <1>10 DEF SecondScript
  <1>11. CASE s.at = at /\ s.nest = 0 /\ Known(s.last) /\ src[at] \in Words
    <2>1. Good(src, n)
      BY <1>1, <1>3, <1>4, <1>9, <1>11, StepGood
    <2>2. PICK e \in WordEnd(src, at) : Left(src, s, e, n) /\ n.last = WordLast(src, s) /\ n.nest = s.nest
      BY <1>1, <1>3, <1>4, <1>9, <1>11, StepGoes
    <2>3. /\ e \in at .. Len(src)
          /\ \A k \in at + 1 .. e : src[k] \in Words
          /\ at \in WordEnd(src, at) => e = at
          /\ n.at = e + 1
      BY <1>3, <1>11, <2>2, WordEndIs DEF Left
    <2>4. prevSig' \in Words /\ prevWord' # "none" /\ Ender'
      BY <1>2, <1>5, <1>6, <1>11 DEF isExprEnder
    <2>5. CASE e = at
      <3>1. ASSUME n.last = "word" PROVE prevWord' = "other"
        <4>1. src[at] # "return" \/ s.last = "period"
          BY <1>11, <2>2, <2>5, <3>1 DEF WordLast
        <4>2. ~Property(src, s, n)
          BY <1>1, <1>4, <1>9, <1>11, MaskShapes
        <4>3. src[at] # "return"
          BY <1>11, <2>3, <2>5, <4>1, <4>2 DEF Property
        <4> QED
          BY <1>2, <1>6, <1>11, <4>3
      <3>2. n.last \in {"word", "keyword"}
        BY <2>2 DEF WordLast
      <3>3. Known(n.last)'
        BY <2>4, <3>1, <3>2 DEF Known
      <3>4. n.at = at + 1
        BY <2>3, <2>5
      <3>5. SecondAt(n)'
        BY <1>5, <3>3, <3>4 DEF SecondAt, Stays
      <3> QED
        BY <1>10, <2>1, <3>5
    <2>6. CASE e # at
      <3>1. at + 1 <= Len(src) /\ at < at + 1 /\ \A k \in at .. at + 1 : k = at \/ k \in at + 1 .. e
        BY <1>3, <2>3, <2>6
      <3>2. \A k \in at .. at + 1 : src[k] \in Words
        BY <1>11, <2>3, <3>1
      <3>3. InWord(s)'
        BY <1>5, <1>11, <2>4, <3>1, <3>2 DEF InWord
      <3> QED
        BY <1>4, <1>10, <3>3 DEF SecondAt
    <2> QED
      BY <2>5, <2>6
  <1>12. CASE s.at = at /\ s.nest = 0 /\ Known(s.last) /\ Increment(src, s)
    <2>1. c = "+" /\ out'[s.at] = "+" /\ prevSig' = "+"
      BY <1>2, <1>5, <1>6, <1>12 DEF Increment, Two
    <2>2. ASSUME s.last \in {"word", "operand"}
          PROVE  \E j \in 1 .. s.at - 1 : isExprEnder(out'[j]) /\ \A m \in j + 1 .. s.at - 1 : out'[m] \in Blanks
      <3>1. Ender
        BY <1>12, <2>2 DEF Known
      <3>2. PICK j \in 1 .. at - 1 : isExprEnder(out[j]) /\ \A m \in 1 .. at - 1 : m > j => out[m] \in Blanks
        BY <1>8, <3>1 DEF Ender
      <3>3. \A m \in j + 1 .. at - 1 : m \in 1 .. at - 1 /\ m > j
        BY <1>3
      <3>4. isExprEnder(out'[j]) /\ \A m \in j + 1 .. at - 1 : out'[m] \in Blanks
        BY <1>5, <3>2, <3>3
      <3> QED
        BY <1>12, <3>4
    <2>3. InPlus(s)'
      BY <1>5, <1>12, <2>1, <2>2 DEF InPlus, isExprEnder
    <2> QED
      BY <1>4, <1>10, <2>3 DEF SecondAt
  <1>13. CASE s.at = at /\ s.nest = 0 /\ Known(s.last) /\ Other(src, s)
    <2>1. Good(src, n) /\ Left(src, s, s.at, n) /\ n.last = PlainLast(src, s) /\ n.nest = s.nest
      BY <1>1, <1>3, <1>4, <1>9, <1>13, StepGood, StepGoes
    <2>2. n.at = at + 1
      BY <1>13, <2>1 DEF Left
    <2>3. n.last = IF c \in {")", "]"} THEN "operand" ELSE IF c = "." THEN "period" ELSE "operator"
      BY <1>2, <1>13, <2>1 DEF PlainLast
    <2>4. Known(n.last)'
      BY <1>5, <1>6, <2>3 DEF Known, isExprEnder
    <2>5. SecondAt(n)'
      BY <1>5, <2>2, <2>4 DEF SecondAt, Stays
    <2> QED
      BY <1>10, <2>1, <2>5
  <1>14. CASE InWord(s)
    <2>1. /\ s.nest = 0 /\ s.at < at /\ \A k \in s.at .. at : src[k] \in Words
          /\ prevSig \in Words /\ prevWord # "none"
      BY <1>14 DEF InWord
    <2>2. src[at] \in Words /\ src[s.at] \in Words /\ src[s.at + 1] \in Words /\ s.at < Len(src) /\ s.at <= Len(src)
      BY <1>1, <1>3, <1>8, <2>1
    <2>3. Good(src, n)
      BY <1>3, <1>4, <1>9, <2>2, StepGood
    <2>4. PICK e \in WordEnd(src, s.at) : Left(src, s, e, n) /\ n.last = WordLast(src, s) /\ n.nest = s.nest
      BY <1>3, <1>4, <1>9, <2>2, StepGoes
    <2>5. /\ e \in s.at .. Len(src)
          /\ \A k \in s.at + 1 .. e : src[k] \in Words
          /\ e < Len(src) => src[e + 1] \notin Words
          /\ s.at \in WordEnd(src, s.at) => e = s.at
          /\ n.at = e + 1
      BY <1>3, <1>8, <2>4, WordEndIs DEF Left
    <2>6. e >= at
      <3> SUFFICES ASSUME e < at PROVE FALSE
        BY <1>3, <2>5
      <3>1. e + 1 \in s.at .. at /\ e < Len(src)
        BY <1>1, <1>3, <1>8, <2>5
      <3> QED
        BY <2>1, <2>5, <3>1
    <2>7. prevSig' \in Words /\ prevWord' = "other" /\ Ender'
      BY <1>2, <1>5, <1>6, <2>1, <2>2 DEF isExprEnder, isWordChar
    <2>8. CASE e = at
      <3>1. e # s.at
        BY <1>8, <2>1, <2>8
      <3>2. n.last = "word"
        BY <2>4, <2>5, <3>1 DEF WordLast
      <3>3. Known(n.last)'
        BY <2>7, <3>2 DEF Known
      <3>4. n.at = at + 1
        BY <2>5, <2>8
      <3>5. SecondAt(n)'
        BY <1>5, <3>3, <3>4 DEF SecondAt, Stays
      <3> QED
        BY <1>10, <2>3, <3>5
    <2>9. CASE e # at
      <3>1. at + 1 <= Len(src) /\ s.at < at + 1 /\ \A k \in s.at .. at + 1 : k = s.at \/ k \in s.at + 1 .. e
        BY <1>1, <1>3, <1>8, <2>1, <2>5, <2>6, <2>9
      <3>2. \A k \in s.at .. at + 1 : src[k] \in Words
        BY <2>2, <2>5, <3>1
      <3>3. InWord(s)'
        BY <1>5, <2>1, <2>7, <3>1, <3>2 DEF InWord
      <3> QED
        BY <1>4, <1>10, <3>3 DEF SecondAt
    <2> QED
      BY <2>8, <2>9
  <1>15. CASE InPlus(s)
    <2>1. /\ s.nest = 0 /\ at = s.at + 1 /\ Increment(src, s) /\ out[s.at] = "+"
      BY <1>15 DEF InPlus
    <2>2. c = "+" /\ s.at < Len(src)
      BY <1>2, <2>1 DEF Increment, Two
    <2>3. s.at = at - 1 /\ s.at \in 1 .. at - 1 /\ s.at - 1 = at - 2 /\ s.at <= Len(src)
      BY <1>1, <1>3, <1>8, <2>1, <2>2
    <2>4. /\ Good(src, n) /\ Left(src, s, s.at + 1, n) /\ n.nest = s.nest
          /\ n.last = IF s.last \in {"word", "operand"} THEN "postfix" ELSE "prefix"
      BY <1>3, <1>4, <1>9, <2>1, <2>3, StepGood, StepGoes
    <2>5. n.at = at + 1
      BY <2>1, <2>4 DEF Left
    <2>6. out'[at] = "+" /\ out'[at - 1] = "+" /\ prevSig' = "+"
      BY <1>5, <1>6, <2>1, <2>2, <2>3
    <2>7. ASSUME s.last \in {"word", "operand"} PROVE postfixIncDec'
      <3>1. PICK j \in 1 .. s.at - 1 : isExprEnder(out[j]) /\ \A m \in j + 1 .. s.at - 1 : out[m] \in Blanks
        BY <1>15, <2>7 DEF InPlus
      <3>2. /\ j \in 1 .. at - 2 /\ j \in 1 .. at - 1 /\ at \in 1 .. at
            /\ \A m \in j + 1 .. at - 2 : m \in j + 1 .. s.at - 1 /\ m \in 1 .. at - 1
            /\ \A m \in 1 .. at : ~(m > at)
        BY <1>3, <2>3
      <3>3. DOMAIN out' = 1 .. at
        BY <1>5 DEF Kept, Progress
      <3>4. isExprEnder(out'[j]) /\ \A m \in j + 1 .. at - 2 : out'[m] \in Blanks
        BY <1>5, <3>1, <3>2
      <3>5. \E k \in 1 .. at : \E i \in 1 .. k - 2 :
              /\ out'[k] = "+" /\ out'[k - 1] = "+"
              /\ \A m \in 1 .. at : m > k => out'[m] \in Blanks
              /\ \A m \in i + 1 .. k - 2 : out'[m] \in Blanks
              /\ isExprEnder(out'[i])
        BY <2>6, <3>2, <3>4
      <3> QED
        BY <2>6, <3>3, <3>5 DEF postfixIncDec, isExprEnder
    <2>8. Known(n.last)'
      BY <2>4, <2>7 DEF Known
    <2>9. SecondAt(n)'
      BY <1>5, <2>5, <2>8 DEF SecondAt, Stays
    <2> QED
      BY <1>10, <2>4, <2>9
  <1> QED
    BY <1>4, <1>11, <1>12, <1>13, <1>14, <1>15

LEMMA SecondDivide ==
  ASSUME Kept, SecondRead, SecondScript, Scanning, SlashHit(at)
  PROVE  ~regexAllowed /\ (Division => SecondScript' /\ SecondRead')
  <1>1. /\ at <= Len(src) /\ mode = "code" /\ Same /\ Single
    BY DEF Scanning, SecondRead, SecondScript
  <1>2. text[at] = "/"
    BY <1>1, MaskOpens DEF SecondScript
  <1>3. text[at] \notin Blanks
    BY <1>2 DEF Blanks
  <1>4. /\ src[at] = "/" /\ at \notin InLiteral(src) /\ at \in Nat \ {0} /\ Len(src) \in Nat /\ Lexical(src)
    BY <1>1, <1>2, <1>3, SecondCode
  <1>5. PICK s : Good(src, s) /\ s.at = at /\ s.nest = 0 /\ Known(s.last) /\ Other(src, s)
    <2>1. PICK s : /\ Good(src, s)
                   /\ \/ InWord(s) \/ InPlus(s)
                      \/ /\ s.at = at /\ s.nest = 0 /\ Known(s.last)
                         /\ src[at] \in Words \/ Increment(src, s) \/ Other(src, s)
      BY <1>1, <1>3, SecondCode
    <2>2. ~InWord(s) /\ ~InPlus(s)
      BY <1>4, <2>1, InsideSymbol DEF Words
    <2>3. s.at = at => src[at] \notin Words /\ ~Increment(src, s)
      BY <1>4 DEF Words, Increment, Two
    <2> QED
      BY <2>1, <2>2, <2>3
  <1>6. PICK n : n = Step(src, s)
    OBVIOUS
  <1>7. /\ Good(src, n) /\ Left(src, s, s.at, n) /\ n.last = PlainLast(src, s) /\ n.nest = s.nest
    BY <1>1, <1>4, <1>5, <1>6, StepGood, StepGoes
  <1>8. n.at = at + 1 /\ n.last = "operator"
    BY <1>4, <1>5, <1>7 DEF Left, PlainLast
  <1>9. s.last \in {"word", "operand", "postfix"}
    <2>1. ~Divided(src, s, n)
      BY <1>1, <1>5, <1>6, MaskShapes
    <2> QED
      BY <1>4, <1>5, <1>8, <2>1 DEF Divided, Other, Operands
  <1>10. ~regexAllowed
    <2>1. CASE s.last = "word"
      BY <1>5, <2>1 DEF Known, regexAllowed, isExprEnder, Words
    <2>2. CASE s.last = "operand"
      BY <1>1, <1>5, <2>2 DEF Known, regexAllowed, isExprEnder, Words, Single
    <2>3. CASE s.last = "postfix"
      BY <1>5, <2>3 DEF Known, regexAllowed
    <2> QED
      BY <1>9, <2>1, <2>2, <2>3
  <1>11. ASSUME Division PROVE SecondScript' /\ SecondRead'
    <2>1. PICK c : c = "/"
      OBVIOUS
    <2>2. /\ SecondRead' /\ src' = src /\ mode' = "code" /\ at' = at + 1 /\ Same'
      BY <1>1, <1>2, <1>5, <1>11, <2>1, SecondOut DEF Division
    <2>3. Single'
      BY <1>11 DEF Division, Single
    <2>4. SecondAt(n)'
      BY <1>8, <2>2 DEF SecondAt, Stays, Known
    <2> QED
      BY <1>7, <2>2, <2>3, <2>4 DEF SecondScript
  <1> QED
    BY <1>10, <1>11

LEMMA SecondScriptStep ==
  ASSUME Kept, SecondRead, SecondScript, Next
  PROVE  SecondScript' /\ SecondRead'
  <1>1. mode = "code" /\ pass = 2 /\ Len(text) = Len(src)
    BY DEF SecondScript, SecondRead
  <1>2. CASE Space
    BY <1>2, SecondSpace
  <1>3. CASE Ordinary
    BY <1>3, SecondOrdinary
  <1>4. CASE Divide
    BY <1>4, SecondDivide DEF Divide
  <1>5. ASSUME Scanning, Literal(at) PROVE FALSE
    <2>1. at <= Len(src)
      BY <1>1, <1>5 DEF Scanning
    <2>2. CASE text[at] \in Blanks
      <3>1. PICK s : Good(src, s)
        BY DEF SecondScript
      <3>2. text[at] \notin {"#", "tick", "q", "dq", "/"}
        BY <2>2 DEF Blanks
      <3>3. ~LineHit(at) /\ ~BlockHit(at)
        <4>1. at \in Nat \ {0} /\ Len(src) \in Nat /\ text \in Seq(Symbols) /\ lang = "script"
          BY <3>1, MaskHere DEF Kept, Progress
        <4>2. ~Matches(text, at, <<"/", "/">>) /\ ~Matches(text, at, <<"/", "*">>)
          BY <3>2, <4>1, TwoMatch DEF Two
        <4>3. ~Shebang(at)
          <5>1. 1 \in Nat \ {0}
            OBVIOUS
          <5>2. Matches(text, 1, <<"#", "!">>) => text[1] = "#"
            BY <4>1, <5>1, TwoMatch DEF Two
          <5> QED
            BY <3>2, <5>2 DEF Shebang
        <4> QED
          BY <4>1, <4>2, <4>3 DEF LineHit, BlockHit, LineOpen, BlockOpen
      <3>4. ~TemplateHit(at) /\ ~NameHit(at) /\ \A q \in StringHit(at) : FALSE
        BY <2>1, <3>1, <3>2, MaskOpens
      <3> QED
        BY <1>5, <3>3, <3>4 DEF Literal
    <2>3. CASE text[at] \notin Blanks
      BY <1>5, <2>1, <2>3, SecondCode
    <2> QED
      BY <2>2, <2>3
  <1>6. ~OpenComment /\ ~OpenName /\ ~OpenString /\ ~OpenTemplate
    BY <1>5 DEF OpenComment, OpenName, OpenString, OpenTemplate, Literal
  <1>7. ~OpenRegex
    BY SecondDivide DEF OpenRegex
  <1>8. ~Again
    BY <1>1 DEF Again
  <1> QED
    BY <1>1, <1>2, <1>3, <1>4, <1>6, <1>7, <1>8, ModeActs

(***************************************************************************)
(* The invariant of every language, and the theorems.                      *)
(***************************************************************************)
Script ==
  /\ src \in Seq(Symbols) /\ pass \in {1, 2}
  /\ pass = 1 => text = src
  /\ pass = 1 /\ Lexical(src) /\ Reading(src).shapes \cap Misread = {} => FirstScript
  /\ pass = 2 /\ Lexical(src) /\ Reading(src).shapes = {} => SecondRead /\ SecondScript

\* A step within a pass.
LEMMA StepsFixed ==
  ASSUME Kept, Next, ~Again
  PROVE  ~Masked /\ UNCHANGED fixed
  <1>1. ~Masked
    <2>1. mode = "code" => Scanning
      BY ModeActs DEF Space, OpenComment, OpenName, OpenString, OpenTemplate, OpenRegex, Divide, Ordinary
    <2>2. at \in Nat /\ Len(text) \in Nat
      BY DEF Kept, Progress
    <2>3. Scanning => ~(at > Len(text))
      BY <2>2 DEF Scanning
    <2> QED
      BY <2>1, <2>3 DEF Masked
  <1>2. UNCHANGED fixed
    BY DEF Next, Space, OpenComment, OpenName, OpenString, OpenTemplate, OpenRegex, Divide, Division,
       Ordinary, LineComment, BlockComment, Name, consumeString, consumeTemplate, consumeRegex,
       regexFlags, Emit, Enter, Look
  <1> QED
    BY <1>1, <1>2

\* Stuttering.
LEMMA WhereStays ==
  ASSUME UNCHANGED vars, NEW s
  PROVE  /\ Where(s) => Where(s)'
         /\ SecondAt(s) => SecondAt(s)'
         /\ (LitOK => LitOK') /\ (Single => Single') /\ (Same => Same')
  <1>1. /\ src' = src /\ text' = text /\ out' = out /\ at' = at /\ ahead' = ahead /\ mode' = mode /\ quote' = quote
        /\ depth' = depth /\ inClass' = inClass /\ prevSig' = prevSig /\ prevWord' = prevWord
    BY DEF vars, fixed, scanVars, tokenVars
  <1>2. (LitOK => LitOK') /\ (Single => Single') /\ \A last : Prev(last) => Prev(last)'
    BY <1>1, StaysBefore DEF tokenVars
  <1>3. (Same => Same') /\ (Pair => Pair')
    BY <1>1 DEF Same, Pair
  <1>4. \A last : Known(last) => Known(last)'
    BY <1>1 DEF Known, Ender, postfixIncDec, isExprEnder
  <1>5. AtToken(s) => AtToken(s)'
    BY <1>1, <1>2, <1>3 DEF AtToken
  <1>6. (InWord(s) => InWord(s)') /\ (InPlus(s) => InPlus(s)')
    BY <1>1 DEF InWord, InPlus, isExprEnder
  <1>7. (InLine(s) => InLine(s)') /\ (InBlock(s) => InBlock(s)')
    BY <1>1, <1>2 DEF InLine, InBlock
  <1>8. (InString(s) => InString(s)') /\ (InRegex(s) => InRegex(s)') /\ (InFlags(s) => InFlags(s)')
    BY <1>1 DEF InString, InRegex, InFlags
  <1>9. (InChars(s) => InChars(s)') /\ (InCode(s) => InCode(s)')
    BY <1>1 DEF InChars, InCode, InTemplate
  <1>10. \A n : Stays(n) => Stays(n)'
    BY <1>4 DEF Stays
  <1>11. InBlank(s) => InBlank(s)'
    BY <1>1, <1>10 DEF InBlank
  <1> QED
    BY <1>1, <1>2, <1>3, <1>5, <1>6, <1>7, <1>8, <1>9, <1>10, <1>11 DEF Where, SecondAt

\* The second scan begins with the mask of the first.
LEMMA SecondBegins ==
  ASSUME Kept, ScriptRead, pass = 1, text = src, Reading(src).shapes = {}, FirstScript, Again
  PROVE  SecondRead' /\ SecondScript'
  <1>1. /\ mode = "code" /\ at > Len(src) /\ LitOK
        /\ pass' = 2 /\ text' = out /\ out' = <<>> /\ at' = 1 /\ prevWord' = "none" /\ mode' = mode
        /\ lang' = lang /\ src' = src
    BY DEF Again, FirstScript
  <1>2. /\ at \in Nat \ {0} /\ Len(src) \in Nat /\ at <= Len(src) + 1 /\ Len(out) = at - 1
    BY DEF Kept, Progress, ScriptRead
  <1>3. at - 1 = Len(src)
    BY <1>1, <1>2
  <1>4. SecondRead'
    BY <1>1, <1>2, <1>3 DEF SecondRead, ScriptRead, LitOK
  <1>5. Good(src, Start) /\ Start.at = 1 /\ Start.last = "none"
    BY GoodStart DEF Start
  <1>6. SecondAt(Start)'
    BY <1>1, <1>5 DEF SecondAt, Stays, Known
  <1>7. Same' /\ Single'
    BY <1>1 DEF Same, Single
  <1> QED
    BY <1>1, <1>4, <1>5, <1>6, <1>7 DEF SecondScript

LEMMA ScriptStep ==
  ASSUME Kept, lang = "script", Script, [Next]_vars
  PROVE  Script'
  <1>1. CASE UNCHANGED vars
    <2>1. src' = src /\ pass' = pass /\ text' = text /\ lang' = lang /\ mode' = mode
      BY <1>1 DEF vars, fixed
    <2>2. FirstScript => FirstScript'
      BY <1>1, <2>1, WhereStays DEF FirstScript
    <2>3. SecondRead => SecondRead'
      BY <2>1 DEF SecondRead, ScriptRead
    <2>4. SecondScript => SecondScript'
      BY <1>1, <2>1, WhereStays DEF SecondScript
    <2> QED
      BY <2>1, <2>2, <2>3, <2>4 DEF Script
  <1>2. CASE Again
    <2>1. pass = 1 /\ pass' = 2 /\ src' = src /\ text = src /\ src \in Seq(Symbols)
      BY <1>2 DEF Again, Script
    <2>2. ASSUME Lexical(src), Reading(src).shapes = {} PROVE SecondRead' /\ SecondScript'
      BY <1>2, <2>1, <2>2, SecondBegins DEF Script, ScriptRead
    <2> QED
      BY <2>1, <2>2 DEF Script
  <1>3. CASE Next /\ ~Again
    <2>1. ~Masked /\ src' = src /\ pass' = pass /\ text' = text
      BY <1>3, StepsFixed DEF fixed
    <2>2. ASSUME pass = 1, Lexical(src), Reading(src).shapes \cap Misread = {} PROVE FirstScript'
      <3>1. FirstRead /\ FirstScript
        BY <2>2 DEF Script, FirstRead, ScriptRead
      <3> QED
        BY <1>3, <2>1, <3>1, FirstScriptStep
    <2>3. ASSUME pass = 2, Lexical(src), Reading(src).shapes = {} PROVE SecondRead' /\ SecondScript'
      BY <1>3, <2>3, SecondScriptStep DEF Script
    <2> QED
      BY <2>1, <2>2, <2>3 DEF Script
  <1> QED
    BY <1>1, <1>2, <1>3

IInv == Kept /\ (lang = "script" => Script) /\ (lang # "script" => First /\ Second)

LEMMA IInvInit == ASSUME Init PROVE IInv
  <1>1. Kept
    BY KeptInit
  <1>2. PICK input \in Inputs : lang = input.lang /\ src = input.text
    BY DEF Init
  <1>3. src \in Seq(Symbols) /\ lang \in {"script", "kotlin", "java", "python"}
    <2>1. src \in Seq(STRING) /\ lang \in {"script", "kotlin", "java", "python"}
      BY <1>2, InputsAssumption
    <2> QED
      BY <2>1 DEF Symbols
  <1>4. /\ text = src /\ pass = 1 /\ mode = "code" /\ out = <<>> /\ names = {}
    BY DEF Init
  <1>5. CASE lang = "script"
    <2>1. ASSUME Lexical(src), Reading(src).shapes \cap Misread = {} PROVE FirstScript
      BY <1>3, <1>5, <2>1, FirstScriptInit DEF ScriptRead
    <2> QED
      BY <1>1, <1>3, <1>4, <1>5, <2>1 DEF IInv, Script
  <1>6. CASE lang # "script"
    <2>1. Len(Mask) = 0
      BY <1>4 DEF Mask
    <2>2. First /\ Second
      BY <1>3, <1>4, <1>6, <2>1 DEF First, Second, Named, Masks
    <2> QED
      BY <1>1, <1>6, <2>2 DEF IInv
  <1> QED
    BY <1>5, <1>6

LEMMA IInvStep == ASSUME IInv, [Next]_vars PROVE IInv'
  <1>1. Kept /\ Kept'
    BY KeptStep DEF IInv
  <1>2. lang' = lang
    <2>1. CASE Again
      BY <2>1 DEF Again
    <2>2. CASE Next /\ ~Again
      BY <1>1, <2>2, StepsFixed DEF fixed
    <2>3. CASE UNCHANGED vars
      BY <2>3 DEF vars, fixed
    <2> QED
      BY <2>1, <2>2, <2>3
  <1>3. CASE lang = "script"
    BY <1>1, <1>2, <1>3, ScriptStep DEF IInv
  <1>4. CASE lang # "script"
    <2>0. First /\ Second
      BY <1>4 DEF IInv
    <2>1. CASE Next /\ pass = 1
      BY <1>1, <1>2, <1>4, <2>0, <2>1, FirstStep DEF IInv
    <2>2. CASE Next /\ pass = 2
      BY <1>1, <1>2, <1>4, <2>0, <2>2, SecondStep DEF IInv
    <2>3. CASE UNCHANGED vars
      <3>1. First'
        <4>1. UNCHANGED <<fixed, out, names>> /\ mode' = mode /\ at' = at /\ ahead' = ahead
          BY <2>3 DEF vars
        <4> QED
          BY <1>1, <2>0, <4>1, FirstStays DEF First
      <3>2. Second'
        BY <2>0, <2>3 DEF Second, vars, fixed
      <3> QED
        BY <1>1, <1>2, <1>4, <3>1, <3>2 DEF IInv
    <2> QED
      BY <2>0, <2>1, <2>2, <2>3 DEF First
  <1> QED
    BY <1>3, <1>4

\* Masking a mask changes nothing, in a text of any length: eligibleFnsDetail and
\* pinnedFragmentsByKind, which mask a body one after the other, read one and the same
\* text.  In script that needs a text in which no literal is divided.
THEOREM TwiceTheorem == Spec => []MaskedTwice
  <1>1. ASSUME IInv PROVE MaskedTwice
    <2> SUFFICES ASSUME Masked, pass = 2, lang = "script" => Lexical(src) /\ Reading(src).shapes = {} PROVE out = text
      BY DEF MaskedTwice
    <2>1. /\ out \in Seq(Symbols) /\ text \in Seq(Symbols) /\ Len(out) = Len(text) /\ Len(out) = at - 1
      BY <1>1 DEF IInv, Kept, Progress, Masked
    <2>2. CASE lang = "script"
      <3>1. Same
        BY <1>1, <2>2 DEF IInv, Script, SecondScript
      <3>2. \A k \in 1 .. Len(out) : out[k] = text[k]
        BY <2>1, <3>1 DEF Same
      <3> QED
        BY <2>1, <3>2, SeqEqual
    <2>3. CASE lang # "script"
      <3>1. \A k \in 1 .. Len(out) : out[k] = text[k]
        BY <1>1, <2>3 DEF IInv, Second
      <3> QED
        BY <2>1, <3>1, SeqEqual
    <2> QED
      BY <2>2, <2>3
  <1> QED
    BY <1>1, IInvInit, IInvStep, PTL DEF Spec

\* In a script of any length stripComments blanks the comments and the literals of the
\* language and nothing else: its one token of memory decides every slash as the grammar
\* does, and its counters end every template, class and escape where the grammar does,
\* unless the text has one of the three shapes of Misread.
THEOREM LexicalTheorem == Spec => []MaskIsLexical
  <1>1. ASSUME IInv PROVE MaskIsLexical
    <2> SUFFICES ASSUME Masked, pass = 1, lang = "script", Lexical(src), Reading(src).shapes \cap Misread = {},
                        NEW k \in DOMAIN src
                 PROVE  out[k] = " " <=> (src[k] = " " \/ (k \in InLiteral(src) /\ src[k] # "nl"))
      BY DEF MaskIsLexical
    <2>1. LitOK /\ text = src /\ src \in Seq(Symbols)
      BY <1>1 DEF IInv, Script, FirstScript
    <2>2. /\ Len(out) = Len(src) /\ Len(src) = at - 1 /\ Masks(out, src)
      BY <1>1, <2>1 DEF IInv, Kept, Progress, Masked
    <2>3. k \in 1 .. Len(out) /\ k \in 1 .. at - 1
      BY <2>1, <2>2
    <2>4. Keeps(src[k], out[k])
      BY <2>2, <2>3 DEF Masks
    <2>5. IF k \in InLiteral(src) THEN out[k] \in Blanks ELSE out[k] = src[k]
      BY <2>1, <2>3 DEF LitOK
    <2> QED
      BY <2>4, <2>5 DEF Keeps, Blanks
  <1> QED
    BY <1>1, IInvInit, IInvStep, PTL DEF Spec
=============================================================================
