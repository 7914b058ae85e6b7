--------------------------- MODULE ChangesProofs ---------------------------
(***************************************************************************)
(* Proofs about Changes.  The records are the run's whole memory: the      *)
(* invariant says that they hold every verdict and every mention the       *)
(* history remembers, and the rows are read off them once, at the end.     *)
(***************************************************************************)
EXTENDS Changes, FiniteSetTheorems, WellFoundedInduction, TLAPS

BoundFound == \A d \in Changed : d \in bound <=> ProvenIn(d) # {}
AccusedFound == \A d \in Changed : d \in accused <=> HollowIn(d) # {}

\* The record r refers to the name n.
Mentions(r, n) == n \in r.body \/ (r.why = "dynamic-title" /\ n \in r.file)
NamedFound == \A n \in named : \E i \in Indices : Mentions(records[i], n)
RowsRead == changes = None \/ \A d \in Changed : changes[d].status = Classified(d).status

IInv ==
  /\ records \in Seq(RecordType)
  /\ BoundFound /\ AccusedFound /\ NamedFound /\ RowsRead

\* A record made of a block is well typed, with any verdict and reason.
LEMMA RecordTyped ==
  ASSUME NEW b \in Blocks, NEW v \in Verdicts, NEW w \in Whys
  PROVE  /\ Record(b, v, w) \in RecordType
         /\ Record(b, v, w).verdict = v /\ Record(b, v, w).body = b.body
         /\ [Record(b, v, w) EXCEPT !.shadows = {}] \in RecordType
BY DEF Blocks, Record, RecordType, Names

\* What one more record adds to the evidence.
LEMMA Pushed ==
  ASSUME records \in Seq(RecordType), NEW r \in RecordType, records' = Append(records, r)
  PROVE  /\ records' \in Seq(RecordType)
         /\ \A d \in Changed :
              /\ ProvenIn(d)' # {} <=> ProvenIn(d) # {} \/ (r.verdict = "caught" /\ d \in r.red)
              /\ HollowIn(d)' # {} <=> HollowIn(d) # {} \/ (r.verdict = "hollow" /\ d \in r.blind)
         /\ \A n : (\E i \in Indices' : Mentions(records'[i], n))
                     <=> ((\E i \in Indices : Mentions(records[i], n)) \/ Mentions(r, n))
<1>1. /\ records' \in Seq(RecordType) /\ Len(records') = Len(records) + 1
      /\ Len(records) \in Nat
      /\ records'[Len(records) + 1] = r
      /\ \A i \in 1..Len(records) : records'[i] = records[i]
  OBVIOUS
<1>2. Indices' = Indices \cup {Len(records) + 1}
  BY <1>1 DEF Indices
<1>3. \A i \in Indices : records'[i] = records[i]
  BY <1>1 DEF Indices
<1>4. ASSUME NEW d \in Changed
      PROVE  /\ ProvenIn(d)' # {} <=> ProvenIn(d) # {} \/ (r.verdict = "caught" /\ d \in r.red)
             /\ HollowIn(d)' # {} <=> HollowIn(d) # {} \/ (r.verdict = "hollow" /\ d \in r.blind)
  <2>1. ProvenIn(d)' # {} <=> \E i \in Indices' : records'[i].verdict = "caught" /\ d \in records'[i].red
    BY DEF ProvenIn
  <2>2. ProvenIn(d) # {} <=> \E i \in Indices : records[i].verdict = "caught" /\ d \in records[i].red
    BY DEF ProvenIn
  <2>3. HollowIn(d)' # {} <=> \E i \in Indices' : records'[i].verdict = "hollow" /\ d \in records'[i].blind
    BY DEF HollowIn
  <2>4. HollowIn(d) # {} <=> \E i \in Indices : records[i].verdict = "hollow" /\ d \in records[i].blind
    BY DEF HollowIn
  <2> QED
    BY <1>1, <1>2, <1>3, <2>1, <2>2, <2>3, <2>4
<1>5. ASSUME NEW n
      PROVE  (\E i \in Indices' : Mentions(records'[i], n))
                <=> ((\E i \in Indices : Mentions(records[i], n)) \/ Mentions(r, n))
  BY <1>1, <1>2, <1>3 DEF Mentions
<1> QED
  BY <1>1, <1>4, <1>5

\* The status of a row is the first that some record gives evidence for.
LEMMA StatusRead ==
  ASSUME NEW d
  PROVE  Classified(d).status =
           IF HollowIn(d) # {} THEN "hollow"
           ELSE IF ProvenIn(d) # {} THEN "proven"
           ELSE IF OneSidedIn(d) # {} THEN "unverifiable"
           ELSE IF ShadowIn(d) # {} THEN "hollow"
           ELSE IF Refs(d) \cup DynFileRefs(d) # {} THEN "unverifiable"
           ELSE "untested"
<1>1. \A s, r : Row(s, r).status = s
  BY DEF Row
<1> QED
  BY <1>1 DEF Classified

\* While the records stay, so does what is read off them.
LEMMA Steady ==
  ASSUME records' = records, NEW d
  PROVE  /\ ProvenIn(d)' = ProvenIn(d) /\ HollowIn(d)' = HollowIn(d)
         /\ Classified(d).status' = Classified(d).status
<1>1. Indices' = Indices
  BY DEF Indices
<1>2. /\ ProvenIn(d)' = ProvenIn(d) /\ HollowIn(d)' = HollowIn(d)
      /\ OneSidedIn(d)' = OneSidedIn(d) /\ ShadowIn(d)' = ShadowIn(d)
      /\ Refs(d)' = Refs(d) /\ DynFileRefs(d)' = DynFileRefs(d)
  BY <1>1 DEF ProvenIn, HollowIn, OneSidedIn, ShadowIn, Refs, DynFileRefs
<1>3. Classified(d).status' =
           IF HollowIn(d)' # {} THEN "hollow"
           ELSE IF ProvenIn(d)' # {} THEN "proven"
           ELSE IF OneSidedIn(d)' # {} THEN "unverifiable"
           ELSE IF ShadowIn(d)' # {} THEN "hollow"
           ELSE IF Refs(d)' \cup DynFileRefs(d)' # {} THEN "unverifiable"
           ELSE "untested"
  <2>1. \A s, r : Row(s, r).status = s
    BY DEF Row
  <2> QED
    BY <2>1 DEF Classified
<1> QED
  BY <1>2, <1>3, StatusRead

\* A record without a verdict on mutants, which mentions the new names, keeps
\* the invariant.
LEMMA MentionStep ==
  ASSUME IInv, NEW r \in RecordType, Push(r), r.verdict \notin {"caught", "hollow"},
         bound' = bound, accused' = accused,
         \A n \in named' : n \in named \/ Mentions(r, n)
  PROVE  IInv'
<1>1. records \in Seq(RecordType) /\ records' = Append(records, r) /\ changes' = None
  BY DEF IInv, Push
<1>2. BoundFound' /\ AccusedFound'
  BY <1>1, Pushed DEF IInv, BoundFound, AccusedFound
<1>3. NamedFound'
  BY <1>1, Pushed DEF IInv, NamedFound
<1> QED
  BY <1>1, <1>2, <1>3, Pushed DEF IInv, RowsRead, None

\* A fold keeps the invariant: what it adds to the history is in its record.
LEMMA FoldStep ==
  ASSUME IInv, NEW b \in Blocks, Fold(b)
  PROVE  IInv'
<1>1. PICK fate \in UNION {[ds -> Fates] : ds \in SUBSET b.targets}, starved \in BOOLEAN, flaky \in BOOLEAN :
        LET r == Verdict(b, fate, flaky, starved)
        IN /\ Push(r)
           /\ bound' = bound \cup Ours(Of(fate, "red"))
           /\ accused' = IF r.verdict = "hollow"
                           THEN accused \cup Ours(Of(fate, "blind")) ELSE accused
  BY DEF Fold
<1> DEFINE r == Verdict(b, fate, flaky, starved)
<1>2. \A f : Ours(Of(fate, f)) \subseteq Changed
  BY DEF Ours
<1>3. /\ r \in RecordType /\ r.body = b.body
      /\ r.verdict = "caught" => r.red = Ours(Of(fate, "red"))
      /\ r.verdict # "caught" => Of(fate, "red") = {}
      /\ r.verdict = "hollow" => r.blind = Ours(Of(fate, "blind"))
  <2> b.body \subseteq Names /\ b.shadows \subseteq Changed
    BY DEF Blocks
  <2> HIDE DEF Names
  <2> QED
    BY <1>2 DEF Verdict, Record, RecordType, Verdicts, Whys, ScanWhy, EXECUTION_WHY, BaselineWhy
<1>4. records \in Seq(RecordType) /\ records' = Append(records, r) /\ changes' = None
  BY <1>1 DEF IInv, Push
<1> HIDE DEF r
<1>5. /\ bound' = bound \cup Ours(Of(fate, "red"))
      /\ accused' = IF r.verdict = "hollow" THEN accused \cup Ours(Of(fate, "blind")) ELSE accused
      /\ named' = named \cup b.body
  BY <1>1 DEF Fold, r
<1>6. BoundFound'
  <2>1. \A d \in Changed : d \in bound' <=> d \in bound \/ (r.verdict = "caught" /\ d \in r.red)
    BY <1>3, <1>5 DEF Ours
  <2> QED
    BY <2>1, <1>3, <1>4, Pushed DEF IInv, BoundFound
<1>7. AccusedFound'
  <2>1. \A d \in Changed : d \in accused' <=> d \in accused \/ (r.verdict = "hollow" /\ d \in r.blind)
    BY <1>3, <1>5
  <2> QED
    BY <2>1, <1>3, <1>4, Pushed DEF IInv, AccusedFound
<1>8. NamedFound'
  <2>1. \A n \in named' : n \in named \/ Mentions(r, n)
    BY <1>3, <1>5 DEF Mentions
  <2> QED
    BY <2>1, <1>3, <1>4, Pushed DEF IInv, NamedFound
<1> QED
  BY <1>3, <1>4, <1>6, <1>7, <1>8, Pushed DEF IInv, RowsRead, None

\* The invariant holds at the start and is kept by every step.
LEMMA Invariance == Spec => []IInv
<1>1. Init => IInv
  BY DEF Init, IInv, BoundFound, AccusedFound, NamedFound, RowsRead, ProvenIn, HollowIn, Indices
<1>2. IInv /\ [Next]_vars => IInv'
  <2> SUFFICES ASSUME IInv, [Next]_vars PROVE IInv'
    OBVIOUS
  <2> USE DEF history
  <2>1. ASSUME NEW b \in Blocks, RunnerMismatch(b) PROVE IInv'
    <3> DEFINE r == [Record(b, "skipped", "runner-mismatch") EXCEPT !.shadows = {}]
    <3>1. r \in RecordType /\ r.verdict = "skipped" /\ r.body = b.body
      BY RecordTyped DEF Record, Verdicts, Whys
    <3> QED
      BY <2>1, <3>1, MentionStep DEF RunnerMismatch, Mention, Mentions
  <2>2. ASSUME NEW b \in Blocks, SourceSetGate(b) PROVE IInv'
    <3> DEFINE r == [Record(b, "skipped", "instrumented-test") EXCEPT !.shadows = {}]
    <3>1. r \in RecordType /\ r.verdict = "skipped" /\ r.body = b.body
      BY RecordTyped DEF Record, Verdicts, Whys
    <3>2. CASE Push(r) /\ Mention(b)
      BY <3>2, <3>1, MentionStep DEF Mention, Mentions
    <3>3. CASE UNCHANGED <<records, changes, history>>
      BY <3>3, Steady DEF IInv, BoundFound, AccusedFound, NamedFound, RowsRead, Indices
    <3> QED
      BY <2>2, <3>2, <3>3 DEF SourceSetGate
  <2>3. ASSUME NEW b \in Blocks, CutOff(b) PROVE IInv'
    <3> DEFINE r == [Record(b, "skipped", "probe-cap") EXCEPT !.shadows = {}]
    <3>1. r \in RecordType /\ r.verdict = "skipped" /\ r.body = b.body
      BY RecordTyped DEF Record, Verdicts, Whys
    <3> QED
      BY <2>3, <3>1, MentionStep DEF CutOff, Mention, Mentions
  <2>4. ASSUME NEW b \in Blocks, Dismiss(b) PROVE IInv'
    <3>1. PICK why \in Why0(b) :
            Push([Record(b, "skipped", why) EXCEPT !.file = FileMasked(b)])
      BY <2>4 DEF Dismiss
    <3> DEFINE r == [Record(b, "skipped", why) EXCEPT !.file = FileMasked(b)]
    <3>2. why \in Whys /\ (b.dynamicTitle => why = "dynamic-title")
      BY DEF Why0, Whys, ScanWhy
    <3>3. FileMasked(b) \subseteq Names /\ (~b.dynamicTitle => FileMasked(b) = {})
      BY DEF FileMasked, Blocks
    <3>4. /\ r \in RecordType /\ r.verdict = "skipped" /\ r.body = b.body
          /\ r.why = why /\ r.file = FileMasked(b)
      BY <3>2, <3>3, RecordTyped DEF Record, RecordType, Verdicts
    <3> HIDE DEF r
    <3>5. \A n \in named' : n \in named \/ Mentions(r, n)
      BY <2>4, <3>2, <3>3, <3>4 DEF Dismiss, Mentions
    <3> QED
      BY <2>4, <3>1, <3>4, <3>5, MentionStep DEF Dismiss, r
  <2>5. ASSUME NEW b \in Blocks, Hold(b) PROVE IInv'
    <3> DEFINE v(why) == IF why \in Capped THEN "skipped" ELSE "inconclusive"
    <3>1. PICK why \in NotRun : Push(Record(b, v(why), why))
      BY <2>5 DEF Hold
    <3>2. v(why) \in Verdicts \ {"caught", "hollow"} /\ why \in Whys
      BY DEF NotRun, Capped, Verdicts, Whys, EXECUTION_WHY, BaselineWhy
    <3> HIDE DEF v
    <3>3. /\ Record(b, v(why), why) \in RecordType
          /\ Record(b, v(why), why).verdict \notin {"caught", "hollow"}
          /\ Record(b, v(why), why).body = b.body
      BY <3>2, RecordTyped
    <3> QED
      BY <2>5, <3>1, <3>3, MentionStep DEF Hold, Mention, Mentions
  <2>6. ASSUME NEW b \in Blocks, Fold(b) PROVE IInv'
    BY <2>6, FoldStep
  <2>7. CASE ClassifyChanges
    BY <2>7, Steady, StatusRead DEF ClassifyChanges, IInv, BoundFound, AccusedFound, NamedFound, RowsRead, Indices
  <2>8. CASE UNCHANGED vars
    BY <2>8, Steady DEF vars, IInv, BoundFound, AccusedFound, NamedFound, RowsRead, Indices
  <2> QED
    BY <2>1, <2>2, <2>3, <2>4, <2>5, <2>6, <2>7, <2>8 DEF Next, BlockStep
<1> QED
  BY <1>1, <1>2, PTL DEF Spec

\* A positive claim about a function is made of its own mutants, whatever else
\* bears its name (classifyChanges, hollowIn, provenIn and the shadows).
THEOREM ClaimsTheorem == Spec => []ClaimsBacked
<1>1. IInv => ClaimsBacked
  <2> SUFFICES ASSUME IInv, NEW d \in Changed, changes # None
               PROVE  /\ Reported(d, "proven") => d \in bound
                      /\ Reported(d, "hollow") =>
                           \/ d \in accused
                           \/ d \notin bound /\ \E i \in Indices : d \in records[i].shadows
    BY DEF ClaimsBacked, Reported
  <2>1. changes[d].status = Classified(d).status
    BY DEF IInv, RowsRead
  <2>2. /\ d \in bound <=> ProvenIn(d) # {}
        /\ d \in accused <=> HollowIn(d) # {}
    BY DEF IInv, BoundFound, AccusedFound
  <2>3. ShadowIn(d) # {} => \E i \in Indices : d \in records[i].shadows
    BY DEF ShadowIn
  <2> QED
    BY <2>1, <2>2, <2>3, StatusRead DEF Reported
<1> QED
  BY <1>1, Invariance, PTL

\* A fold's accusation always shows, and no other record hides a binding.
THEOREM VerdictTheorem == Spec => []VerdictKept
<1>1. IInv => VerdictKept
  <2> SUFFICES ASSUME IInv, NEW d \in Changed, changes # None
               PROVE  /\ d \in accused => Reported(d, "hollow")
                      /\ d \in bound => Reported(d, "proven") \/ Reported(d, "hollow")
    BY DEF VerdictKept
  <2>1. changes[d].status = Classified(d).status
    BY DEF IInv, RowsRead
  <2>2. /\ d \in bound <=> ProvenIn(d) # {}
        /\ d \in accused <=> HollowIn(d) # {}
    BY DEF IInv, BoundFound, AccusedFound
  <2> QED
    BY <2>1, <2>2, StatusRead DEF Reported
<1> QED
  BY <1>1, Invariance, PTL

\* "No test mentions it" is never said of a function that a test the run looked
\* at names (classifyChanges, refEligible and dynFileRefs).
THEOREM UntestedTheorem == Spec => []UntestedTrue
<1>1. IInv => UntestedTrue
  <2> SUFFICES ASSUME IInv, NEW d \in Changed, Reported(d, "untested"), NameOf[d] \in named
               PROVE  FALSE
    BY DEF UntestedTrue
  <2>1. Classified(d).status = "untested"
    BY DEF IInv, RowsRead, Reported
  <2>2. /\ HollowIn(d) = {} /\ ProvenIn(d) = {} /\ OneSidedIn(d) = {}
        /\ Refs(d) = {} /\ DynFileRefs(d) = {}
    BY <2>1, StatusRead
  <2>3. PICK i \in Indices : Mentions(records[i], NameOf[d])
    BY DEF IInv, NamedFound
  <2>4. NameOf[d] \in records[i].body
    BY <2>2, <2>3 DEF Mentions, DynFileRefs
  <2>5. records[i].verdict \in Verdicts
    <3>1. records[i] \in RecordType
      BY DEF IInv, Indices
    <3> QED
      BY <3>1 DEF RecordType
  <2>6. RefEligible(records[i], d)
    BY <2>2, <2>5 DEF RefEligible, Verdicts, HollowIn, ProvenIn, OneSidedIn
  <2> QED
    BY <2>2, <2>4, <2>6 DEF Refs
<1> QED
  BY <1>1, Invariance, PTL

(***************************************************************************)
(* The reason of an unverifiable row.  Its CHOOSE finds one: among the     *)
(* commonest reasons, the observed ones if there are any, the reason met   *)
(* first.  Two least numbers show it, and no induction over the records.   *)
(***************************************************************************)
LEMMA LeastOf ==
  ASSUME NEW T, T \subseteq Nat, T # {}
  PROVE  \E x \in T : \A y \in T : x <= y
<1>1. PICK x \in T : \A y \in T : <<y, x>> \notin OpToRel(<, Nat)
  BY NatLessThanWellFounded, WFMin
<1>2. ASSUME NEW y \in T PROVE x <= y
  <2>1. x \in Nat /\ y \in Nat /\ ~(y < x)
    BY <1>1 DEF OpToRel
  <2> QED
    BY <2>1
<1> QED
  BY <1>2

\* Reasons are counted over the records, so no count exceeds their number.
LEMMA Counted ==
  ASSUME records \in Seq(RecordType), NEW d, NEW w
  PROVE  /\ With(d, w) \subseteq Indices /\ Len(records) \in Nat
         /\ Count(d, w) \in Nat /\ Count(d, w) <= Len(records)
<1>1. Len(records) \in Nat /\ With(d, w) \subseteq Indices
  BY DEF With, Refs
<1>2. IsFiniteSet(1..Len(records)) /\ Cardinality(1..Len(records)) = Len(records)
  BY <1>1, FS_Interval
<1>3. /\ IsFiniteSet(With(d, w))
      /\ Cardinality(With(d, w)) <= Cardinality(1..Len(records))
  BY <1>1, <1>2, FS_Subset DEF Indices
<1> QED
  BY <1>1, <1>2, <1>3, FS_CardinalityType DEF Count

\* Some reason is outnumbered by none.
LEMMA Commonest ==
  ASSUME records \in Seq(RecordType), NEW d, Reasons(d) # {}
  PROVE  \E w \in Reasons(d) : \A v \in Reasons(d) : Count(d, v) <= Count(d, w)
<1> DEFINE T == {Len(records) - Count(d, w) : w \in Reasons(d)}
<1>1. T \subseteq Nat
  BY Counted
<1>2. T # {}
  OBVIOUS
<1> HIDE DEF T
<1>3. PICK x \in T : \A y \in T : x <= y
  BY <1>1, <1>2, LeastOf
<1>4. PICK w \in Reasons(d) : x = Len(records) - Count(d, w)
  BY DEF T
<1>5. ASSUME NEW v \in Reasons(d) PROVE Count(d, v) <= Count(d, w)
  <2>1. Len(records) - Count(d, w) <= Len(records) - Count(d, v)
    BY <1>3, <1>4 DEF T
  <2>2. PICK m, n, l : m = Count(d, v) /\ n = Count(d, w) /\ l = Len(records)
    OBVIOUS
  <2>3. m \in Nat /\ n \in Nat /\ l \in Nat
    BY <2>2, Counted
  <2>4. l - n <= l - m
    BY <2>1, <2>2
  <2>5. m <= n
    BY <2>3, <2>4
  <2> QED
    BY <2>2, <2>5
<1> QED
  BY <1>5

\* Among the reasons E one was met first, which stands in a record before every
\* record of the others.
LEMMA MetFirst ==
  ASSUME records \in Seq(RecordType), NEW d, NEW E, E \subseteq Reasons(d), E # {}
  PROVE  \E w \in E : \A v \in E \ {w} : Earlier(d, w, v)
<1> DEFINE I == {i \in Refs(d) : WhyOf(records[i]) \in E}
<1>1. I \subseteq Nat
  BY DEF Refs, Indices
<1>2. I # {}
  BY DEF Reasons
<1>3. PICK i \in I : \A j \in I : i <= j
  BY <1>1, <1>2, LeastOf
<1>4. i \in With(d, WhyOf(records[i])) /\ WhyOf(records[i]) \in E
  BY DEF With
<1>5. ASSUME NEW v \in E \ {WhyOf(records[i])}, NEW j \in With(d, v) PROVE i < j
  <2>1. j \in I /\ j # i
    BY DEF With
  <2> QED
    BY <1>1, <1>3, <2>1
<1> QED
  BY <1>4, <1>5 DEF Earlier

\* So a reason is ahead of all the others, and the row has it.
LEMMA ReasonFound ==
  ASSUME records \in Seq(RecordType), NEW d, Refs(d) # {}
  PROVE  /\ Reason(d) \in Reasons(d)
         /\ \A v \in Reasons(d) \ {Reason(d)} : Ahead(d, Reason(d), v)
<1> DEFINE M == {w \in Reasons(d) : \A v \in Reasons(d) : Count(d, v) <= Count(d, w)}
           E == IF M \cap EXECUTION_WHY # {} THEN M \cap EXECUTION_WHY ELSE M
<1>1. Reasons(d) # {}
  BY DEF Reasons
<1>2. M # {}
  BY <1>1, Commonest
<1>3. E \subseteq Reasons(d) /\ E # {} /\ E \subseteq M
  BY <1>2
<1>4. PICK w \in E : \A v \in E \ {w} : Earlier(d, w, v)
  BY <1>3, MetFirst
<1>5. ASSUME NEW v \in Reasons(d) \ {w} PROVE Ahead(d, w, v)
  <2>1. /\ Count(d, w) \in Nat /\ Count(d, v) \in Nat /\ w \in M
        /\ Count(d, v) <= Count(d, w)
    BY <1>3, <1>4, Counted
  <2>2. CASE Count(d, v) < Count(d, w)
    BY <2>1, <2>2 DEF Ahead
  <2>3. CASE Count(d, v) = Count(d, w)
    <3>1. v \in M
      BY <2>1, <2>3
    <3>2. CASE v \in E
      <4>1. Earlier(d, w, v) /\ (w \in EXECUTION_WHY <=> v \in EXECUTION_WHY)
        BY <1>4, <3>2
      <4> QED
        BY <4>1, <2>3 DEF Ahead, TieBreak
    <3>3. CASE v \notin E
      <4>1. w \in EXECUTION_WHY /\ v \notin EXECUTION_WHY
        BY <1>4, <3>1, <3>3
      <4> QED
        BY <4>1, <2>3 DEF Ahead, TieBreak
    <3> QED
      BY <3>2, <3>3
  <2> QED
    BY <2>1, <2>2, <2>3
<1>6. w \in Reasons(d)
  BY <1>3, <1>4
<1> QED
  BY <1>5, <1>6 DEF Reason

\* The words a record can give as its reason.
LEMMA Worded ==
  ASSUME records \in Seq(RecordType), NEW d, NEW w \in Reasons(d)
  PROVE  w \in Reasoned /\ w \notin {"", "one-sided", "wrong-layer-shadow"}
<1>1. PICK i \in Indices : w = WhyOf(records[i])
  BY DEF Reasons, Refs
<1>2. records[i] \in RecordType
  BY DEF Indices
<1>3. records[i].why \in Whys
  BY <1>2 DEF RecordType
<1> QED
  BY <1>1, <1>3 DEF WhyOf, Reasoned, Whys, ScanWhy, EXECUTION_WHY, BaselineWhy

\* A row is well typed, and an unverifiable one has a reason.
LEMMA RowRead ==
  ASSUME records \in Seq(RecordType), NEW d
  PROVE  /\ Classified(d) \in [status : Statuses, reason : Reasoned]
         /\ Classified(d).status = "unverifiable" => Classified(d).reason # ""
<1>1. \A s, r : Row(s, r).status = s /\ Row(s, r).reason = r
  BY DEF Row
<1>2. \A s \in Statuses, r \in Reasoned : Row(s, r) \in [status : Statuses, reason : Reasoned]
  BY DEF Row
<1>3. Refs(d) # {} => Reason(d) \in Reasoned /\ Reason(d) # ""
  BY ReasonFound, Worded
<1>4. {"", "one-sided", "wrong-layer-shadow", "dynamic-title"} \subseteq Reasoned
  BY DEF Reasoned, Whys
<1>5. Statuses = {"hollow", "proven", "unverifiable", "untested"}
  BY DEF Statuses
<1> HIDE DEF Statuses, Reasoned
<1>8. Classified(d) \in [status : Statuses, reason : Reasoned]
  BY <1>2, <1>3, <1>4, <1>5 DEF Classified
<1>9. Classified(d).status = "unverifiable" =>
        \/ Classified(d).reason \in {"one-sided", "dynamic-title"}
        \/ Refs(d) # {} /\ Classified(d).reason = Reason(d)
  <2>1. \/ \E s \in {"hollow", "proven", "untested"} : \E r : Classified(d) = Row(s, r)
        \/ Classified(d) = Row("unverifiable", "one-sided")
        \/ Refs(d) # {} /\ Classified(d) = Row("unverifiable", Reason(d))
        \/ Refs(d) = {} /\ Classified(d) = Row("unverifiable", "dynamic-title")
    BY DEF Classified
  <2>2. CASE \E s \in {"hollow", "proven", "untested"} : \E r : Classified(d) = Row(s, r)
    BY <2>2, <1>1
  <2>3. CASE Classified(d) = Row("unverifiable", "one-sided")
    BY <2>3, <1>1
  <2>4. CASE Refs(d) # {} /\ Classified(d) = Row("unverifiable", Reason(d))
    BY <2>4, <1>1
  <2>5. CASE Refs(d) = {} /\ Classified(d) = Row("unverifiable", "dynamic-title")
    BY <2>5, <1>1
  <2> QED
    BY <2>1, <2>2, <2>3, <2>4, <2>5
<1>10. Classified(d).status = "unverifiable" => Classified(d).reason # ""
  BY <1>3, <1>9
<1> QED
  BY <1>8, <1>10

\* A step that leaves a record, of a verdict and a history that are well typed.
LEMMA WrittenPush ==
  ASSUME IInv, IInv', TypeOK, NEW r, Push(r), spent' \in BOOLEAN,
         named' \subseteq Names, bound' \subseteq Changed, accused' \subseteq Changed
  PROVE  TypeOK'
<1>1. changes' = None
  BY DEF Push
<1>2. Len(records') <= MaxRecords
  BY ChangesAssumption DEF Push, IInv
<1> QED
  BY <1>1, <1>2 DEF TypeOK, IInv

LEMMA WrittenStep ==
  ASSUME IInv, IInv', TypeOK, [Next]_vars
  PROVE  TypeOK'
<1> USE DEF history
<1>1. ASSUME NEW b \in Blocks,
             RunnerMismatch(b) \/ SourceSetGate(b) \/ CutOff(b) \/ Dismiss(b) \/ Hold(b)
      PROVE  TypeOK' \/ UNCHANGED <<records, changes, history, spent>>
  <2>1. b.body \subseteq Names /\ FileMasked(b) \subseteq Names
    BY DEF Blocks, FileMasked
  <2>2. named \subseteq Names /\ bound \subseteq Changed /\ accused \subseteq Changed
        /\ spent \in BOOLEAN
    BY DEF TypeOK
  <2>3. \/ UNCHANGED <<records, changes, history, spent>>
        \/ /\ \E r : Push(r)
           /\ named' \subseteq named \cup b.body \cup FileMasked(b)
           /\ bound' = bound /\ accused' = accused /\ spent' \in {TRUE, spent}
    BY <1>1 DEF RunnerMismatch, SourceSetGate, CutOff, Dismiss, Hold, Mention
  <2> QED
    BY <2>1, <2>2, <2>3, WrittenPush
<1>2. ASSUME NEW b \in Blocks, Fold(b) PROVE TypeOK'
  <2>1. b.body \subseteq Names
    BY DEF Blocks
  <2>2. PICK fate \in UNION {[ds -> Fates] : ds \in SUBSET b.targets}, starved, flaky \in BOOLEAN :
          LET r == Verdict(b, fate, flaky, starved)
          IN /\ Push(r)
             /\ bound' = bound \cup Ours(Of(fate, "red"))
             /\ accused' = IF r.verdict = "hollow"
                             THEN accused \cup Ours(Of(fate, "blind")) ELSE accused
    BY <1>2 DEF Fold
  <2>3. \A f : Ours(Of(fate, f)) \subseteq Changed
    BY DEF Ours
  <2>4. bound' \subseteq Changed /\ accused' \subseteq Changed
    BY <2>2, <2>3 DEF TypeOK
  <2>5. named' \subseteq Names /\ spent' \in BOOLEAN
    BY <1>2, <2>1 DEF Fold, TypeOK
  <2>6. \E r : Push(r)
    BY <2>2
  <2> QED
    BY <2>4, <2>5, <2>6, WrittenPush
<1>3. CASE ClassifyChanges
  <2>1. /\ records' = records /\ spent' = spent /\ UNCHANGED history
        /\ changes' = [d \in Changed |-> Classified(d)] /\ records \in Seq(RecordType)
    BY <1>3 DEF ClassifyChanges, IInv
  <2>2. \A d \in Changed : changes'[d] = Classified(d)
    BY <2>1
  <2>3. TypeOK'
    BY <2>1, <2>2, RowRead DEF TypeOK
  <2> QED
    BY <2>3
<1>4. CASE UNCHANGED <<records, changes, history, spent>>
  BY <1>4 DEF TypeOK
<1> QED
  BY <1>1, <1>2, <1>3, <1>4 DEF Next, BlockStep, vars

\* Every record and row is one the report can word, and an unverifiable row has a
\* reason, however many functions and records there are.
THEOREM ChangesTypeCorrect == Spec => []TypeOK
<1>1. Init => TypeOK
  <2> SUFFICES ASSUME Init PROVE TypeOK
    OBVIOUS
  <2>1. records = <<>> /\ records \in Seq(RecordType) /\ Len(records) <= MaxRecords
    BY ChangesAssumption DEF Init
  <2> QED
    BY <2>1 DEF Init, TypeOK
<1> QED
  BY <1>1, WrittenStep, Invariance, PTL DEF Spec
=============================================================================
