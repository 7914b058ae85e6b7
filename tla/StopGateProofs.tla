--------------------------- MODULE StopGateProofs ---------------------------
(***************************************************************************)
(* Proofs about StopGate: type correctness for any sessions, and, for a    *)
(* working tree with a single session, that a block names tests flawed now *)
(* and that the probe's scope is the session's.  With two sessions neither *)
(* holds: one moves the baseline of the other, or edits under its probe.   *)
(***************************************************************************)
EXTENDS StopGate, TLAPS

\* The loop flag of a known harness is a Boolean.
LEMMA FlagTyped == harness \in Adapters => LoopFlag \in BOOLEAN
<1> SUFFICES ASSUME harness \in Adapters PROVE LoopFlag \in BOOLEAN
  OBVIOUS
<1>1. harness \in {"claude", "codex", "cursor", "copilot", "antigravity"}
  BY AdapterAssumption DEF HARNESSES
<1>2. CASE harness = "claude"
  BY <1>2 DEF LoopFlag, HARNESSES
<1>3. CASE harness = "codex"
  BY <1>3 DEF LoopFlag, HARNESSES
<1>4. CASE harness = "cursor"
  BY <1>4 DEF LoopFlag, HARNESSES
<1>5. CASE harness = "copilot"
  BY <1>5 DEF LoopFlag, HARNESSES
<1>6. CASE harness = "antigravity"
  BY <1>6 DEF LoopFlag, HARNESSES
<1> QED
  BY <1>1, <1>2, <1>3, <1>4, <1>5, <1>6

LEMMA InitTyped == Init => TypeOK
BY DEF Init, TypeOK, Trees, Keys, Payloads, Entry, NoEntry, NoPayload, NoKey, Running

LEMMA EmptyTyped == {} \in Trees /\ NoPayload \in Payloads
BY DEF NoPayload, Payloads, Trees

\* An entry is a memo file.
LEMMA EntryTyped ==
  ASSUME NEW k \in Keys \cup {NoKey}, NEW p \in Payloads
  PROVE  Entry(k, p) \in [key : Keys \cup {NoKey}, payload : Payloads]
BY DEF Entry

\* A write of the memo leaves a memo file in it.
LEMMA WrittenTyped ==
  ASSUME TypeOK, NEW k \in Keys, NEW p \in Payloads
  PROVE  \A m \in Written(Entry(k, p)) : m \in [key : Keys \cup {NoKey}, payload : Payloads]
<1> TAKE m \in Written(Entry(k, p))
<1>1. Entry(k, p).key = k
  BY DEF Entry
<1>2. m = Entry(k, p) \/ m = memo \/ m = Entry(NoKey, NoPayload) \/ m = Entry(k, NoPayload)
  BY <1>1 DEF Written, NoEntry
<1> QED
  BY <1>2, EmptyTyped, EntryTyped DEF TypeOK

\* An answer keeps the session's own variables typed.
LEMMA AnswerTyped ==
  ASSUME TypeOK, NEW s \in Sessions,
         NEW a \in {"nothing", "residue", "block", "killed", "ungated"}, Answer(s, a)
  PROVE  /\ pc' \in [Sessions -> {"off", "work", "done", "residue", "memo", "probe", "store",
                                  "verdict", "stamp", "reply"}]
         /\ key' \in [Sessions -> Keys \cup {NoKey}]
         /\ json' \in [Sessions -> Payloads]
         /\ said' \in [Sessions -> {"nothing", "residue", "block", "killed", "ungated"}]
         /\ blockedOn' \in [Sessions -> Keys \cup {NoKey}]
         /\ \A r \in Sessions : Running(r)' => key'[r] \in Keys
<1>1. \A r \in Sessions : Running(r)' => r # s /\ Running(r)
  BY DEF TypeOK, Answer, Goto, Running
<1> QED
  BY <1>1, EmptyTyped DEF TypeOK, Answer, Goto

LEMMA StepTyped == TypeOK /\ [Next]_vars => TypeOK'
<1> SUFFICES ASSUME TypeOK, [Next]_vars PROVE TypeOK'
  OBVIOUS
<1>0. LoopFlag \in BOOLEAN
  BY FlagTyped DEF TypeOK
<1>1. CASE UNCHANGED vars
  BY <1>1 DEF TypeOK, vars, repoVars, fixed, gateVars, historyVars, Running
<1>2. ASSUME NEW s \in Sessions, SessionStart(s) PROVE TypeOK'
  <2>1. baseline' = baseline \/ baseline' = <<head>>
    BY <1>2 DEF SessionStart
  <2>2. baseline' = <<>> \/ \E t \in Trees : baseline' = <<t>>
    BY <2>1 DEF TypeOK
  <2>3. /\ follows' \in [Sessions -> BOOLEAN]
        /\ start' \in [Sessions -> Trees]
        /\ blockedOn' \in [Sessions -> Keys \cup {NoKey}]
    <3>1. CASE UNCHANGED <<follows, historyVars>>
      BY <3>1 DEF TypeOK, historyVars
    <3>2. CASE /\ follows' = [follows EXCEPT ![s] = FALSE]
               /\ start' = [start EXCEPT ![s] = head]
               /\ blockedOn' = [blockedOn EXCEPT ![s] = NoKey]
      BY <3>2, EmptyTyped DEF TypeOK
    <3> QED
      BY <1>2, <3>1, <3>2 DEF SessionStart
  <2> QED
    BY <1>2, <2>2, <2>3 DEF TypeOK, SessionStart, Goto, Running, gateVars, fixed
<1>3. ASSUME NEW s \in Sessions, Edit(s) PROVE TypeOK'
  <2>1. tree' \in Trees
    BY <1>3 DEF TypeOK, Edit, Trees
  <2> QED
    BY <1>3, <2>1 DEF TypeOK, Edit, Running, gateVars, historyVars, fixed
<1>4. ASSUME NEW s \in Sessions, Commit(s) PROVE TypeOK'
  BY <1>4 DEF TypeOK, Commit, Running, gateVars, historyVars, fixed
<1>5. ASSUME NEW s \in Sessions, NextTurn(s) PROVE TypeOK'
  BY <1>5, EmptyTyped DEF TypeOK, NextTurn, Goto, Running, repoVars, fixed, gateVars, historyVars
<1>6. ASSUME NEW s \in Sessions, Ungated(s) PROVE TypeOK'
  BY <1>6, AnswerTyped DEF TypeOK, Ungated, repoVars, fixed
<1>7. ASSUME NEW s \in Sessions, Stop(s) PROVE TypeOK'
  <2>1. <<Baseline, tree>> \in Keys
    BY DEF TypeOK, Baseline, Keys
  <2> QED
    BY <1>7, <2>1 DEF TypeOK, Stop, Goto, Running, repoVars, fixed, historyVars
<1>8. ASSUME NEW s \in Sessions, SpeakResidue(s) PROVE TypeOK'
  BY <1>8, AnswerTyped DEF TypeOK, SpeakResidue, repoVars, fixed
<1>9. ASSUME NEW s \in Sessions, ReadMemo(s) PROVE TypeOK'
  BY <1>9, EmptyTyped DEF TypeOK, ReadMemo, Goto, Running, repoVars, fixed, historyVars
<1>10. ASSUME NEW s \in Sessions, Probe(s) PROVE TypeOK'
  <2>1. PICK f \in SUBSET (tree \ key[s][1]) :
          json' = [json EXCEPT ![s] = [found |-> f, whole |-> TRUE, blockedAt |-> FALSE]]
    BY <1>10 DEF Probe
  <2>2. [found |-> f, whole |-> TRUE, blockedAt |-> FALSE] \in Payloads
    BY DEF TypeOK, Payloads, Trees
  <2> QED
    BY <1>10, <2>1, <2>2 DEF TypeOK, Probe, Goto, Running, repoVars, fixed, historyVars
<1>11. ASSUME NEW s \in Sessions, ProbeFails(s) PROVE TypeOK'
  BY <1>11, AnswerTyped DEF TypeOK, ProbeFails, repoVars, fixed
<1>12. ASSUME NEW s \in Sessions, Store(s) PROVE TypeOK'
  <2>1. memo' \in [key : Keys \cup {NoKey}, payload : Payloads]
    BY <1>12, WrittenTyped DEF TypeOK, Store, Running
  <2> QED
    BY <1>12, <2>1 DEF TypeOK, Store, Goto, Running, repoVars, fixed, gateVars, historyVars
<1>13. ASSUME NEW s \in Sessions, Allow(s) PROVE TypeOK'
  BY <1>13, AnswerTyped DEF TypeOK, Allow, repoVars, fixed
<1>14. ASSUME NEW s \in Sessions, Accuse(s) PROVE TypeOK'
  BY <1>14 DEF TypeOK, Accuse, Goto, Running, repoVars, fixed, gateVars, historyVars
<1>15. ASSUME NEW s \in Sessions, Stamp(s) PROVE TypeOK'
  <2>1. [json[s] EXCEPT !.blockedAt = TRUE] \in Payloads
    BY DEF TypeOK, Payloads
  <2>2. memo' \in [key : Keys \cup {NoKey}, payload : Payloads]
    BY <1>15, <2>1, WrittenTyped DEF TypeOK, Stamp, Running
  <2> QED
    BY <1>15, <2>2 DEF TypeOK, Stamp, Goto, Running, repoVars, fixed, gateVars, historyVars
<1>16. ASSUME NEW s \in Sessions, Reply(s) PROVE TypeOK'
  BY <1>0, <1>16, AnswerTyped DEF TypeOK, Reply, repoVars, fixed
<1>17. ASSUME NEW s \in Sessions, Kill(s) PROVE TypeOK'
  <2>1. memo' \in [key : Keys \cup {NoKey}, payload : Payloads]
    <3>1. NoEntry \in [key : Keys \cup {NoKey}, payload : Payloads]
      BY EmptyTyped DEF NoEntry, Entry
    <3> QED
      BY <1>17, <3>1 DEF TypeOK, Kill
  <2> QED
    BY <1>17, <2>1, AnswerTyped DEF TypeOK, Kill, repoVars, fixed
<1> QED
  BY <1>1, <1>2, <1>3, <1>4, <1>5, <1>6, <1>7, <1>8, <1>9, <1>10, <1>11, <1>12, <1>13,
     <1>14, <1>15, <1>16, <1>17 DEF Next, Agent, Gate

\* Every reachable state of the gate is well typed, however many sessions share it.
THEOREM GateTypeCorrect == Spec => []TypeOK
BY InitTyped, StepTyped, PTL DEF Spec

-----------------------------------------------------------------------------
(***************************************************************************)
(* One session.  The tree cannot change while its gate runs, so the key    *)
(* stays the diff of the tree, and what the probe finds in the tree is     *)
(* what the memo may say of that key.                                      *)
(***************************************************************************)
OneSession == \A a, b \in Sessions : a = b

\* A payload that answers the diff k.
Answers(p, k) == p.found \subseteq k[2] \ k[1]

MemoSound == memo.key # NoKey => Answers(memo.payload, memo.key)
KeyCurrent == \A s \in Sessions : Running(s) => key[s] = <<Baseline, tree>>
JsonSound ==
  \A s \in Sessions : pc[s] \in {"store", "verdict", "stamp", "reply"} => Answers(json[s], key[s])
Accused == \A s \in Sessions : pc[s] \in {"stamp", "reply"} => json[s].found # {}
BaselineKept == \A s \in Sessions : Hooked /\ pc[s] # "off" => baseline = <<start[s]>>

SoloInv == MemoSound /\ KeyCurrent /\ JsonSound /\ Accused /\ BaselineKept

LEMMA InitSolo == Init => SoloInv
BY DEF Init, SoloInv, MemoSound, KeyCurrent, JsonSound, Accused, BaselineKept, Answers,
       NoEntry, Entry, NoKey, Running

\* A write of the memo stores the payload under its key, an empty one, or nothing.
LEMMA WrittenSound ==
  ASSUME SoloInv, NEW k, NEW p, Answers(p, k), memo' \in Written(Entry(k, p))
  PROVE  MemoSound'
<1>1. Entry(k, p).key = k /\ Entry(k, p).payload = p
  BY DEF Entry
<1>2. memo' = Entry(k, p) \/ memo' = memo \/ memo' = NoEntry \/ memo' = Entry(k, NoPayload)
  BY <1>1 DEF Written
<1>3. CASE memo' = memo
  BY <1>3 DEF SoloInv, MemoSound, Answers
<1>4. CASE memo' = NoEntry \/ memo' = Entry(k, NoPayload)
  BY <1>4 DEF MemoSound, Answers, NoEntry, Entry, NoPayload, NoKey
<1>5. CASE memo' = Entry(k, p)
  BY <1>1, <1>5 DEF MemoSound, Answers
<1> QED
  BY <1>2, <1>3, <1>4, <1>5

\* Every step of a lone session preserves the invariant.
LEMMA SoloStep == OneSession /\ TypeOK /\ SoloInv /\ [Next]_vars => SoloInv'
<1> SUFFICES ASSUME OneSession, TypeOK, SoloInv, [Next]_vars PROVE SoloInv'
  OBVIOUS
<1> USE DEF SoloInv, MemoSound, KeyCurrent, JsonSound, Accused, BaselineKept, Running, Hooked
<1>1. CASE UNCHANGED vars
  BY <1>1 DEF vars, repoVars, fixed, gateVars, historyVars, Baseline, Answers
<1>2. ASSUME NEW s \in Sessions, SessionStart(s) PROVE SoloInv'
  <2>1. \A r \in Sessions : r = s
    BY DEF OneSession
  <2>2. ~Running(s)'
    BY <1>2 DEF SessionStart, Goto, TypeOK
  <2>3. Hooked => baseline' = <<start'[s]>>
    BY <1>2 DEF SessionStart, Records, TypeOK, historyVars, Hooked, fixed
  <2> QED
    BY <1>2, <2>1, <2>2, <2>3 DEF SessionStart, Answers, Hooked, fixed
<1>3. ASSUME NEW s \in Sessions, Edit(s) \/ Commit(s) PROVE SoloInv'
  <2>1. \A r \in Sessions : r = s
    BY DEF OneSession
  <2> QED
    BY <1>3, <2>1 DEF Edit, Commit, gateVars, historyVars, Answers, fixed
<1>4. ASSUME NEW s \in Sessions, NextTurn(s) PROVE SoloInv'
  <2>1. \A r \in Sessions : r = s
    BY DEF OneSession
  <2> QED
    BY <1>4, <2>1 DEF NextTurn, Goto, repoVars, fixed, gateVars, historyVars, Answers, TypeOK
<1>5. ASSUME NEW s \in Sessions, NEW a, Answer(s, a), UNCHANGED <<repoVars, start>>,
             pc[s] # "off", memo' = memo \/ memo' = NoEntry
      PROVE  SoloInv'
  <2>1. \A r \in Sessions : r = s
    BY DEF OneSession
  <2>2. pc'[s] \in {"work", "done"}
    BY <1>5 DEF Answer, Goto, TypeOK
  <2>3. MemoSound'
    BY <1>5 DEF Answers, NoEntry, Entry, NoKey
  <2> QED
    BY <1>5, <2>1, <2>2, <2>3 DEF repoVars, fixed
<1>6. ASSUME NEW s \in Sessions,
             Ungated(s) \/ SpeakResidue(s) \/ ProbeFails(s) \/ Allow(s) \/ Reply(s) \/ Kill(s)
      PROVE  SoloInv'
  BY <1>5, <1>6 DEF Ungated, SpeakResidue, ProbeFails, Allow, Reply, Kill
<1>7. ASSUME NEW s \in Sessions, Stop(s) PROVE SoloInv'
  <2>1. \A r \in Sessions : r = s
    BY DEF OneSession
  <2>2. pc'[s] \in {"residue", "memo"} /\ key'[s] = <<Baseline, tree>> /\ Baseline' = Baseline
    BY <1>7 DEF Stop, Goto, TypeOK, repoVars, fixed, Baseline
  <2> QED
    BY <1>7, <2>1, <2>2 DEF Stop, repoVars, fixed, historyVars, Answers
<1>8. ASSUME NEW s \in Sessions, ReadMemo(s) PROVE SoloInv'
  <2>1. \A r \in Sessions : r = s
    BY DEF OneSession
  <2>2. pc'[s] \in {"verdict", "probe"} /\ Baseline' = Baseline
    BY <1>8 DEF ReadMemo, Goto, TypeOK, repoVars, fixed, Baseline
  <2>3. pc'[s] = "verdict" => memo.key = key[s] /\ json'[s] = memo.payload
    BY <1>8 DEF ReadMemo, Goto, TypeOK, Hit
  <2>4. key[s] # NoKey
    BY <1>8 DEF ReadMemo, NoKey
  <2> QED
    BY <1>8, <2>1, <2>2, <2>3, <2>4 DEF ReadMemo, repoVars, fixed, historyVars, Answers
<1>9. ASSUME NEW s \in Sessions, Probe(s) PROVE SoloInv'
  <2>1. \A r \in Sessions : r = s
    BY DEF OneSession
  <2>2. pc'[s] = "store" /\ Baseline' = Baseline
    BY <1>9 DEF Probe, Goto, TypeOK, repoVars, fixed, Baseline
  <2>3. json'[s].found \subseteq tree \ key[s][1]
    BY <1>9 DEF Probe, TypeOK
  <2>4. key[s] = <<Baseline, tree>>
    BY <1>9 DEF Probe
  <2> QED
    BY <1>9, <2>1, <2>2, <2>3, <2>4 DEF Probe, repoVars, fixed, historyVars, Answers
<1>10. ASSUME NEW s \in Sessions, Store(s) PROVE SoloInv'
  <2>1. \A r \in Sessions : r = s
    BY DEF OneSession
  <2>2. pc'[s] = "verdict" /\ Baseline' = Baseline
    BY <1>10 DEF Store, Goto, TypeOK, repoVars, fixed, Baseline
  <2>3. MemoSound'
    BY <1>10, WrittenSound DEF Store
  <2> QED
    BY <1>10, <2>1, <2>2, <2>3 DEF Store, repoVars, fixed, gateVars, historyVars, Answers
<1>11. ASSUME NEW s \in Sessions, Accuse(s) PROVE SoloInv'
  <2>1. \A r \in Sessions : r = s
    BY DEF OneSession
  <2>2. pc'[s] \in {"stamp", "reply"} /\ Baseline' = Baseline
    BY <1>11 DEF Accuse, Goto, TypeOK, repoVars, fixed, Baseline
  <2> QED
    BY <1>11, <2>1, <2>2 DEF Accuse, Accusing, repoVars, fixed, gateVars, historyVars, Answers
<1>12. ASSUME NEW s \in Sessions, Stamp(s) PROVE SoloInv'
  <2>1. \A r \in Sessions : r = s
    BY DEF OneSession
  <2>2. pc'[s] = "reply" /\ Baseline' = Baseline
    BY <1>12 DEF Stamp, Goto, TypeOK, repoVars, fixed, Baseline
  <2>3. [json[s] EXCEPT !.blockedAt = TRUE].found = json[s].found
    BY DEF TypeOK, Payloads
  <2>4. Answers([json[s] EXCEPT !.blockedAt = TRUE], key[s])
    BY <1>12, <2>3 DEF Stamp, Answers
  <2>5. MemoSound'
    BY <1>12, <2>4, WrittenSound DEF Stamp
  <2> QED
    BY <1>12, <2>1, <2>2, <2>5 DEF Stamp, repoVars, fixed, gateVars, historyVars, Answers
<1> QED
  BY <1>1, <1>2, <1>3, <1>4, <1>6, <1>7, <1>8, <1>9, <1>10, <1>11, <1>12 DEF Next, Agent, Gate

LEMMA SoloInvariant == OneSession => (Spec => [](TypeOK /\ SoloInv))
<1> SUFFICES ASSUME OneSession PROVE Spec => [](TypeOK /\ SoloInv)
  OBVIOUS
<1> QED
  BY InitTyped, StepTyped, InitSolo, SoloStep, PTL DEF Spec

\* With one session in the tree a block names tests that are flawed in it now and
\* that the session's baseline did not have, from the memo or from a fresh probe.
THEOREM BlockTheorem == OneSession => (Spec => []BlockIsCurrent)
<1> SUFFICES ASSUME OneSession PROVE Spec => []BlockIsCurrent
  OBVIOUS
<1>1. TypeOK /\ SoloInv => BlockIsCurrent
  BY DEF SoloInv, KeyCurrent, JsonSound, Accused, BlockIsCurrent, Answers, Running
<1> QED
  BY <1>1, SoloInvariant, PTL

\* With one session in the tree the gate's scope is what changed since that session
\* started, through its commits and compactions.
THEOREM ScopeTheorem == OneSession => (Spec => []SessionScope)
<1> SUFFICES ASSUME OneSession PROVE Spec => []SessionScope
  OBVIOUS
<1>1. TypeOK /\ SoloInv => SessionScope
  BY DEF SoloInv, KeyCurrent, BaselineKept, SessionScope, Baseline, Running
<1> QED
  BY <1>1, SoloInvariant, PTL

-----------------------------------------------------------------------------
(***************************************************************************)
(* The loop guards, for one session whose memo can be written: between two *)
(* of its gates the memo keeps what the last one blocked on.               *)
(***************************************************************************)
\* A gate that has a payload has it from the memo, or has put it there.
Stored(s) ==
  /\ pc[s] \in {"verdict", "stamp"} => memo.key = key[s] /\ memo.payload = json[s]
  /\ pc[s] = "stamp" => Accusing(s)
  /\ pc[s] = "reply" => /\ memo.key = key[s] /\ memo.payload.whole /\ memo.payload.found # {}
                        /\ OneShot => memo.payload.blockedAt

\* A one-shot block has stamped the memo; a gate that goes on past the lookup
\* is about another diff, or has read the stamp.
Blocked(s) ==
  OneShot /\ said[s] = "block" =>
    /\ pc[s] \in {"off", "work", "done", "residue", "memo"} /\ blockedOn[s] # NoKey =>
         memo.key = blockedOn[s] /\ memo.payload.whole /\ memo.payload.blockedAt
    /\ pc[s] \in {"probe", "store", "stamp", "reply"} => key[s] # blockedOn[s]
    /\ pc[s] = "verdict" => key[s] # blockedOn[s] \/ (json[s].whole /\ json[s].blockedAt)

\* A stop that follows a block does not probe, so the memo still has its payload.
Following(s) ==
  follows[s] =>
    /\ LoopFlag /\ pc[s] \in {"work", "residue", "done"}
    /\ Residue => /\ memo.key = blockedOn[s] /\ memo.payload.whole /\ memo.payload.found # {}
                  /\ pc[s] = "done" /\ said[s] = "nothing" => blockedOn[s] # <<Baseline, tree>>

LoopInv == disk = FALSE => \A s \in Sessions : Stored(s) /\ Blocked(s) /\ Following(s)

LEMMA InitLoop == Init => LoopInv
BY DEF Init, LoopInv, Stored, Blocked, Following

\* On a disk that writes, a write leaves the entry.
LEMMA WrittenWhole ==
  ASSUME disk = FALSE, NEW k, NEW p, memo' \in Written(Entry(k, p))
  PROVE  memo'.key = k /\ memo'.payload = p
BY DEF Written, Entry

LEMMA LoopStep == OneSession /\ TypeOK /\ SoloInv /\ LoopInv /\ [Next]_vars => LoopInv'
<1> SUFFICES ASSUME OneSession, TypeOK, SoloInv, LoopInv, [Next]_vars, disk = FALSE
             PROVE  LoopInv'
  BY DEF LoopInv, Next, vars, repoVars, fixed, Agent, Gate, SessionStart, Edit, Commit, NextTurn,
         Ungated, Stop, SpeakResidue, ReadMemo, Probe, ProbeFails, Store, Allow, Accuse, Stamp,
         Reply, Kill
<1>1. CASE UNCHANGED vars
  BY <1>1 DEF vars, repoVars, fixed, gateVars, historyVars, LoopInv, Stored, Blocked, Following,
     Accusing, Baseline, OneShot, LoopFlag, Residue
<1>2. ASSUME NEW s \in Sessions,
             Agent(s) \/ Ungated(s) \/ Stop(s) \/ Gate(s) \/ Kill(s)
      PROVE  LoopInv'
  <2> USE DEF repoVars, fixed, gateVars, historyVars
  <2>a. \A r \in Sessions : r = s
    BY DEF OneSession
  <2>b. Stored(s) /\ Blocked(s) /\ Following(s)
    BY DEF LoopInv
  <2>c. harness' = harness
    BY <1>2 DEF Agent, Gate, SessionStart, Edit, Commit, NextTurn, Ungated, Stop, SpeakResidue,
       ReadMemo, Probe, ProbeFails, Store, Allow, Accuse, Stamp, Reply, Kill
  <2>d. OneShot' = OneShot /\ LoopFlag' = LoopFlag /\ Residue' = Residue
    BY <2>c DEF OneShot, LoopFlag, Residue
  <2>e. SUFFICES Stored(s)' /\ Blocked(s)' /\ Following(s)'
    BY <2>a DEF LoopInv
  <2>f. pc[s] \in {"off", "work", "done", "residue", "memo", "probe", "store", "verdict", "stamp",
                   "reply"}
    BY DEF TypeOK
  <2>1. CASE SessionStart(s)
    <3>1. pc'[s] = "work" /\ UNCHANGED <<memo, key, json, said>>
      BY <2>1 DEF SessionStart, Goto, TypeOK
    <3>2. CASE follows'[s] = FALSE /\ blockedOn'[s] = NoKey
      BY <3>1, <3>2 DEF Stored, Blocked, Following
    <3>3. CASE pc[s] = "work" /\ UNCHANGED <<follows, blockedOn>>
      BY <2>b, <2>d, <3>1, <3>3 DEF Stored, Blocked, Following
    <3> QED
      BY <2>1, <3>2, <3>3 DEF SessionStart, TypeOK
  <2>2. CASE Edit(s) \/ Commit(s)
    <3>1. pc[s] = "work" /\ UNCHANGED <<pc, memo, key, json, said, follows, blockedOn>>
      BY <2>2 DEF Edit, Commit
    <3> QED
      BY <2>b, <2>d, <3>1 DEF Stored, Blocked, Following
  <2>3. CASE NextTurn(s)
    <3>1. /\ pc[s] = "done" /\ pc'[s] = "work" /\ follows'[s] = FALSE
          /\ UNCHANGED <<memo, key, json, said, blockedOn>>
      BY <2>3 DEF NextTurn, Goto, TypeOK
    <3> QED
      BY <2>b, <2>d, <3>1 DEF Stored, Blocked, Following
  <2>4. CASE Stop(s)
    <3>1. /\ pc[s] = "work" /\ pc'[s] = IF LoopFlag /\ follows[s] THEN "residue" ELSE "memo"
          /\ UNCHANGED <<memo, said, blockedOn, follows>>
      BY <2>4 DEF Stop, Goto, TypeOK, LoopActive
    <3> QED
      BY <2>b, <2>d, <3>1 DEF Stored, Blocked, Following
  <2>5. CASE Ungated(s) \/ Kill(s)
    <3>1. /\ pc'[s] = "done" /\ said'[s] \in {"ungated", "killed"} /\ UNCHANGED follows
          /\ blockedOn'[s] = blockedOn[s]
      BY <2>5 DEF Ungated, Kill, Answer, Goto, TypeOK
    <3>2. follows[s] => memo' = memo
      BY <2>5, <2>b DEF Ungated, Kill, Following
    <3> QED
      BY <2>b, <2>d, <3>1, <3>2 DEF Stored, Blocked, Following
  <2>6. CASE SpeakResidue(s)
    <3>1. /\ pc[s] = "residue" /\ pc'[s] = "done" /\ said'[s] \in {"residue", "nothing"}
          /\ blockedOn'[s] = blockedOn[s] /\ UNCHANGED <<memo, follows, tree, head, baseline>>
      BY <2>6 DEF SpeakResidue, Answer, Goto, TypeOK
    <3>2. key[s] = <<Baseline, tree>> /\ Baseline' = Baseline
      BY <3>1 DEF SoloInv, KeyCurrent, Running, Baseline
    <3>3. follows[s] /\ Residue /\ said'[s] = "nothing" => memo.key # key[s]
      BY <2>6, <2>b DEF SpeakResidue, Following, Hit, Answer, TypeOK
    <3> QED
      BY <2>b, <2>d, <3>1, <3>2, <3>3 DEF Stored, Blocked, Following
  <2>7. CASE ReadMemo(s)
    <3>1. /\ pc[s] = "memo" /\ pc'[s] = IF memo.key = key[s] THEN "verdict" ELSE "probe"
          /\ memo.key = key[s] => json'[s] = memo.payload
          /\ UNCHANGED <<memo, key, said, blockedOn, follows>>
      BY <2>7 DEF ReadMemo, Goto, TypeOK, Hit
    <3>2. key[s] # NoKey
      BY <3>1 DEF SoloInv, KeyCurrent, Running, NoKey
    <3> QED
      BY <2>b, <2>d, <3>1, <3>2 DEF Stored, Blocked, Following
  <2>8. CASE Probe(s)
    <3>1. /\ pc[s] = "probe" /\ pc'[s] = "store"
          /\ UNCHANGED <<memo, key, said, blockedOn, follows>>
      BY <2>8 DEF Probe, Goto, TypeOK
    <3> QED
      BY <2>b, <2>d, <3>1 DEF Stored, Blocked, Following
  <2>9. CASE ProbeFails(s) \/ Allow(s)
    <3>1. /\ pc[s] \in {"probe", "verdict"} /\ pc'[s] = "done" /\ said'[s] = "nothing"
          /\ UNCHANGED <<memo, follows>>
      BY <2>9 DEF ProbeFails, Allow, Answer, Goto, TypeOK
    <3> QED
      BY <2>b, <2>d, <3>1 DEF Stored, Blocked, Following
  <2>10. CASE Store(s)
    <3>1. /\ pc[s] = "store" /\ pc'[s] = "verdict" /\ memo'.key = key[s] /\ memo'.payload = json[s]
          /\ UNCHANGED <<key, json, said, blockedOn, follows>>
      BY <2>10, WrittenWhole DEF Store, Goto, TypeOK
    <3> QED
      BY <2>b, <2>d, <3>1 DEF Stored, Blocked, Following
  <2>11. CASE Accuse(s)
    <3>1. /\ pc[s] = "verdict" /\ pc'[s] = IF OneShot THEN "stamp" ELSE "reply"
          /\ Accusing(s) /\ ~AlreadyBlocked(s)
          /\ UNCHANGED <<memo, key, json, said, blockedOn, follows>>
      BY <2>11 DEF Accuse, Goto, TypeOK
    <3>2. OneShot /\ said[s] = "block" => key[s] # blockedOn[s]
      BY <2>b, <3>1 DEF Blocked, AlreadyBlocked
    <3> QED
      BY <2>b, <2>d, <3>1, <3>2 DEF Stored, Blocked, Following, Accusing
  <2>12. CASE Stamp(s)
    <3>1. /\ pc[s] = "stamp" /\ pc'[s] = "reply" /\ memo'.key = key[s]
          /\ memo'.payload = [json[s] EXCEPT !.blockedAt = TRUE]
          /\ UNCHANGED <<key, json, said, blockedOn, follows>>
      BY <2>12, WrittenWhole DEF Stamp, Goto, TypeOK
    <3>2. json[s] \in Payloads
      BY DEF TypeOK
    <3>3. memo'.payload.whole = json[s].whole /\ memo'.payload.found = json[s].found
          /\ memo'.payload.blockedAt
      BY <3>1, <3>2 DEF Payloads
    <3> QED
      BY <2>b, <2>d, <3>1, <3>3 DEF Stored, Blocked, Following, Accusing
  <2>13. CASE Reply(s)
    <3>1. /\ pc[s] = "reply" /\ pc'[s] = "work" /\ follows'[s] = LoopFlag /\ UNCHANGED memo
          /\ OneShot \/ Residue => blockedOn'[s] = key[s]
      BY <2>13 DEF Reply, Answer, Goto, TypeOK
    <3> QED
      BY <2>b, <2>d, <3>1 DEF Stored, Blocked, Following
  <2> QED
    BY <1>2, <2>1, <2>2, <2>3, <2>4, <2>5, <2>6, <2>7, <2>8, <2>9, <2>10, <2>11, <2>12, <2>13
       DEF Agent, Gate
<1> QED
  BY <1>1, <1>2 DEF Next

LEMMA LoopInvariant == OneSession => (Spec => []LoopInv)
<1> SUFFICES ASSUME OneSession PROVE Spec => []LoopInv
  OBVIOUS
<1> QED
  BY SoloInvariant, InitLoop, LoopStep, PTL DEF Spec

\* With one session in the tree and a memo that can be written, a one-shot harness is
\* never blocked twice in a row on one diff, however its gates are killed.
THEOREM NoRepeatTheorem == OneSession => (Spec => []NoRepeat)
<1> SUFFICES ASSUME OneSession PROVE Spec => []NoRepeat
  OBVIOUS
<1>1. LoopInv => NoRepeat
  BY DEF LoopInv, Blocked, NoRepeat
<1> QED
  BY <1>1, LoopInvariant, PTL

\* With one session in the tree and a memo that can be written, an agent that stops
\* again on the diff it was blocked on hears of what is left.
THEOREM ResidueTheorem == OneSession => (Spec => []ResidueSpoken)
<1> SUFFICES ASSUME OneSession PROVE Spec => []ResidueSpoken
  OBVIOUS
<1>1. LoopInv => ResidueSpoken
  BY DEF LoopInv, Following, ResidueSpoken
<1> QED
  BY <1>1, LoopInvariant, PTL
=============================================================================
