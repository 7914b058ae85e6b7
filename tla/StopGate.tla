------------------------------ MODULE StopGate ------------------------------
(***************************************************************************)
(* The stop gate of mutation/gate.mjs and the session-start hook: agent    *)
(* sessions share a working tree, its session baseline and a one-entry     *)
(* memo; each stop runs the gate, which answers from the memo or probes.   *)
(*                                                                         *)
(* A tree is the set of flawed tests in it (a flawed test is hollow, or    *)
(* already failing): the agent adds and repairs tests, everything else in  *)
(* the tree is left out.  The diff against a commit then shows the flawed  *)
(* tests that the commit did not have, and two diffs are equal only if     *)
(* both trees are.  The probe (see ProbeEngine) may miss a flawed test, a  *)
(* budget being short, and never flags a sound one.                        *)
(***************************************************************************)
EXTENDS FiniteSets, Sequences

CONSTANTS
  Sessions,  \* agent sessions working in the tree
  Tests,     \* tests that may be flawed
  Adapters,  \* the harnesses they may run in, by name
  Disks      \* whether writes of the memo may fail or be cut short

\* loopFlag: the stop event says whether this stop follows a block.  oneShot:
\* memoOneShot.  residue: channels.residue.  hooked: it has a session-start hook.
HARNESSES == [
  claude      |-> [loopFlag |-> TRUE,  oneShot |-> FALSE, residue |-> TRUE,  hooked |-> TRUE],
  codex       |-> [loopFlag |-> TRUE,  oneShot |-> FALSE, residue |-> FALSE, hooked |-> TRUE],
  cursor      |-> [loopFlag |-> TRUE,  oneShot |-> TRUE,  residue |-> FALSE, hooked |-> FALSE],
  copilot     |-> [loopFlag |-> FALSE, oneShot |-> TRUE,  residue |-> FALSE, hooked |-> FALSE],
  antigravity |-> [loopFlag |-> FALSE, oneShot |-> TRUE,  residue |-> FALSE, hooked |-> FALSE]]

ASSUME AdapterAssumption == Adapters \subseteq DOMAIN HARNESSES /\ Disks \subseteq BOOLEAN

Trees == SUBSET Tests
Keys == Trees \X Trees
Payloads == [found : Trees, whole : BOOLEAN, blockedAt : BOOLEAN]
NoPayload == [found |-> {}, whole |-> FALSE, blockedAt |-> FALSE]
NoKey == <<>>

VARIABLES
  harness,     \* the harness of the sessions
  disk,        \* whether its memo writes may fail
  tree, head,  \* the working tree, and the tree of HEAD
  baseline,    \* <git-dir>/gutcheck-baseline: <<>>, or <<the tree of that commit>>
  memo,        \* the memo file: its first line and the payload after it
  pc,          \* the step of each session, and of its gate while it is stopped
  follows,     \* stop_hook_active, loop_count > 0
  key, json,   \* memoKey (baseline and tree) and the payload of the running gate
  said,        \* what the last gate answered
  start,       \* history: HEAD when the session started
  blockedOn    \* history: the diff of the session's last block, where it matters

fixed == <<harness, disk>>
repoVars == <<fixed, tree, head, baseline>>
gateVars == <<key, json>>
historyVars == <<start, blockedOn>>
vars == <<repoVars, memo, pc, follows, gateVars, said, historyVars>>

LoopFlag == HARNESSES[harness].loopFlag
OneShot == HARNESSES[harness].oneShot
Residue == HARNESSES[harness].residue
Hooked == HARNESSES[harness].hooked

Entry(k, p) == [key |-> k, payload |-> p]
NoEntry == Entry(NoKey, NoPayload)

Init ==
  /\ harness \in Adapters /\ disk \in Disks
  /\ tree = {} /\ head = {} /\ baseline = <<>>
  /\ memo = NoEntry
  /\ pc = [s \in Sessions |-> "off"]
  /\ follows = [s \in Sessions |-> FALSE]
  /\ key = [s \in Sessions |-> NoKey]
  /\ json = [s \in Sessions |-> NoPayload]
  /\ said = [s \in Sessions |-> "nothing"]
  /\ start = [s \in Sessions |-> {}]
  /\ blockedOn = [s \in Sessions |-> NoKey]

Goto(s, label) == pc' = [pc EXCEPT ![s] = label]

-----------------------------------------------------------------------------
(***************************************************************************)
(* The agent and its harness.                                              *)
(***************************************************************************)
\* Mutant: compaction moves the baseline too.
RecordAlways(source) == Hooked
Records(source) == Hooked /\ source # "compact"

\* hooks/session-start, at startup or clear, which begins a session, and in mid-task
\* at a compaction.
SessionStart(s) ==
  /\ \/ /\ pc[s] \in {"off", "done"}
        /\ baseline' = IF Records("startup") THEN <<head>> ELSE baseline
        /\ follows' = [follows EXCEPT ![s] = FALSE]
        /\ start' = [start EXCEPT ![s] = head]
        /\ blockedOn' = [blockedOn EXCEPT ![s] = NoKey]
     \/ /\ pc[s] = "work"
        /\ baseline' = IF Records("compact") THEN <<head>> ELSE baseline
        /\ UNCHANGED <<follows, historyVars>>
  /\ Goto(s, "work")
  /\ UNCHANGED <<fixed, tree, head, memo, gateVars, said>>

\* The agent writes a flawed test or repairs one.
Edit(s) ==
  /\ pc[s] = "work"
  /\ \E t \in Tests : tree' = IF t \in tree THEN tree \ {t} ELSE tree \cup {t}
  /\ UNCHANGED <<fixed, head, baseline, memo, pc, follows, gateVars, said, historyVars>>

Commit(s) ==
  /\ pc[s] = "work" /\ head # tree
  /\ head' = tree
  /\ UNCHANGED <<fixed, tree, baseline, memo, pc, follows, gateVars, said, historyVars>>

\* The user's next prompt.
NextTurn(s) ==
  /\ pc[s] = "done"
  /\ Goto(s, "work")
  /\ follows' = [follows EXCEPT ![s] = FALSE]
  /\ UNCHANGED <<repoVars, memo, gateVars, said, historyVars>>

-----------------------------------------------------------------------------
(***************************************************************************)
(* runGate.                                                                *)
(***************************************************************************)
Baseline == IF baseline = <<>> THEN head ELSE baseline[1]

\* The gate answers: the stop is allowed unless the answer is a block.
Answer(s, a) ==
  /\ said' = [said EXCEPT ![s] = a]
  /\ Goto(s, IF a = "block" THEN "work" ELSE "done")
  /\ key' = [key EXCEPT ![s] = NoKey]
  /\ json' = [json EXCEPT ![s] = NoPayload]
  /\ blockedOn' = [blockedOn EXCEPT ![s] = IF a = "block" /\ (OneShot \/ Residue) THEN key[s] ELSE @]

\* An event that does not gate, an opt-out, or no git repository.
Ungated(s) ==
  /\ pc[s] = "work" /\ Answer(s, "ungated")
  /\ UNCHANGED <<repoVars, memo, follows, start>>

\* Mutant: the loop flag is ignored.
NeverFollows(s) == FALSE
LoopActive(s) == LoopFlag /\ follows[s]

\* The agent stops: the event is parsed and the memo key computed.
Stop(s) ==
  /\ pc[s] = "work"
  /\ key' = [key EXCEPT ![s] = <<Baseline, tree>>]
  /\ Goto(s, IF LoopActive(s) THEN "residue" ELSE "memo")
  /\ UNCHANGED <<repoVars, memo, follows, json, said, historyVars>>

\* Mutants: the first line is not compared; every lookup misses.
AnyEntry(s) == memo.key # NoKey
NoEntryHits(s) == FALSE
Hit(s) == memo.key = key[s]

\* The stop after a block is allowed, with a word about what the memo still holds.
SpeakResidue(s) ==
  /\ pc[s] = "residue"
  /\ IF Hit(s) /\ memo.payload.whole /\ memo.payload.found # {} /\ Residue
     THEN Answer(s, "residue") ELSE Answer(s, "nothing")
  /\ UNCHANGED <<repoVars, memo, follows, start>>

ReadMemo(s) ==
  /\ pc[s] = "memo"
  /\ json' = [json EXCEPT ![s] = IF Hit(s) THEN memo.payload ELSE NoPayload]
  /\ Goto(s, IF Hit(s) THEN "verdict" ELSE "probe")
  /\ UNCHANGED <<repoVars, memo, follows, key, said, historyVars>>

\* The probe copies the tree as it is now, and scopes to the key's baseline.
Probe(s) ==
  /\ pc[s] = "probe"
  /\ \E f \in SUBSET (tree \ key[s][1]) :
       json' = [json EXCEPT ![s] = [found |-> f, whole |-> TRUE, blockedAt |-> FALSE]]
  /\ Goto(s, "store")
  /\ UNCHANGED <<repoVars, memo, follows, key, said, historyVars>>

\* The probe is refused (another one holds the lock), or prints nothing usable:
\* nothing is stored and the stop is allowed.
ProbeFails(s) ==
  /\ pc[s] = "probe" /\ Answer(s, "nothing")
  /\ UNCHANGED <<repoVars, memo, follows, start>>

\* writeMemo: truncate and write, errors swallowed.  A file cut short within its
\* first line, or just after it, is no entry; one cut later holds a broken payload.
Written(e) ==
  IF disk THEN {e, memo, NoEntry, Entry(e.key, NoPayload)} ELSE {e}

Store(s) ==
  /\ pc[s] = "store"
  /\ memo' \in Written(Entry(key[s], json[s]))
  /\ Goto(s, "verdict")
  /\ UNCHANGED <<repoVars, follows, gateVars, said, historyVars>>

\* Mutant: the payload's blockedAt is not consulted.
NeverBlocked(s) == FALSE
AlreadyBlocked(s) == OneShot /\ json[s].whole /\ json[s].blockedAt

Accusing(s) == json[s].whole /\ json[s].found # {}

\* The memo one-shot guard, a payload that does not parse, or nothing found.
Allow(s) ==
  /\ pc[s] = "verdict" /\ (AlreadyBlocked(s) \/ ~Accusing(s))
  /\ Answer(s, "nothing")
  /\ UNCHANGED <<repoVars, memo, follows, start>>

Accuse(s) ==
  /\ pc[s] = "verdict" /\ ~AlreadyBlocked(s) /\ Accusing(s)
  /\ Goto(s, IF OneShot THEN "stamp" ELSE "reply")
  /\ UNCHANGED <<repoVars, memo, follows, gateVars, said, historyVars>>

Stamp(s) ==
  /\ pc[s] = "stamp"
  /\ memo' \in Written(Entry(key[s], [json[s] EXCEPT !.blockedAt = TRUE]))
  /\ Goto(s, "reply")
  /\ UNCHANGED <<repoVars, follows, gateVars, said, historyVars>>

\* The block reaches the harness, which gives the agent another attempt.
Reply(s) ==
  /\ pc[s] = "reply" /\ Answer(s, "block")
  /\ follows' = [follows EXCEPT ![s] = LoopFlag]
  /\ UNCHANGED <<repoVars, memo, start>>

\* The harness kills the hook at its timeout, perhaps between the truncation and
\* the write of the memo.
Running(s) == pc[s] \in {"residue", "memo", "probe", "store", "verdict", "stamp", "reply"}
Kill(s) ==
  /\ Running(s) /\ Answer(s, "killed")
  /\ \/ memo' = memo
     \/ pc[s] \in {"store", "stamp"} /\ memo' = NoEntry
  /\ UNCHANGED <<repoVars, follows, start>>

Agent(s) == SessionStart(s) \/ Edit(s) \/ Commit(s) \/ NextTurn(s)
Gate(s) == \/ SpeakResidue(s) \/ ReadMemo(s) \/ Probe(s) \/ ProbeFails(s) \/ Store(s)
           \/ Allow(s) \/ Accuse(s) \/ Stamp(s) \/ Reply(s)

Next == \E s \in Sessions : Agent(s) \/ Ungated(s) \/ Stop(s) \/ Gate(s) \/ Kill(s)

Spec == Init /\ [][Next]_vars

\* An agent stops sooner or later, and the gate, whose every call is bounded by a
\* timeout, comes to an answer.
FairSpec == /\ Spec
            /\ \A s \in Sessions : WF_vars(Ungated(s) \/ Stop(s)) /\ WF_vars(Gate(s))

-----------------------------------------------------------------------------
(***************************************************************************)
(* Properties.                                                             *)
(***************************************************************************)
\* Type invariant.
TypeOK ==
  /\ harness \in Adapters /\ disk \in Disks
  /\ tree \in Trees /\ head \in Trees
  /\ baseline = <<>> \/ \E t \in Trees : baseline = <<t>>
  /\ memo \in [key : Keys \cup {NoKey}, payload : Payloads]
  /\ pc \in [Sessions -> {"off", "work", "done", "residue", "memo", "probe", "store",
                          "verdict", "stamp", "reply"}]
  /\ follows \in [Sessions -> BOOLEAN]
  /\ key \in [Sessions -> Keys \cup {NoKey}]
  /\ json \in [Sessions -> Payloads]
  /\ said \in [Sessions -> {"nothing", "residue", "block", "killed", "ungated"}]
  /\ start \in [Sessions -> Trees]
  /\ blockedOn \in [Sessions -> Keys \cup {NoKey}]
  /\ \A s \in Sessions : Running(s) => key[s] \in Keys

\* A block names tests that are flawed in the tree as it stands, and that the
\* session's baseline did not have, whether the payload came from the memo or not.
BlockIsCurrent ==
  \A s \in Sessions : pc[s] \in {"stamp", "reply"} =>
    json[s].found # {} /\ json[s].found \subseteq tree \ key[s][1]

\* The gate probes everything since the session started, committed or not, whatever
\* compactions and turns came in between.
SessionScope == Hooked => \A s \in Sessions : Running(s) => key[s][1] = start[s]

\* A one-shot harness is never given two blocks in a row on one diff, if the memo can
\* be written.
NoRepeat ==
  \A s \in Sessions :
    OneShot /\ disk = FALSE /\ pc[s] = "reply" /\ said[s] = "block" => key[s] # blockedOn[s]

\* An agent that stops again without having changed anything since the block is told
\* what it leaves unfixed, if the memo can be written and nobody kills the gate.
ResidueSpoken ==
  \A s \in Sessions :
    Residue /\ disk = FALSE /\ follows[s] /\ pc[s] = "done" /\ said[s] = "nothing"
      => blockedOn[s] # <<Baseline, tree>>

\* Whatever the agent edits, a harness with a loop flag lets its turn end.
TurnEnds == \A s \in Sessions : pc[s] = "work" /\ LoopFlag ~> pc[s] = "done"

\* Once the tree no longer changes every turn ends, loop flag or not, if the memo can
\* be written.
Settled == <>[][UNCHANGED <<tree, head, baseline>>]_vars
SettledTurnEnds ==
  Settled /\ [](disk = FALSE) => \A s \in Sessions : pc[s] = "work" ~> pc[s] = "done"
=============================================================================
