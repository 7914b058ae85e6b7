--------------------------- MODULE RepoLockProofs ---------------------------
(***************************************************************************)
(* Proofs about RepoLock, for any processes, repositories and rounds.      *)
(***************************************************************************)
EXTENDS RepoLock, TLAPS

\* A live process that is in, or leaving, its probe owns the lock file, as long as
\* nobody removed a live owner's file; so does one that has just read its own pid.
Owned(p) ==
  RepoOf[p] \notin stolen =>
    /\ pc[p] = "write" => LockOf(p) = [by |-> p, full |-> FALSE]
    /\ Holds(p) \/ pc[p] \in {"release", "drop"} => LockOf(p) = [by |-> p, full |-> TRUE]
    /\ pc[p] = "decide" /\ seen[p] = p => LockOf(p) = [by |-> p, full |-> TRUE]

IInv == TypeOK /\ \A p \in Procs : Owned(p)

-----------------------------------------------------------------------------
\* Type correctness of the lock, whatever the processes do.
LEMMA InitType == Init => TypeOK
<1> SUFFICES ASSUME Init PROVE TypeOK
  OBVIOUS
<1>1. NoFile \in LockFiles
  BY DEF LockFiles
<1> QED
  BY <1>1, RoundsAssumption DEF Init, TypeOK, Labels, None

LEMMA NextType == TypeOK /\ [Next]_vars => TypeOK'
<1> SUFFICES ASSUME TypeOK, [Next]_vars PROVE TypeOK'
  OBVIOUS
<1> USE DEF TypeOK, Labels, lockVars, workVars, Goto
<1>1. CASE UNCHANGED vars
  BY <1>1 DEF vars
<1>2. ASSUME NEW p \in Procs, Start(p) PROVE TypeOK'
  BY <1>2, RoundsAssumption DEF Start
<1>3. ASSUME NEW p \in Procs, Acquire(p) PROVE TypeOK'
  <2>0. RepoOf[p] \in Repos
    BY DEF Repos
  <2>1. CASE Create(p)
    BY <2>1, <2>0 DEF Create, SetLock, LockFiles
  <2>2. CASE Write(p)
    <3>1. [by |-> p, full |-> TRUE] \in LockFiles
      BY DEF LockFiles
    <3>2. file' = file \/ file' = [file EXCEPT ![RepoOf[p]] = [by |-> p, full |-> TRUE]]
      BY <2>2 DEF Write, SetLock
    <3>3. file' \in [Repos -> LockFiles]
      BY <3>1, <3>2, <2>0
    <3> QED
      BY <2>2, <3>3 DEF Write
  <2>3. CASE CreateFails(p)
    BY <2>3 DEF CreateFails
  <2>4. CASE Read(p)
    <3>1. ReadLock(p) \in Procs \cup {None}
      BY <2>0 DEF ReadLock, LockOf, LockFiles, NoFile
    <3> QED
      BY <2>4, <3>1 DEF Read
  <2>5. CASE Decide(p)
    BY <2>5 DEF Decide
  <2>6. CASE ClearStale(p)
    <3>1. file' \in [Repos -> LockFiles] /\ stolen' \subseteq Repos
      BY <2>6, <2>0 DEF ClearStale, Unlink, SetLock, LockFiles
    <3>2. try' \in [Procs -> {1, 2}]
      BY <2>6 DEF ClearStale, RetryLeft
    <3> QED
      BY <2>6, <3>1, <3>2 DEF ClearStale
  <2> QED
    BY <1>3, <2>1, <2>2, <2>3, <2>4, <2>5, <2>6 DEF Acquire
<1>4. ASSUME NEW p \in Procs, Prepare(p) PROVE TypeOK'
  <2>1. CASE StartReap(p)
    BY <2>1 DEF StartReap
  <2>2. CASE SkipReap(p) \/ EndReap(p) \/ MakeWorkThrows(p)
    BY <2>2 DEF SkipReap, EndReap, MakeWorkThrows
  <2>3. CASE ReapOne(p)
    BY <2>3 DEF ReapOne
  <2>4. CASE MakeWork(p)
    BY <2>4 DEF MakeWork
  <2>5. CASE MarkWork(p)
    BY <2>5 DEF MarkWork
  <2> QED
    BY <1>4, <2>1, <2>2, <2>3, <2>4, <2>5 DEF Prepare
<1>5. ASSUME NEW p \in Procs, Leave(p) PROVE TypeOK'
  <2>0. RepoOf[p] \in Repos
    BY DEF Repos
  <2>1. CASE RemoveWork(p)
    BY <2>1 DEF RemoveWork
  <2>2. CASE RemoveWorkThrows(p)
    BY <2>2 DEF RemoveWorkThrows
  <2>3. CASE ReadOwn(p)
    BY <2>3 DEF ReadOwn
  <2>4. CASE Release(p)
    BY <2>4, <2>0 DEF Release, Unlink, SetLock, LockFiles
  <2> QED
    BY <1>5, <2>1, <2>2, <2>3, <2>4 DEF Leave
<1>6. ASSUME NEW p \in Procs, Die(p) PROVE TypeOK'
  BY <1>6 DEF Die
<1>7. ASSUME NEW c \in Copies, Age(c) PROVE TypeOK'
  BY <1>7 DEF Age
<1> QED
  BY <1>1, <1>2, <1>3, <1>4, <1>5, <1>6, <1>7 DEF Next, Step

\* Every reachable state is well typed.
THEOREM LockTypeCorrect == Spec => []TypeOK
<1>1. Init => TypeOK
  BY InitType
<1>2. TypeOK /\ [Next]_vars => TypeOK'
  BY NextType
<1> QED
  BY <1>1, <1>2, PTL DEF Spec

-----------------------------------------------------------------------------
\* A step that touches neither the lock files nor what was read, and moves process q
\* from a point where the lock is owned to another, keeps everyone's ownership.
LEMMA QuietStep ==
  ASSUME TypeOK, NEW q \in Procs, NEW label,
         UNCHANGED <<file, seen, stolen>>, Goto(q, label), Owned(q),
         label \in {"idle", "create", "read", "unlink", "refused", "gone"}
         \/ ((Holds(q) \/ pc[q] \in {"release", "drop"})
             /\ label \notin {"write", "decide"}),
         NEW p \in Procs, Owned(p)
  PROVE Owned(p)'
<1>1. CASE p # q
  BY <1>1 DEF Owned, Holds, Goto, LockOf, TypeOK
<1>2. CASE p = q
  BY <1>2 DEF Owned, Holds, Goto, LockOf, TypeOK
<1> QED
  BY <1>1, <1>2

LEMMA NextOwned ==
  ASSUME IInv, [Next]_vars, NEW p \in Procs
  PROVE Owned(p)'
<1> USE DEF IInv, lockVars, workVars
<1>0. TypeOK /\ Owned(p) /\ \A q \in Procs : Owned(q)
  OBVIOUS
<1>1. CASE UNCHANGED vars
  BY <1>0, <1>1 DEF vars, Owned, Holds, LockOf
<1>2. ASSUME NEW q \in Procs, Start(q) PROVE Owned(p)'
  BY <1>0, <1>2, QuietStep DEF Start
<1>3. ASSUME NEW q \in Procs, Create(q) PROVE Owned(p)'
  <2>1. LockOf(q) = NoFile /\ RepoOf[p] \in Repos /\ RepoOf[q] \in Repos
    BY <1>3 DEF Create, MayCreate, Repos
  <2>2. NoFile # [by |-> p, full |-> FALSE] /\ NoFile # [by |-> p, full |-> TRUE]
    BY PidAssumption DEF NoFile
  <2>3. CASE p = q
    BY <1>0, <1>3, <2>1, <2>3 DEF Create, Owned, Holds, Goto, LockOf, SetLock, TypeOK
  <2>4. CASE p # q /\ RepoOf[p] = RepoOf[q]
    BY <1>0, <1>3, <2>1, <2>2, <2>4 DEF Create, Owned, Holds, Goto, LockOf, TypeOK
  <2>5. CASE p # q /\ RepoOf[p] # RepoOf[q]
    BY <1>0, <1>3, <2>1, <2>5 DEF Create, Owned, Holds, Goto, LockOf, SetLock, TypeOK
  <2> QED
    BY <2>3, <2>4, <2>5
<1>4. ASSUME NEW q \in Procs, Write(q) PROVE Owned(p)'
  <2>1. RepoOf[p] \in Repos /\ RepoOf[q] \in Repos
    BY DEF Repos
  <2>2. CASE p = q
    BY <1>0, <1>4, <2>1, <2>2 DEF Write, Owned, Holds, Goto, LockOf, SetLock, TypeOK
  <2>3. CASE p # q /\ RepoOf[p] = RepoOf[q] /\ RepoOf[p] \notin stolen
    <3>1. LockOf(q) = [by |-> q, full |-> FALSE]
      BY <1>0, <1>4, <2>3 DEF Write, Owned
    <3>2. LockOf(p) # [by |-> p, full |-> FALSE] /\ LockOf(p) # [by |-> p, full |-> TRUE]
      BY <3>1, <2>3 DEF LockOf
    <3> QED
      BY <1>0, <1>4, <3>2, <2>3 DEF Write, Owned, Holds, Goto, TypeOK
  <2>4. CASE RepoOf[p] # RepoOf[q]
    BY <1>0, <1>4, <2>1, <2>4 DEF Write, Owned, Holds, Goto, LockOf, SetLock, TypeOK
  <2>5. CASE RepoOf[p] \in stolen
    BY <1>4, <2>5 DEF Write, Owned
  <2> QED
    BY <2>2, <2>3, <2>4, <2>5
<1>5. ASSUME NEW q \in Procs, CreateFails(q) PROVE Owned(p)'
  BY <1>0, <1>5, QuietStep DEF CreateFails
<1>6. ASSUME NEW q \in Procs, Read(q) PROVE Owned(p)'
  <2>1. LockOf(p) \in LockFiles
    BY DEF LockOf, TypeOK, Repos
  <2>2. ReadLock(p) = p => LockOf(p) = [by |-> p, full |-> TRUE]
    BY <2>1, PidAssumption DEF ReadLock, LockFiles, NoFile
  <2>3. CASE p = q
    BY <1>0, <1>6, <2>2, <2>3 DEF Read, Owned, Holds, Goto, LockOf, TypeOK
  <2>4. CASE p # q
    BY <1>0, <1>6, <2>4 DEF Read, Owned, Holds, Goto, LockOf, TypeOK
  <2> QED
    BY <2>3, <2>4
<1>7. ASSUME NEW q \in Procs, Decide(q) PROVE Owned(p)'
  BY <1>0, <1>7 DEF Decide, Owned, Holds, Goto, LockOf, TypeOK
<1>8. ASSUME NEW q \in Procs, ClearStale(q) PROVE Owned(p)'
  BY <1>0, <1>8 DEF ClearStale, Unlink, SetLock, Owned, Holds, Goto, LockOf, TypeOK, Repos
<1>9. ASSUME NEW q \in Procs, Prepare(q) PROVE Owned(p)'
  <2>1. CASE ReapOne(q)
    BY <1>0, <2>1 DEF ReapOne, Owned, Holds, LockOf
  <2>2. CASE StartReap(q) \/ SkipReap(q)
    BY <1>0, <2>2, QuietStep DEF StartReap, SkipReap, Holds
  <2>3. CASE EndReap(q) \/ MakeWork(q) \/ MakeWorkThrows(q) \/ MarkWork(q)
    BY <1>0, <2>3, QuietStep DEF EndReap, MakeWork, MakeWorkThrows, MarkWork, Holds
  <2> QED
    BY <1>9, <2>1, <2>2, <2>3 DEF Prepare
<1>10. ASSUME NEW q \in Procs, Leave(q) PROVE Owned(p)'
  <2>1. CASE RemoveWork(q) \/ RemoveWorkThrows(q) \/ ReadOwn(q)
    BY <1>0, <2>1, QuietStep DEF RemoveWork, RemoveWorkThrows, ReadOwn, Holds
  <2>2. CASE Release(q)
    BY <1>0, <2>2 DEF Release, Unlink, SetLock, Owned, Holds, Goto, LockOf, TypeOK, Repos
  <2> QED
    BY <1>10, <2>1, <2>2 DEF Leave
<1>11. ASSUME NEW q \in Procs, Die(q) PROVE Owned(p)'
  BY <1>0, <1>11, QuietStep DEF Die
<1>12. ASSUME NEW c \in Copies, Age(c) PROVE Owned(p)'
  BY <1>0, <1>12 DEF Age, Owned, Holds, LockOf
<1> QED
  BY <1>1, <1>2, <1>3, <1>4, <1>5, <1>6, <1>7, <1>8, <1>9, <1>10, <1>11, <1>12 DEF Next, Step, Acquire

LEMMA LockInvariance == Spec => []IInv
<1>1. Init => IInv
  BY InitType DEF Init, IInv, Owned, Holds
<1>2. IInv /\ [Next]_vars => IInv'
  BY NextType, NextOwned DEF IInv
<1> QED
  BY <1>1, <1>2, PTL DEF Spec

\* The lock excludes until a live process's lock file is removed: no crash, leak,
\* re-entry or takeover of a dead owner's lock ever lets two processes probe at once.
THEOREM ExclusionTheorem == Spec => []ExclusionUnlessStolen
<1>1. ASSUME IInv, NEW p \in Procs, NEW q \in Procs,
             RepoOf[p] = RepoOf[q], RepoOf[p] \notin stolen, Holds(p), Holds(q)
      PROVE p = q
  <2>1. LockOf(p) = [by |-> p, full |-> TRUE] /\ LockOf(q) = [by |-> q, full |-> TRUE]
    BY <1>1 DEF IInv, Owned
  <2>2. LockOf(p) = LockOf(q)
    BY <1>1 DEF LockOf
  <2>3. [by |-> p, full |-> TRUE].by = [by |-> q, full |-> TRUE].by
    BY <2>1, <2>2
  <2> QED
    BY <2>3
<1>2. IInv => ExclusionUnlessStolen
  BY <1>1 DEF ExclusionUnlessStolen
<1> QED
  BY <1>2, LockInvariance, PTL

\* A release removes the releasing process's own file, until a takeover has removed a
\* live owner's.
THEOREM ReleaseTheorem == Spec => ReleaseDropsOwn
<1> DEFINE OwnDropped == \A p \in Procs :
             Release(p) /\ RepoOf[p] \notin stolen => LockOf(p).by = p /\ stolen' = stolen
<1>1. ASSUME IInv, NEW p \in Procs, Release(p), RepoOf[p] \notin stolen
      PROVE LockOf(p).by = p /\ stolen' = stolen
  <2>1. LockOf(p) = [by |-> p, full |-> TRUE]
    BY <1>1 DEF IInv, Owned, Release
  <2>2. LockOf(p).by = p
    BY <2>1
  <2> QED
    BY <1>1, <2>2 DEF Release, Unlink
<1>2. IInv /\ [Next]_vars => [OwnDropped]_vars
  BY <1>1
<1> QED
  BY <1>2, LockInvariance, PTL DEF Spec, ReleaseDropsOwn

-----------------------------------------------------------------------------
\* Only copies of dead processes count as old.
OldDead == \A c \in old : c[1] \notin alive

LEMMA OldDeadInvariance == Spec => []OldDead
<1>1. Init => OldDead
  BY DEF Init, OldDead
<1>2. OldDead /\ [Next]_vars => OldDead'
  <2> SUFFICES ASSUME OldDead, [Next]_vars PROVE OldDead'
    OBVIOUS
  <2>1. CASE old' = old /\ alive' \subseteq alive
    BY <2>1 DEF OldDead
  <2>2. ASSUME NEW d \in Copies, Age(d) PROVE OldDead'
    BY <2>2 DEF OldDead, Age
  <2>3. ASSUME NEW p \in Procs, Start(p) \/ Step(p) \/ Die(p) PROVE old' = old /\ alive' \subseteq alive
    BY <2>3 DEF Start, Step, Acquire, Prepare, Leave, Create, Write, CreateFails, Read,
       Decide, ClearStale, StartReap, SkipReap, ReapOne, EndReap, MakeWork, MakeWorkThrows,
       MarkWork, RemoveWork, RemoveWorkThrows, ReadOwn, Release, Die, lockVars, workVars
  <2> QED
    BY <2>1, <2>2, <2>3 DEF Next, vars, workVars
<1> QED
  BY <1>1, <1>2, PTL DEF Spec

\* A copy of a live process goes only when that process removes it.
THEOREM LiveWorkTheorem == Spec => LiveWorkKept
<1> DEFINE Kept == \A c \in Copies :
             work[c] # None /\ work'[c] = None => c[1] \notin alive \/ RemoveWork(c[1])
<1>1. ASSUME TypeOK, OldDead, [Next]_vars PROVE Kept \/ UNCHANGED vars
  <2> SUFFICES ASSUME NEW c \in Copies, work[c] # None, work'[c] = None
               PROVE c[1] \notin alive \/ RemoveWork(c[1])
    OBVIOUS
  <2>1. work' # work
    OBVIOUS
  <2>2. ASSUME NEW p \in Procs, ReapOne(p) PROVE c[1] \notin alive
    BY <1>1, <2>2 DEF ReapOne, Reapable, PidAlive, OldDead, TypeOK
  <2>3. ASSUME NEW p \in Procs, MakeWork(p) \/ MarkWork(p) PROVE FALSE
    BY <1>1, <2>3 DEF MakeWork, MarkWork, TypeOK, None
  <2>4. ASSUME NEW p \in Procs, RemoveWork(p) PROVE RemoveWork(c[1])
    <3>1. c = Copy(p)
      BY <1>1, <2>4 DEF RemoveWork, TypeOK
    <3> QED
      BY <2>4, <3>1 DEF RemoveWork, Copy
  <2>5. ASSUME NEW p \in Procs, Start(p) \/ Acquire(p) \/ Die(p) \/ StartReap(p) \/ SkipReap(p)
                 \/ EndReap(p) \/ MakeWorkThrows(p) \/ RemoveWorkThrows(p) \/ ReadOwn(p) \/ Release(p)
        PROVE work' = work
    BY <2>5 DEF Start, Acquire, Create, Write, CreateFails, Read, Decide, ClearStale, StartReap,
       SkipReap, EndReap, MakeWorkThrows, RemoveWorkThrows, ReadOwn, Release, Die, lockVars, workVars
  <2>6. ASSUME NEW d \in Copies, Age(d) PROVE work' = work
    BY <2>6 DEF Age
  <2> QED
    BY <1>1, <2>1, <2>2, <2>3, <2>4, <2>5, <2>6 DEF Next, Step, Prepare, Leave, vars, workVars
<1>2. TypeOK /\ OldDead /\ [Next]_vars => [Kept]_vars
  BY <1>1
<1> QED
  BY <1>2, LockTypeCorrect, OldDeadInvariance, PTL DEF Spec, LiveWorkKept
=============================================================================
