------------------------------ MODULE RepoLock ------------------------------
(***************************************************************************)
(* The repository lock and the work-copy reaper of mutation/lock.mjs, with *)
(* the part of prove() (mutation/prove.mjs) that takes the lock, reaps,    *)
(* makes and marks its work copy, probes, removes the copy and releases.   *)
(*                                                                         *)
(* Processes run on one machine and share its temporary directory; they    *)
(* may be killed at any moment.  A step is one file-system call or one     *)
(* call of kill(pid, 0).  A process calls prove() up to MaxRounds times    *)
(* (the command line falls back to a wider scope).  Pids are not reused.   *)
(***************************************************************************)
EXTENDS Integers, FiniteSets

CONSTANTS
  Procs,     \* gutcheck processes, named by their pid
  RepoOf,    \* RepoOf[p]: the canonical directory p probes
  MaxRounds  \* calls of prove() by one process

None == "none"

ASSUME RoundsAssumption == MaxRounds \in Nat \ {0}
ASSUME PidAssumption == None \notin Procs

Repos == {RepoOf[p] : p \in Procs}
Copies == Procs \X (1 .. MaxRounds)

VARIABLES
  alive,   \* processes that have not exited or been killed
  file,    \* file[r]: the lock file of r: NoFile, or who created it and whether
           \* its content has been written
  pc, try, \* the step of each process, and the attempt of acquireRepoLock
  seen,    \* holder, as p read it: a pid, or None for a missing or unreadable file
  round,   \* calls of prove() by p so far
  reaped,  \* staleWorkReaped
  todo,    \* names readdirSync returned to p's reaper and not yet looked at
  work,    \* work[c]: the copy c is absent, "bare" (no marker) or "marked"
  old,     \* copies last modified more than MARKERLESS_REAP_AGE_MS ago
  stolen   \* history: repos whose lock file was removed from a live owner by another

lockVars == <<file, try, seen, stolen>>
workVars == <<reaped, todo, work, old>>
vars == <<alive, pc, round, lockVars, workVars>>

NoFile == [by |-> None, full |-> FALSE]
LockFiles == {NoFile} \cup [by : Procs, full : BOOLEAN]
Copy(p) == <<p, round[p]>>
LockOf(p) == file[RepoOf[p]]

Init ==
  /\ alive = Procs
  /\ file = [r \in Repos |-> NoFile]
  /\ pc = [p \in Procs |-> "idle"]
  /\ try = [p \in Procs |-> 1]
  /\ seen = [p \in Procs |-> None]
  /\ round = [p \in Procs |-> 0]
  /\ reaped = {}
  /\ todo = [p \in Procs |-> {}]
  /\ work = [c \in Copies |-> None]
  /\ old = {} /\ stolen = {}

Goto(p, label) == pc' = [pc EXCEPT ![p] = label]
SetLock(p, f) == file' = [file EXCEPT ![RepoOf[p]] = f]

-----------------------------------------------------------------------------
(***************************************************************************)
(* acquireRepoLock.                                                        *)
(***************************************************************************)
Start(p) ==
  /\ pc[p] = "idle" /\ round[p] < MaxRounds
  /\ round' = [round EXCEPT ![p] = @ + 1]
  /\ try' = [try EXCEPT ![p] = 1]
  /\ Goto(p, "create")
  /\ UNCHANGED <<alive, file, seen, stolen, workVars>>

\* Mutant: without the wx flag, an existing file is overwritten.
OverwriteOk(p) == TRUE
MayCreate(p) == LockOf(p) = NoFile

\* open(path, O_CREAT | O_EXCL): the file exists and is still empty.
Create(p) ==
  /\ pc[p] = "create" /\ MayCreate(p)
  /\ SetLock(p, [by |-> p, full |-> FALSE])
  /\ Goto(p, "write")
  /\ UNCHANGED <<alive, round, try, seen, stolen, workVars>>

\* Then the {pid, started} text goes to the file p opened, if it is still there.
Write(p) ==
  /\ pc[p] = "write"
  /\ IF LockOf(p) = [by |-> p, full |-> FALSE]
     THEN SetLock(p, [by |-> p, full |-> TRUE]) ELSE UNCHANGED file
  /\ Goto(p, "held")
  /\ UNCHANGED <<alive, round, try, seen, stolen, workVars>>

CreateFails(p) ==
  /\ pc[p] = "create" /\ ~MayCreate(p)
  /\ Goto(p, "read")
  /\ UNCHANGED <<alive, round, lockVars, workVars>>

ReadLock(p) == IF LockOf(p).full THEN LockOf(p).by ELSE None

Read(p) ==
  /\ pc[p] = "read"
  /\ seen' = [seen EXCEPT ![p] = ReadLock(p)]
  /\ Goto(p, "decide")
  /\ UNCHANGED <<alive, round, file, try, stolen, workVars>>

PidAlive(q) == q \in alive

\* p's own residue is re-entrant; a live foreign owner is refused with its pid;
\* a dead owner, or a file that cannot be read or parsed, is cleared.
Decide(p) ==
  /\ pc[p] = "decide"
  /\ \/ seen[p] = p /\ Goto(p, "held")
     \/ seen[p] \notin {None, p} /\ PidAlive(seen[p]) /\ Goto(p, "refused")
     \/ seen[p] # p /\ (seen[p] = None \/ ~PidAlive(seen[p])) /\ Goto(p, "unlink")
  /\ UNCHANGED <<alive, round, lockVars, workVars>>

\* The file is removed whatever it has become since it was read.
Unlink(p) ==
  /\ SetLock(p, NoFile)
  /\ stolen' = IF LockOf(p).by \in alive \ {p}
               THEN stolen \cup {RepoOf[p]} ELSE stolen

\* Mutant: one attempt only.
NoRetry(p) == FALSE
RetryLeft(p) == try[p] < 2

ClearStale(p) ==
  /\ pc[p] = "unlink" /\ Unlink(p)
  /\ try' = [try EXCEPT ![p] = IF RetryLeft(p) THEN @ + 1 ELSE @]
  /\ Goto(p, IF RetryLeft(p) THEN "create" ELSE "refused")
  /\ UNCHANGED <<alive, round, seen, workVars>>

-----------------------------------------------------------------------------
(***************************************************************************)
(* reapStaleWork, once per process, then mkdtempSync and markWorkOwned.    *)
(***************************************************************************)
StartReap(p) ==
  /\ pc[p] = "held" /\ p \notin reaped
  /\ reaped' = reaped \cup {p}
  /\ todo' = [todo EXCEPT ![p] = {c \in Copies : work[c] # None}]
  /\ Goto(p, "reap")
  /\ UNCHANGED <<alive, round, lockVars, work, old>>

SkipReap(p) ==
  /\ pc[p] = "held" /\ p \in reaped
  /\ Goto(p, "mkdir")
  /\ UNCHANGED <<alive, round, lockVars, workVars>>

\* Mutants: the age guard is missing; the marker is never read.
AnyBare(c) == work[c] = "bare" \/ (work[c] = "marked" /\ ~PidAlive(c[1]))
AgeOnly(c) == c \in old
Reapable(c) ==
  \/ work[c] = "marked" /\ ~PidAlive(c[1])
  \/ work[c] = "bare" /\ c \in old

\* One name: read the marker, test its pid or the age, remove or keep.  A name
\* that is gone by now is passed over.
ReapOne(p) ==
  /\ pc[p] = "reap"
  /\ \E c \in todo[p] :
       /\ todo' = [todo EXCEPT ![p] = @ \ {c}]
       /\ work' = IF Reapable(c) THEN [work EXCEPT ![c] = None] ELSE work
  /\ UNCHANGED <<alive, pc, round, lockVars, reaped, old>>

EndReap(p) ==
  /\ pc[p] = "reap" /\ todo[p] = {}
  /\ Goto(p, "mkdir")
  /\ UNCHANGED <<alive, round, lockVars, workVars>>

MakeWork(p) ==
  /\ pc[p] = "mkdir"
  /\ work' = [work EXCEPT ![Copy(p)] = "bare"]
  /\ Goto(p, "mark")
  /\ UNCHANGED <<alive, round, lockVars, reaped, todo, old>>

\* mkdtempSync is outside the try block: when it throws the lock file stays.
MakeWorkThrows(p) ==
  /\ pc[p] = "mkdir"
  /\ Goto(p, "idle")
  /\ UNCHANGED <<alive, round, lockVars, workVars>>

\* A failure to write the marker is swallowed.
MarkWork(p) ==
  /\ pc[p] = "mark"
  /\ \E m \in {"bare", "marked"} : work' = [work EXCEPT ![Copy(p)] = m]
  /\ Goto(p, "probe")
  /\ UNCHANGED <<alive, round, lockVars, reaped, todo, old>>

-----------------------------------------------------------------------------
(***************************************************************************)
(* The finally block: remove the work copy, then release.                  *)
(***************************************************************************)
RemoveWork(p) ==
  /\ pc[p] = "probe"
  /\ work' = [work EXCEPT ![Copy(p)] = None]
  /\ Goto(p, "release")
  /\ UNCHANGED <<alive, round, lockVars, reaped, todo, old>>

\* rmSync throws (a runner daemon still writes there): release() is not reached.
RemoveWorkThrows(p) ==
  /\ pc[p] = "probe"
  /\ Goto(p, "idle")
  /\ UNCHANGED <<alive, round, lockVars, workVars>>

StillMine(p) == ReadLock(p) = p

ReadOwn(p) ==
  /\ pc[p] = "release"
  /\ Goto(p, IF StillMine(p) THEN "drop" ELSE "idle")
  /\ UNCHANGED <<alive, round, lockVars, workVars>>

Release(p) ==
  /\ pc[p] = "drop" /\ Unlink(p)
  /\ Goto(p, "idle")
  /\ UNCHANGED <<alive, round, try, seen, workVars>>

-----------------------------------------------------------------------------
\* p exits, or is killed and reaches neither its finally block nor its release.
Die(p) ==
  /\ p \in alive
  /\ alive' = alive \ {p}
  /\ Goto(p, "gone")
  /\ UNCHANGED <<round, lockVars, workVars>>

\* The copy of a dead process ages.  No run lasts MARKERLESS_REAP_AGE_MS.
Age(c) ==
  /\ work[c] # None /\ c[1] \notin alive
  /\ old' = old \cup {c}
  /\ UNCHANGED <<alive, pc, round, lockVars, reaped, todo, work>>

Acquire(p) == \/ Create(p) \/ Write(p) \/ CreateFails(p) \/ Read(p) \/ Decide(p)
              \/ ClearStale(p)
Prepare(p) == \/ StartReap(p) \/ SkipReap(p) \/ ReapOne(p) \/ EndReap(p)
              \/ MakeWork(p) \/ MakeWorkThrows(p) \/ MarkWork(p)
Leave(p) == RemoveWork(p) \/ RemoveWorkThrows(p) \/ ReadOwn(p) \/ Release(p)
Step(p) == Acquire(p) \/ Prepare(p) \/ Leave(p)

Next == \/ \E p \in Procs : Start(p) \/ Step(p) \/ Die(p)
        \/ \E c \in Copies : Age(c)

Spec == Init /\ [][Next]_vars

\* A process that has called prove() keeps running until it returns or is killed.
FairSpec == Spec /\ \A p \in Procs : WF_vars(Step(p))

-----------------------------------------------------------------------------
(***************************************************************************)
(* Properties.                                                             *)
(***************************************************************************)
Labels == {"idle", "create", "write", "read", "decide", "unlink", "refused", "held",
           "reap", "mkdir", "mark", "probe", "release", "drop", "gone"}

\* Type invariant.
TypeOK ==
  /\ alive \subseteq Procs
  /\ file \in [Repos -> LockFiles]
  /\ pc \in [Procs -> Labels]
  /\ try \in [Procs -> {1, 2}]
  /\ seen \in [Procs -> Procs \cup {None}]
  /\ round \in [Procs -> 0 .. MaxRounds]
  /\ reaped \subseteq Procs
  /\ todo \in [Procs -> SUBSET Copies]
  /\ work \in [Copies -> {None, "bare", "marked"}]
  /\ old \subseteq Copies
  /\ stolen \subseteq Repos
  /\ \A p \in Procs : pc[p] = "gone" <=> p \notin alive

\* p believes it holds the lock of its repository.
Holds(p) == pc[p] \in {"held", "reap", "mkdir", "mark", "probe"}

\* At most one process at a time probes a repository.
MutualExclusion ==
  \A p, q \in Procs : RepoOf[p] = RepoOf[q] /\ Holds(p) /\ Holds(q) => p = q

\* The lock excludes for as long as nobody has removed a live process's lock file:
\* crashes, leaks, re-entry and stale takeovers alone never let two processes in.
ExclusionUnlessStolen ==
  \A p, q \in Procs :
    RepoOf[p] = RepoOf[q] /\ RepoOf[p] \notin stolen /\ Holds(p) /\ Holds(q) => p = q

\* Reading the file and unlinking it are two steps of a release too, but no second
\* way to lose a live lock: where no live owner's file has been removed yet, a release
\* removes the file of the releasing process, whatever dead owners, leaks and
\* takeovers came between.  The first theft in a repository is always a takeover.
ReleaseDropsOwn ==
  [][\A p \in Procs :
       Release(p) /\ RepoOf[p] \notin stolen => LockOf(p).by = p /\ stolen' = stolen]_vars

\* A work copy of a live process, marked or not, on any repository of the machine,
\* goes only when that process removes it itself: no reaper ever takes it.
LiveWorkKept ==
  [][\A c \in Copies :
       work[c] # None /\ work'[c] = None => c[1] \notin alive \/ RemoveWork(c[1])]_vars

\* A crash never locks a repository out: once every other process there is dead, a
\* process that asks for the lock gets it, whatever file was left behind.
OthersDead(p) == \A q \in Procs \ {p} : RepoOf[q] = RepoOf[p] => q \notin alive
LoneRunGetsIn ==
  \A p \in Procs :
    pc[p] = "create" /\ try[p] = 1 /\ OthersDead(p) ~> Holds(p) \/ p \notin alive

\* The next reap on the machine, by the one process left, removes the marked copies
\* of all that were killed.
OrphanReaped ==
  \A p \in Procs :
    pc[p] = "held" /\ p \notin reaped /\ alive = {p}
      ~> p \notin alive \/ \A c \in Copies : work[c] = "marked" => c[1] = p
=============================================================================
