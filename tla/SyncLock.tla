------------------------------- MODULE SyncLock -------------------------------
(***************************************************************************)
(* The advisory sync.lock that the daemon, daemon --once and sync take      *)
(* around a scan.  The lock is a file created with O_EXCL; a file older      *)
(* than the TTL is taken for a dead holder's and removed first.  Stat,       *)
(* remove and create are three system calls, and release removes whatever    *)
(* file is there.                                                          *)
(*                                                                         *)
(* Time is the age of the lock file, counted up to just past the TTL.       *)
(***************************************************************************)
EXTENDS Naturals, FiniteSets

CONSTANTS
  Proc,       \* processes that sync under the lock
  Daemon,     \* those that try again for ever
  NoLock,     \* the lock file does not exist
  TTL,        \* syncLockTTL
  MayOverrun, \* a sync may last longer than the TTL (a suspended machine, a hang)
  MaxRuns,    \* bound: syncs a process that is no daemon starts
  MaxFaults   \* bound: crashes and failed creates

ASSUME LockParameters ==
  /\ Daemon \subseteq Proc
  /\ MayOverrun \in BOOLEAN
  /\ TTL \in Nat /\ MaxRuns \in Nat /\ MaxFaults \in Nat
  /\ NoLock \notin [owner : Proc, age : 0 .. TTL + 1]

VARIABLES
  lock,     \* the lock file: its age, and who created it (which the code cannot tell)
  pc,       \* where each process is
  held,     \* the working processes whose release will remove the file
  runs,     \* syncs started
  faults,   \* faults so far
  aged      \* history: some lock file was seen past its TTL

lockVars == <<lock, pc, held, runs, faults, aged>>

Place == {"idle", "stat", "steal", "create", "work"}
LockFile == [owner : Proc, age : 0 .. TTL + 1]

LockTypeOK ==
  /\ lock \in LockFile \cup {NoLock}
  /\ pc \in [Proc -> Place]
  /\ held \subseteq {p \in Proc : pc[p] = "work"}
  /\ runs \in [Proc -> Nat] /\ faults \in Nat /\ aged \in BOOLEAN

LockInit ==
  /\ lock = NoLock
  /\ pc = [p \in Proc |-> "idle"]
  /\ held = {}
  /\ runs = [p \in Proc |-> 0] /\ faults = 0
  /\ aged = FALSE

-----------------------------------------------------------------------------
Stale == lock # NoLock /\ lock.age > TTL

Goto(p, place) == pc' = [pc EXCEPT ![p] = place]

Fault == faults < MaxFaults /\ faults' = faults + 1

\* Time passes: the file ages.
Tick ==
  /\ lock # NoLock /\ lock.age <= TTL
  /\ MayOverrun \/ lock.owner \notin held \/ lock.age < TTL
  /\ lock' = [lock EXCEPT !.age = @ + 1]
  /\ UNCHANGED <<pc, held, runs, faults, aged>>

\* A daemon cycle, or a sync command.
BeginSync(p) ==
  /\ pc[p] = "idle"
  /\ p \in Daemon \/ runs[p] < MaxRuns
  /\ runs' = IF p \in Daemon THEN runs ELSE [runs EXCEPT ![p] = @ + 1]
  /\ Goto(p, "stat")
  /\ UNCHANGED <<lock, held, faults, aged>>

\* Mutant: a lock is never taken for stale.
StatTrusts(p) ==
  /\ pc[p] = "stat"
  /\ Goto(p, "create")
  /\ UNCHANGED <<lock, held, runs, faults, aged>>

\* os.Stat and the comparison with the TTL.
Stat(p) ==
  /\ pc[p] = "stat"
  /\ Goto(p, IF Stale THEN "steal" ELSE "create")
  /\ aged' = (aged \/ Stale)
  /\ UNCHANGED <<lock, held, runs, faults>>

\* os.Remove of the stale file: of whatever file is there by now.
Steal(p) ==
  /\ pc[p] = "steal"
  /\ lock' = NoLock
  /\ Goto(p, "create")
  /\ UNCHANGED <<held, runs, faults, aged>>

\* Mutant: O_CREATE without O_EXCL.
CreateShared(p) ==
  /\ pc[p] = "create"
  /\ lock' = [owner |-> p, age |-> 0]
  /\ held' = held \cup {p}
  /\ Goto(p, "work")
  /\ UNCHANGED <<runs, faults, aged>>

\* os.OpenFile(O_CREATE|O_EXCL): the file exists and the sync does nothing, or it is
\* this caller's.
Create(p) ==
  /\ pc[p] = "create"
  /\ \/ /\ lock # NoLock
        /\ Goto(p, "idle")
        /\ UNCHANGED <<lock, held>>
     \/ /\ lock = NoLock
        /\ lock' = [owner |-> p, age |-> 0]
        /\ held' = held \cup {p}
        /\ Goto(p, "work")
  /\ UNCHANGED <<runs, faults, aged>>

\* Any other error: the sync goes on without a lock.
FailOpen(p) ==
  /\ pc[p] = "create"
  /\ Fault
  /\ Goto(p, "work")
  /\ UNCHANGED <<lock, held, runs, aged>>

\* The scan is done; release removes the file, whoever's it is.
Release(p) ==
  /\ pc[p] = "work"
  /\ lock' = IF p \in held THEN NoLock ELSE lock
  /\ held' = held \ {p}
  /\ Goto(p, "idle")
  /\ UNCHANGED <<runs, faults, aged>>

\* Killed: the file stays.
Crash(p) ==
  /\ pc[p] # "idle"
  /\ Fault
  /\ held' = held \ {p}
  /\ Goto(p, "idle")
  /\ UNCHANGED <<lock, runs, aged>>

-----------------------------------------------------------------------------
Step(p) == Stat(p) \/ Steal(p) \/ Create(p) \/ Release(p)

LockNext ==
  \/ Tick
  \/ \E p \in Proc : BeginSync(p) \/ Step(p) \/ FailOpen(p) \/ Crash(p)

LockSpec == LockInit /\ [][LockNext]_lockVars

\* Time passes, and a daemon's timer and its synchronous cycle go on. A sync command
\* may hang for ever.
FairSpec ==
  /\ LockSpec
  /\ WF_lockVars(Tick)
  /\ \A p \in Daemon : WF_lockVars(BeginSync(p)) /\ WF_lockVars(Step(p))

-----------------------------------------------------------------------------
(* Properties. *)

\* As long as no lock file has outlived its TTL, one sync at most works under the lock,
\* and the file is its own: nobody's release or crash lets a second one in.
ExclusiveWhileFresh ==
  ~aged => \A p \in held : /\ held = {p}
                           /\ lock # NoLock /\ lock.owner = p

\* A holder that crashed or hangs does not wedge syncing: a daemon gets to scan again
\* and again.
SelfHeals == \A d \in Daemon : []<>(pc[d] = "work")

==============================================================================
