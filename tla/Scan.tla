-------------------------------- MODULE Scan ---------------------------------
(***************************************************************************)
(* Incremental scans over a whole-file ledger.  Every aispend process that  *)
(* scans opens the store once, which reads the whole file into memory, then *)
(* runs each provider in turn: read the session logs whose mtime is after   *)
(* the provider's checkpoint, upsert what they hold, move the checkpoint to *)
(* the time the run ended.  Each write replaces the file by the process's   *)
(* own copy, so the last writer wins.  A write is one step here: temp file  *)
(* and rename are the subject of FileStore.                                 *)
(*                                                                         *)
(* A session log only grows, and a scan reads all of it, so what the ledger *)
(* holds of a log is the length of a prefix.                                *)
(***************************************************************************)
EXTENDS Naturals, Sequences

CONSTANTS
  Proc,        \* the aispend processes
  Daemon,      \* those that scan for ever on a timer
  KindsOf,     \* [Proc -> SUBSET Kind]: what a process may be asked to run
  File,        \* the session logs
  Order,       \* the providers, in the order scanPairs lists them
  Owner,       \* [File -> the provider whose log it is]
  MaxTime,     \* bound: ticks of the clock
  MaxLines,    \* bound: lines of a log
  MaxRuns,     \* bound: commands a process that is no daemon runs
  MaxFaults    \* bound: failed reads, failed writes and crashes

Provider == {Order[i] : i \in DOMAIN Order}

\* incremental: daemon, sync, launch scans and the trailer hook; scan and full:
\* the scan command without and with --full; reprice: a new rate table.
Kind == {"incremental", "scan", "full", "reprice"}

ASSUME LogsHaveOwners ==
  /\ Daemon \subseteq Proc
  /\ KindsOf \in [Proc -> SUBSET Kind]
  /\ Order \in Seq(STRING) /\ Len(Order) > 0
  /\ \A i, j \in DOMAIN Order : Order[i] = Order[j] => i = j
  /\ Owner \in [File -> Provider]
  /\ MaxTime \in Nat /\ MaxLines \in Nat /\ MaxRuns \in Nat /\ MaxFaults \in Nat

VARIABLES
  clock,   \* the wall clock, never stepped back
  lines,   \* lines in each session log
  mtime,   \* when each log was last written
  disk,    \* the store file: rows of each log, checkpoint of each provider
  pc,      \* where each process is
  kind,    \* what it runs
  at,      \* the position in Order of the provider it scans
  mem,     \* its FileStore: the copy of the store it works on
  got,     \* lines it read of each log in this provider's run
  runs,    \* commands it has started
  faults,  \* faults so far
  \* History, read by no action's guard:
  start,   \* lines each log had when scan --full opened the store
  stored,  \* the most rows of each log the store file has ever held
  blind    \* logs last written in the reach of a checkpoint that missed them

worldVars == <<clock, lines, mtime>>
procVars == <<pc, kind, at, mem, got, runs, start>>
vars == <<worldVars, disk, procVars, faults, stored, blind>>

-----------------------------------------------------------------------------
(* Types. *)

Snapshot == [rows : [File -> Nat], last : [Provider -> Nat]]
Place == {"idle", "read", "upsert", "mark", "price"}

NoLines == [f \in File |-> 0]
Empty == [rows |-> NoLines, last |-> [r \in Provider |-> 0]]

TypeOK ==
  /\ clock \in Nat \ {0} /\ faults \in Nat
  /\ lines \in [File -> Nat] /\ mtime \in [File -> Nat]
  /\ disk \in Snapshot
  /\ pc \in [Proc -> Place] /\ kind \in [Proc -> Kind]
  /\ at \in [Proc -> DOMAIN Order]
  /\ mem \in [Proc -> Snapshot] /\ got \in [Proc -> [File -> Nat]]
  /\ runs \in [Proc -> Nat] /\ start \in [Proc -> [File -> Nat]]
  /\ stored \in [File -> Nat] /\ blind \subseteq File
  /\ \A f \in File : disk.rows[f] <= lines[f] /\ mtime[f] <= clock
  /\ \A r \in Provider : disk.last[r] <= clock

-----------------------------------------------------------------------------
(* Helpers. *)

Current(p) == Order[at[p]]

\* Mutant: --full is forgotten.
SinceCheckpoint(p) == mem[p].last[Current(p)]

\* Mutant: one checkpoint for all providers.
SinceAny(p) ==
  CHOOSE t \in {mem[p].last[r] : r \in Provider} : \A r \in Provider : mem[p].last[r] <= t

\* The time Read is given: zero reads everything.
Since(p) == IF kind[p] = "full" THEN 0 ELSE mem[p].last[Current(p)]

\* Sources and Read: the logs of this provider written after the checkpoint.
Picked(p) ==
  {f \in File : Owner[f] = Current(p) /\ (Since(p) = 0 \/ mtime[f] > Since(p))}

\* Mutant: a re-read log is added to the rows it already has.
RowsAppended(p) == [f \in File |-> mem[p].rows[f] + got[p][f]]

\* Upsert by EventID: re-reading a row stores it again under the same key.
Rows(p) == [f \in File |-> IF got[p][f] > mem[p].rows[f] THEN got[p][f] ELSE mem[p].rows[f]]

Upserted(p) == [mem[p] EXCEPT !.rows = Rows(p)]
Marked(p) == [mem[p] EXCEPT !.last[Current(p)] = clock]

\* persist: the whole file becomes the process's copy.
Persist(copy) ==
  /\ disk' = copy
  /\ stored' = [f \in File |-> IF copy.rows[f] > stored[f] THEN copy.rows[f] ELSE stored[f]]

Goto(p, place) == pc' = [pc EXCEPT ![p] = place]

\* The command ends, or the daemon's cycle: its copy is gone.
Finish(p) ==
  /\ Goto(p, "idle")
  /\ kind' = [kind EXCEPT ![p] = "incremental"]
  /\ at' = [at EXCEPT ![p] = 1]
  /\ mem' = [mem EXCEPT ![p] = Empty]
  /\ got' = [got EXCEPT ![p] = NoLines]
  /\ start' = [start EXCEPT ![p] = NoLines]

\* The loop over scanPairs goes on with the next provider, on the same copy.
NextProvider(p, copy) ==
  \/ /\ at[p] < Len(Order)
     /\ Goto(p, "read")
     /\ at' = [at EXCEPT ![p] = @ + 1]
     /\ mem' = [mem EXCEPT ![p] = copy]
     /\ got' = [got EXCEPT ![p] = NoLines]
     /\ UNCHANGED <<kind, start>>
  \/ at[p] = Len(Order) /\ Finish(p)

\* incrementalScan skips a provider that fails; cmdScan gives up.
AfterFailure(p, copy) ==
  IF kind[p] = "incremental" THEN NextProvider(p, copy) ELSE Finish(p)

Fault == faults < MaxFaults /\ faults' = faults + 1

-----------------------------------------------------------------------------
(* The agents and the clock. *)

Init ==
  /\ clock = 1 /\ lines = NoLines /\ mtime = NoLines
  /\ disk = Empty
  /\ pc = [p \in Proc |-> "idle"] /\ kind = [p \in Proc |-> "incremental"]
  /\ at = [p \in Proc |-> 1]
  /\ mem = [p \in Proc |-> Empty] /\ got = [p \in Proc |-> NoLines]
  /\ runs = [p \in Proc |-> 0] /\ start = [p \in Proc |-> NoLines]
  /\ faults = 0 /\ stored = NoLines /\ blind = {}

Tick ==
  /\ clock < MaxTime
  /\ clock' = clock + 1
  /\ UNCHANGED <<lines, mtime, disk, procVars, faults, stored, blind>>

\* A checkpoint already covers this tick, or will once a process that has read the
\* provider's logs marks the end of its run.
Overtaken(f) ==
  \/ disk.last[Owner[f]] >= clock
  \/ \E p \in Proc :
       /\ pc[p] # "idle"
       /\ \/ mem[p].last[Owner[f]] >= clock
          \/ pc[p] \in {"upsert", "mark"} /\ Current(p) = Owner[f]

\* An agent writes a line to its log. The next scan that picks the log reads all of it.
WriteLine(f) ==
  /\ lines[f] < MaxLines
  /\ lines' = [lines EXCEPT ![f] = @ + 1]
  /\ mtime' = [mtime EXCEPT ![f] = clock]
  /\ blind' = IF Overtaken(f) THEN blind \cup {f} ELSE blind \ {f}
  /\ UNCHANGED <<clock, disk, procVars, faults, stored>>

-----------------------------------------------------------------------------
(* One process. *)

\* openStore: incrementalScan, cmdScan and repriceStored read the whole file once.
Start(p, k) ==
  /\ pc[p] = "idle"
  /\ k \in KindsOf[p]
  /\ p \in Daemon \/ runs[p] < MaxRuns
  /\ runs' = IF p \in Daemon THEN runs ELSE [runs EXCEPT ![p] = @ + 1]
  /\ kind' = [kind EXCEPT ![p] = k]
  /\ mem' = [mem EXCEPT ![p] = disk]
  /\ start' = [start EXCEPT ![p] = IF k = "full" THEN lines ELSE NoLines]
  /\ Goto(p, IF k = "reprice" THEN "price" ELSE "read")
  /\ UNCHANGED <<worldVars, disk, at, got, faults, stored, blind>>

\* Detect finds no directory of this provider: it never wrote a log. The checkpoint stays.
Absent(p) ==
  /\ pc[p] = "read"
  /\ \A f \in File : Owner[f] = Current(p) => lines[f] = 0
  /\ NextProvider(p, mem[p])
  /\ UNCHANGED <<worldVars, disk, runs, faults, stored, blind>>

\* LastScan and Provider.Read; a run that imports nothing does not write its rows.
Read(p) ==
  /\ pc[p] = "read"
  /\ LET seen == [f \in File |-> IF f \in Picked(p) THEN lines[f] ELSE 0] IN
     /\ got' = [got EXCEPT ![p] = seen]
     /\ Goto(p, IF seen = NoLines THEN "mark" ELSE "upsert")
  /\ UNCHANGED <<worldVars, disk, kind, at, mem, runs, start, faults, stored, blind>>

\* A log vanishes between Sources and Open, or cannot be read.
ReadFails(p) ==
  /\ pc[p] = "read"
  /\ Fault
  /\ AfterFailure(p, mem[p])
  /\ UNCHANGED <<worldVars, disk, runs, stored, blind>>

\* Upsert changes the copy, then persists it.
Upsert(p) ==
  /\ pc[p] = "upsert"
  /\ Persist(Upserted(p))
  /\ mem' = [mem EXCEPT ![p] = Upserted(p)]
  /\ Goto(p, "mark")
  /\ UNCHANGED <<worldVars, kind, at, got, runs, start, faults, blind>>

\* The write fails: the rows stay in the copy, the run ends before its checkpoint.
UpsertFails(p) ==
  /\ pc[p] = "upsert"
  /\ Fault
  /\ AfterFailure(p, Upserted(p))
  /\ UNCHANGED <<worldVars, disk, runs, stored, blind>>

\* Mutant: the checkpoint is merged into the file instead of replacing it.
MarkInPlace(p) ==
  /\ pc[p] = "mark"
  /\ Persist([disk EXCEPT !.last[Current(p)] = clock])
  /\ NextProvider(p, Marked(p))
  /\ UNCHANGED <<worldVars, runs, faults, blind>>

\* SetLastScan at the end of the run, with the time of the end.
Mark(p) ==
  /\ pc[p] = "mark"
  /\ Persist(Marked(p))
  /\ NextProvider(p, Marked(p))
  /\ UNCHANGED <<worldVars, runs, faults, blind>>

MarkFails(p) ==
  /\ pc[p] = "mark"
  /\ Fault
  /\ AfterFailure(p, Marked(p))
  /\ UNCHANGED <<worldVars, disk, runs, stored, blind>>

\* repriceStored: every row of the copy gets new costs; an empty ledger is not written.
Reprice(p) ==
  /\ pc[p] = "price"
  /\ IF mem[p].rows = NoLines THEN UNCHANGED <<disk, stored>> ELSE Persist(mem[p])
  /\ Finish(p)
  /\ UNCHANGED <<worldVars, runs, faults, blind>>

\* Killed between two writes.
Crash(p) ==
  /\ pc[p] # "idle"
  /\ Fault
  /\ Finish(p)
  /\ UNCHANGED <<worldVars, disk, runs, stored, blind>>

-----------------------------------------------------------------------------
Step(p) == Absent(p) \/ Read(p) \/ Upsert(p) \/ Mark(p) \/ Reprice(p)

Fails(p) == ReadFails(p) \/ UpsertFails(p) \/ MarkFails(p) \/ Crash(p)

Next ==
  \/ Tick
  \/ \E f \in File : WriteLine(f)
  \/ \E p \in Proc, k \in Kind : Start(p, k)
  \/ \E p \in Proc : Step(p) \/ Fails(p)

Spec == Init /\ [][Next]_vars

\* daemonLoop scans on every tick of its timer and each cycle is synchronous.
\* No other process is assumed to make progress.
DaemonFairness ==
  \A p \in Daemon : WF_vars(Start(p, "incremental")) /\ WF_vars(Step(p))

FairSpec == Spec /\ DaemonFairness

-----------------------------------------------------------------------------
(* Properties. *)

\* A copy of the ledger, on disk or in a process, is honest: a log it holds only in
\* part was written after the checkpoint in the same copy, so the next incremental
\* scan reads it again, unless it was written in the reach of a checkpoint (blind).
Honest(copy) ==
  \A f \in File :
    copy.rows[f] < lines[f] => mtime[f] > copy.last[Owner[f]] \/ f \in blind

\* Whoever overwrites the file with an older copy, fails half way or dies between two
\* writes, what is left can be scanned again.
HonestCheckpoint == Honest(disk)

\* When scan --full ends a provider's run, the disk holds every line the logs of this
\* and the earlier providers held when it opened the store, whatever checkpoints said
\* and other processes wrote meanwhile.
FullScanCovers ==
  [][\A p \in Proc :
        kind[p] = "full" /\ pc[p] = "mark" /\ pc'[p] # "mark" /\ faults' = faults
        => \A f \in File, i \in 1 .. at[p] :
             Owner[f] = Order[i] => disk'.rows[f] >= start[p][f]]_vars

\* While a daemon runs, once the agents and the other commands fall silent the ledger
\* holds every line of every log that is not blind.
Converges == <>[](\A f \in File : disk.rows[f] = lines[f] \/ f \in blind)

\* daemon.go:25-29: overlapping scans "can momentarily lose an update - but EventID
\* upserts are idempotent, so the next cycle re-imports and reconverges".  The code
\* does not keep it: no run checks it, README names the trace.
LostRowsReimported ==
  \A f \in File : disk.rows[f] < stored[f] => mtime[f] > disk.last[Owner[f]]

==============================================================================
