------------------------------ MODULE ScanProofs ------------------------------
(***************************************************************************)
(* Proofs about Scan for any processes, logs and providers: the ledger on   *)
(* disk is well formed, its checkpoints are honest however processes        *)
(* overwrite each other's copies, fail or die, and scan --full leaves what  *)
(* it promises.                                                             *)
(*                                                                         *)
(* HonestCheckpoint alone is not inductive: what the disk will hold is what *)
(* some process holds now.  IInv therefore asks honesty of every live copy, *)
(* and of a run between its read and its checkpoint that it has read all of *)
(* its provider's logs, blind ones excepted.                                *)
(***************************************************************************)
EXTENDS Scan, TLAPS

\* Every copy and every count is a prefix of the logs, and no checkpoint is ahead of
\* the clock.
Prefixes ==
  \A p \in Proc :
    /\ \A f \in File : /\ mem[p].rows[f] <= lines[f]
                       /\ got[p][f] <= lines[f]
                       /\ start[p][f] <= lines[f]
    /\ \A r \in Provider : mem[p].last[r] <= clock

LiveCopiesHonest == \A p \in Proc : pc[p] # "idle" => Honest(mem[p])

\* A run that may still mark its end has read all its provider's logs.
RunsComplete ==
  \A p \in Proc :
    /\ pc[p] \in {"upsert", "mark"} =>
         \A f \in File :
           Owner[f] = Current(p) /\ Rows(p)[f] < lines[f] => f \in blind
    /\ pc[p] = "mark" => \A f \in File : got[p][f] <= mem[p].rows[f]

\* scan --full has everything of the providers it is done with, and of the current
\* one once it has read its logs.
FullCopies ==
  \A p \in Proc : kind[p] = "full" /\ pc[p] # "idle" =>
    /\ \A f \in File, i \in DOMAIN Order :
         i < at[p] /\ Owner[f] = Order[i] => mem[p].rows[f] >= start[p][f]
    /\ pc[p] \in {"upsert", "mark"} =>
         \A f \in File : Owner[f] = Current(p) => Rows(p)[f] >= start[p][f]

\* A command starts with the first provider.
IdleAtFirst == \A p \in Proc : pc[p] = "idle" => at[p] = 1

IInv ==
  /\ TypeOK
  /\ Prefixes
  /\ Honest(disk)
  /\ LiveCopiesHonest
  /\ RunsComplete
  /\ FullCopies
  /\ IdleAtFirst

-----------------------------------------------------------------------------

LEMMA ProvidersInOrder ==
  /\ DOMAIN Order = 1 .. Len(Order) /\ 1 \in DOMAIN Order
  /\ \A i \in DOMAIN Order : Order[i] \in Provider
  /\ \A f \in File : Owner[f] \in Provider
BY LogsHaveOwners DEF Provider

\* What a process writes back: the longer of what it read and what it had.
LEMMA RowsAreLonger ==
  ASSUME TypeOK, NEW p \in Proc
  PROVE  /\ Rows(p) \in [File -> Nat]
         /\ \A f \in File : Rows(p)[f] >= mem[p].rows[f] /\ Rows(p)[f] >= got[p][f]
         /\ \A f \in File : Rows(p)[f] \in {mem[p].rows[f], got[p][f]}
BY DEF TypeOK, Rows, Snapshot

LEMMA InitEstablishesIInv == Init => IInv
<1> SUFFICES ASSUME Init PROVE IInv
  OBVIOUS
<1>1. TypeOK
  BY ProvidersInOrder, LogsHaveOwners DEF Init, TypeOK, Empty, NoLines, Snapshot, Place, Kind
<1>2. Prefixes
  <2>1. \A p \in Proc : mem[p] = Empty /\ got[p] = NoLines /\ start[p] = NoLines
    BY DEF Init
  <2>2. \A f \in File : lines[f] = 0 /\ NoLines[f] = 0 /\ Empty.rows[f] = 0
    BY DEF Init, NoLines, Empty
  <2>3. clock = 1 /\ \A r \in Provider : Empty.last[r] = 0
    BY DEF Init, Empty
  <2>4. ASSUME NEW p \in Proc, NEW f \in File
        PROVE  /\ mem[p].rows[f] <= lines[f]
               /\ got[p][f] <= lines[f] /\ start[p][f] <= lines[f]
    <3>1. mem[p].rows[f] = 0 /\ got[p][f] = 0 /\ start[p][f] = 0 /\ lines[f] = 0
      BY <2>1, <2>2
    <3> QED
      BY <3>1
  <2>5. ASSUME NEW p \in Proc, NEW r \in Provider
        PROVE  mem[p].last[r] <= clock
    <3>1. mem[p].last[r] = 0 /\ clock = 1
      BY <2>1, <2>3
    <3> QED
      BY <3>1
  <2> QED
    BY <2>4, <2>5 DEF Prefixes
<1>3. Honest(disk)
  BY DEF Init, Honest, Empty, NoLines
<1>4. LiveCopiesHonest /\ RunsComplete /\ FullCopies /\ IdleAtFirst
  BY DEF Init, LiveCopiesHonest, RunsComplete, FullCopies, IdleAtFirst
<1> QED
  BY <1>1, <1>2, <1>3, <1>4 DEF IInv

\* A longer copy with the same checkpoints stays honest.
LEMMA UpsertedIsHonest ==
  ASSUME TypeOK, Prefixes, NEW p \in Proc, Honest(mem[p])
  PROVE  /\ Upserted(p) \in Snapshot
         /\ Honest(Upserted(p))
         /\ Upserted(p).rows = Rows(p)
         /\ Upserted(p).last = mem[p].last
         /\ \A f \in File : Rows(p)[f] <= lines[f]
<1>1. mem[p] \in Snapshot
  BY DEF TypeOK
<1>2. /\ Upserted(p).rows = Rows(p) /\ Upserted(p).last = mem[p].last
      /\ Upserted(p) \in Snapshot
  BY <1>1, RowsAreLonger DEF Upserted, Snapshot
<1>3. \A f \in File : Rows(p)[f] <= lines[f]
  BY RowsAreLonger DEF Prefixes
<1>4. Honest(Upserted(p))
  BY <1>1, <1>2, RowsAreLonger DEF Honest, TypeOK, Snapshot
<1> QED
  BY <1>2, <1>3, <1>4

\* The checkpoint moves to now over logs that have all been read.
LEMMA MarkedIsHonest ==
  ASSUME TypeOK, Prefixes, LiveCopiesHonest, RunsComplete,
         NEW p \in Proc, pc[p] = "mark"
  PROVE  /\ Marked(p) \in Snapshot
         /\ Honest(Marked(p))
         /\ Marked(p).rows = mem[p].rows
         /\ \A r \in Provider : Marked(p).last[r] <= clock
<1>1. mem[p] \in Snapshot /\ Current(p) \in Provider
  BY ProvidersInOrder DEF TypeOK, Current
<1>2. /\ Marked(p).rows = mem[p].rows
      /\ Marked(p).last = [mem[p].last EXCEPT ![Current(p)] = clock]
      /\ Marked(p) \in Snapshot
  BY <1>1 DEF Marked, Snapshot, TypeOK
<1>3. \A r \in Provider :
        Marked(p).last[r] = IF r = Current(p) THEN clock ELSE mem[p].last[r]
  BY <1>1, <1>2 DEF Snapshot
<1>4. \A f \in File : Rows(p)[f] = mem[p].rows[f]
  <2>1. \A f \in File : got[p][f] <= mem[p].rows[f]
    BY DEF RunsComplete
  <2> QED
    BY <2>1, <1>1 DEF Rows, TypeOK, Snapshot
<1>5. Honest(Marked(p))
  <2> SUFFICES ASSUME NEW f \in File, Marked(p).rows[f] < lines[f]
               PROVE  mtime[f] > Marked(p).last[Owner[f]] \/ f \in blind
    BY DEF Honest
  <2>1. Honest(mem[p]) /\ mem[p].rows[f] < lines[f]
    BY <1>2 DEF LiveCopiesHonest
  <2>2. CASE Owner[f] = Current(p)
    BY <2>2, <2>1, <1>4 DEF RunsComplete
  <2>3. CASE Owner[f] # Current(p)
    BY <2>3, <2>1, <1>3, ProvidersInOrder DEF Honest
  <2> QED
    BY <2>2, <2>3
<1>6. \A r \in Provider : Marked(p).last[r] <= clock
  <2>1. clock \in Nat /\ \A r \in Provider : mem[p].last[r] <= clock
    BY DEF Prefixes, TypeOK
  <2> QED
    BY <2>1, <1>3
<1> QED
  BY <1>2, <1>5, <1>6

-----------------------------------------------------------------------------
(* The steps. *)

\* What a process may carry on with: an honest prefix of the logs.
Sound(copy) ==
  /\ copy \in Snapshot /\ Honest(copy)
  /\ \A f \in File : copy.rows[f] <= lines[f]
  /\ \A r \in Provider : copy.last[r] <= clock

ProcTypes ==
  /\ pc \in [Proc -> Place] /\ kind \in [Proc -> Kind]
  /\ at \in [Proc -> DOMAIN Order]
  /\ mem \in [Proc -> Snapshot] /\ got \in [Proc -> [File -> Nat]]
  /\ start \in [Proc -> [File -> Nat]]

\* The part of IInv about the processes.
ProcInv ==
  /\ ProcTypes /\ Prefixes
  /\ LiveCopiesHonest /\ RunsComplete /\ FullCopies /\ IdleAtFirst

LEMMA EmptyCopies ==
  /\ NoLines \in [File -> Nat] /\ \A f \in File : NoLines[f] = 0
  /\ Empty \in Snapshot
  /\ \A f \in File : Empty.rows[f] = 0
  /\ \A r \in Provider : Empty.last[r] = 0
BY DEF Empty, NoLines, Snapshot

\* A process that ends leaves the others as they were.
LEMMA FinishKeeps ==
  ASSUME IInv, NEW p \in Proc, Finish(p), UNCHANGED <<worldVars, blind>>
  PROVE  ProcInv'
<1> USE DEF IInv, Finish, Goto, worldVars
<1>1. ProcTypes'
  BY EmptyCopies, ProvidersInOrder DEF TypeOK, ProcTypes, Place, Kind
<1>2. \A q \in Proc \ {p} :
        /\ pc'[q] = pc[q] /\ kind'[q] = kind[q] /\ at'[q] = at[q]
        /\ mem'[q] = mem[q] /\ got'[q] = got[q] /\ start'[q] = start[q]
  BY DEF TypeOK
<1>3. pc'[p] = "idle" /\ mem'[p] = Empty /\ got'[p] = NoLines /\ start'[p] = NoLines
  BY DEF TypeOK
<1>4. Prefixes'
  <2> SUFFICES ASSUME NEW q \in Proc
               PROVE  /\ \A f \in File : /\ mem'[q].rows[f] <= lines[f]
                                         /\ got'[q][f] <= lines[f]
                                         /\ start'[q][f] <= lines[f]
                      /\ \A r \in Provider : mem'[q].last[r] <= clock
    BY DEF Prefixes
  <2>1. CASE q = p
    BY <2>1, <1>3, EmptyCopies DEF TypeOK
  <2>2. CASE q # p
    BY <2>2, <1>2 DEF Prefixes
  <2> QED
    BY <2>1, <2>2
<1>5. LiveCopiesHonest'
  BY <1>2, <1>3 DEF LiveCopiesHonest, Honest
<1>6. RunsComplete'
  BY <1>2, <1>3 DEF RunsComplete, Rows, Current
<1>7. FullCopies'
  BY <1>2, <1>3 DEF FullCopies, Rows, Current
<1>8. IdleAtFirst'
  BY <1>2 DEF IdleAtFirst, TypeOK
<1> QED
  BY <1>1, <1>4, <1>5, <1>6, <1>7, <1>8 DEF ProcInv

\* A process carries on with the next provider on a sound copy that has everything
\* its full scan promised so far.
LEMMA NextProviderKeeps ==
  ASSUME IInv, NEW p \in Proc, pc[p] # "idle", NEW copy, Sound(copy),
         kind[p] = "full" =>
           \A f \in File, i \in DOMAIN Order :
             i <= at[p] /\ Owner[f] = Order[i] => copy.rows[f] >= start[p][f],
         NextProvider(p, copy), UNCHANGED <<worldVars, blind>>
  PROVE  ProcInv'
<1>1. CASE at[p] = Len(Order) /\ Finish(p)
  BY <1>1, FinishKeeps
<1>2. CASE at[p] < Len(Order) /\ ~(at[p] = Len(Order) /\ Finish(p))
  <2> USE DEF IInv, Goto, worldVars
  <2>a. /\ pc' = [pc EXCEPT ![p] = "read"]
        /\ at' = [at EXCEPT ![p] = at[p] + 1]
        /\ mem' = [mem EXCEPT ![p] = copy]
        /\ got' = [got EXCEPT ![p] = NoLines]
        /\ kind' = kind /\ start' = start
    BY <1>2 DEF NextProvider
  <2>b. at[p] \in 1 .. Len(Order) /\ at[p] + 1 \in DOMAIN Order
    BY <1>2, ProvidersInOrder, LogsHaveOwners DEF TypeOK
  <2>1. ProcTypes'
    BY <2>a, <2>b, EmptyCopies DEF TypeOK, ProcTypes, Place, Sound
  <2>2. \A q \in Proc \ {p} :
          pc'[q] = pc[q] /\ at'[q] = at[q] /\ mem'[q] = mem[q] /\ got'[q] = got[q]
    BY <2>a DEF TypeOK
  <2>3. pc'[p] = "read" /\ at'[p] = at[p] + 1 /\ mem'[p] = copy /\ got'[p] = NoLines
    BY <2>a DEF TypeOK
  <2>4. Prefixes'
    <3> SUFFICES ASSUME NEW q \in Proc
                 PROVE  /\ \A f \in File : /\ mem'[q].rows[f] <= lines[f]
                                           /\ got'[q][f] <= lines[f]
                                           /\ start'[q][f] <= lines[f]
                        /\ \A r \in Provider : mem'[q].last[r] <= clock
      BY DEF Prefixes
    <3>1. CASE q = p
      BY <3>1, <2>a, <2>3, EmptyCopies DEF TypeOK, Sound, Prefixes
    <3>2. CASE q # p
      BY <3>2, <2>a, <2>2 DEF Prefixes
    <3> QED
      BY <3>1, <3>2
  <2>5. LiveCopiesHonest'
    BY <2>2, <2>3 DEF LiveCopiesHonest, Honest, Sound
  <2>6. RunsComplete'
    BY <2>2, <2>3 DEF RunsComplete, Rows, Current
  <2>7. FullCopies'
    <3> SUFFICES ASSUME NEW q \in Proc, kind[q] = "full", pc'[q] # "idle"
                 PROVE  /\ \A f \in File, i \in DOMAIN Order :
                             i < at'[q] /\ Owner[f] = Order[i] =>
                               mem'[q].rows[f] >= start[q][f]
                        /\ pc'[q] \in {"upsert", "mark"} =>
                             \A f \in File :
                               Owner[f] = Current(q)' => Rows(q)'[f] >= start[q][f]
      BY <2>a DEF FullCopies
    <3>1. CASE q = p
      <4>1. \A i \in DOMAIN Order : i < at'[q] => i <= at[p]
        BY <3>1, <2>3, <2>b, ProvidersInOrder
      <4> QED
        BY <4>1, <3>1, <2>3
    <3>2. CASE q # p
      BY <3>2, <2>2 DEF FullCopies, Rows, Current
    <3> QED
      BY <3>1, <3>2
  <2>8. IdleAtFirst'
    BY <2>2, <2>3 DEF IdleAtFirst
  <2> QED
    BY <2>1, <2>4, <2>5, <2>6, <2>7, <2>8 DEF ProcInv
<1> QED
  BY <1>1, <1>2 DEF NextProvider

\* Time passes, or a log grows.
LEMMA WorldSteps ==
  ASSUME IInv, Tick \/ \E f \in File : WriteLine(f)
  PROVE  IInv'
<1> USE DEF IInv, procVars
<1>1. CASE Tick
  <2> USE <1>1 DEF Tick
  <2>0. clock' = clock + 1 /\ clock \in Nat \ {0}
    BY DEF TypeOK
  <2>1. TypeOK' /\ Prefixes'
    <3>1. \A f \in File : mtime[f] <= clock'
      BY <2>0 DEF TypeOK
    <3>2. \A r \in Provider : disk.last[r] <= clock'
      BY <2>0 DEF TypeOK, Snapshot
    <3>3. \A p \in Proc, r \in Provider : mem[p].last[r] <= clock'
      BY <2>0 DEF TypeOK, Snapshot, Prefixes
    <3>4. TypeOK'
      BY <2>0, <3>1, <3>2 DEF TypeOK
    <3> QED
      BY <3>3, <3>4 DEF Prefixes
  <2>2. Honest(disk)' /\ LiveCopiesHonest'
    BY DEF Honest, LiveCopiesHonest
  <2>3. RunsComplete' /\ FullCopies' /\ IdleAtFirst'
    BY DEF RunsComplete, FullCopies, Rows, Current, IdleAtFirst
  <2> QED
    BY <2>1, <2>2, <2>3
<1>2. ASSUME NEW g \in File, WriteLine(g)
      PROVE  IInv'
  <2> USE <1>2 DEF WriteLine
  <2>1. /\ \A f \in File : /\ lines'[f] = IF f = g THEN lines[g] + 1 ELSE lines[f]
                           /\ mtime'[f] = IF f = g THEN clock ELSE mtime[f]
        /\ \A f \in File \ {g} : f \in blind => f \in blind'
        /\ ~Overtaken(g) => g \notin blind'
        /\ Overtaken(g) => g \in blind'
    BY DEF TypeOK
  <2>2. TypeOK' /\ Prefixes'
    <3>1. lines' \in [File -> Nat] /\ mtime' \in [File -> Nat] /\ blind' \subseteq File
      BY DEF TypeOK
    <3>2. \A f \in File : lines[f] <= lines'[f] /\ mtime'[f] <= clock
      BY <2>1 DEF TypeOK
    <3>3. TypeOK'
      BY <3>1, <3>2 DEF TypeOK, Snapshot
    <3>4. ASSUME NEW p \in Proc, NEW f \in File
          PROVE  mem[p].rows[f] <= lines'[f] /\ got[p][f] <= lines'[f] /\ start[p][f] <= lines'[f]
      BY <3>1, <3>2 DEF TypeOK, Snapshot, Prefixes
    <3> QED
      BY <3>3, <3>4 DEF Prefixes
  <2>3. Honest(disk)'
    <3> SUFFICES ASSUME NEW f \in File, disk.rows[f] < lines'[f]
                 PROVE  mtime'[f] > disk.last[Owner[f]] \/ f \in blind'
      BY DEF Honest
    <3>1. CASE f # g
      BY <3>1, <2>1 DEF Honest
    <3>2. CASE f = g
      BY <3>2, <2>1, ProvidersInOrder DEF Overtaken, TypeOK, Snapshot
    <3> QED
      BY <3>1, <3>2
  <2>4. LiveCopiesHonest'
    <3> SUFFICES ASSUME NEW p \in Proc, pc[p] # "idle",
                        NEW f \in File, mem[p].rows[f] < lines'[f]
                 PROVE  mtime'[f] > mem[p].last[Owner[f]] \/ f \in blind'
      BY DEF LiveCopiesHonest, Honest
    <3>1. CASE f # g
      BY <3>1, <2>1 DEF Honest, LiveCopiesHonest
    <3>2. CASE f = g /\ ~Overtaken(g)
      <4>1. mem[p].last[Owner[g]] \in Nat /\ clock \in Nat
        <5>1. mem[p].last \in [Provider -> Nat] /\ Owner[g] \in Provider
          BY ProvidersInOrder DEF TypeOK, Snapshot
        <5> QED
          BY <5>1 DEF TypeOK
      <4>2. ~(mem[p].last[Owner[g]] >= clock)
        BY <3>2 DEF Overtaken
      <4> QED
        BY <4>1, <4>2, <3>2, <2>1
    <3>3. CASE f = g /\ Overtaken(g)
      BY <3>3, <2>1
    <3> QED
      BY <3>1, <3>2, <3>3
  <2>5. RunsComplete'
    <3>1. ASSUME NEW p \in Proc, pc[p] \in {"upsert", "mark"},
                 NEW f \in File, Owner[f] = Current(p), Rows(p)[f] < lines'[f]
          PROVE  f \in blind'
      <4>1. CASE f # g
        BY <4>1, <3>1, <2>1 DEF RunsComplete
      <4>2. CASE f = g
        BY <4>2, <3>1, <2>1 DEF Overtaken
      <4> QED
        BY <4>1, <4>2
    <3> QED
      BY <3>1 DEF RunsComplete, Rows, Current
  <2>6. FullCopies' /\ IdleAtFirst'
    BY DEF FullCopies, Rows, Current, IdleAtFirst
  <2> QED
    BY <2>2, <2>3, <2>4, <2>5, <2>6
<1> QED
  BY <1>1, <1>2

\* A command opens the store.
LEMMA StartStep ==
  ASSUME IInv, NEW p \in Proc, NEW k \in Kind, Start(p, k)
  PROVE  IInv'
<1> USE DEF IInv, Start, Goto, worldVars
<1>1. \A q \in Proc \ {p} :
        /\ pc'[q] = pc[q] /\ kind'[q] = kind[q]
        /\ mem'[q] = mem[q] /\ start'[q] = start[q]
  BY DEF TypeOK
<1>2. /\ pc'[p] \in {"price", "read"} /\ mem'[p] = disk
      /\ start'[p] \in {lines, NoLines}
  BY DEF TypeOK
<1>3. TypeOK'
  BY EmptyCopies DEF TypeOK, Place
<1>4. Prefixes'
  <2>1. ASSUME NEW q \in Proc, NEW f \in File
        PROVE  mem'[q].rows[f] <= lines[f] /\ start'[q][f] <= lines[f]
    BY <1>1, <1>2, EmptyCopies DEF TypeOK, Prefixes
  <2>2. ASSUME NEW q \in Proc, NEW r \in Provider
        PROVE  mem'[q].last[r] <= clock
    BY <1>1, <1>2 DEF TypeOK, Prefixes
  <2> QED
    BY <2>1, <2>2 DEF Prefixes
<1>5. Honest(disk)' /\ LiveCopiesHonest'
  BY <1>1, <1>2 DEF LiveCopiesHonest, Honest
<1>6. RunsComplete'
  BY <1>1, <1>2 DEF RunsComplete, Rows, Current
<1>7. FullCopies'
  <2> SUFFICES ASSUME NEW q \in Proc, kind'[q] = "full", pc'[q] # "idle"
               PROVE  /\ \A f \in File, i \in DOMAIN Order :
                           i < at[q] /\ Owner[f] = Order[i] =>
                             mem'[q].rows[f] >= start'[q][f]
                      /\ pc'[q] \in {"upsert", "mark"} =>
                           \A f \in File :
                             Owner[f] = Current(q) => Rows(q)'[f] >= start'[q][f]
    BY DEF FullCopies, Current
  <2>1. CASE q = p
    <3>1. at[p] = 1
      BY DEF IdleAtFirst
    <3> QED
      BY <3>1, <2>1, <1>2, ProvidersInOrder
  <2>2. CASE q # p
    BY <2>2, <1>1 DEF FullCopies, Rows, Current
  <2> QED
    BY <2>1, <2>2
<1>8. IdleAtFirst'
  BY <1>1, <1>2 DEF IdleAtFirst
<1> QED
  BY <1>3, <1>4, <1>5, <1>6, <1>7, <1>8

-----------------------------------------------------------------------------
(* The steps of one process. *)

\* What the store file becomes when a sound copy replaces it.
DiskSound ==
  /\ disk \in Snapshot /\ stored \in [File -> Nat] /\ Honest(disk)
  /\ \A f \in File : disk.rows[f] <= lines[f]
  /\ \A r \in Provider : disk.last[r] <= clock

LEMMA PersistKeeps ==
  ASSUME IInv, NEW copy, Sound(copy), Persist(copy), UNCHANGED <<worldVars, blind>>
  PROVE  DiskSound'
BY DEF IInv, Sound, Persist, DiskSound, worldVars, TypeOK, Snapshot, Honest

LEMMA DiskUntouched ==
  ASSUME IInv, UNCHANGED <<worldVars, disk, stored, blind>>
  PROVE  DiskSound'
BY DEF IInv, DiskSound, worldVars, TypeOK, Honest

\* The parts make up the whole.
LEMMA PartsMakeIInv ==
  ASSUME IInv, ProcInv', DiskSound', UNCHANGED <<worldVars, blind>>,
         runs' \in [Proc -> Nat], faults' \in Nat
  PROVE  IInv'
BY DEF IInv, ProcInv, ProcTypes, DiskSound, worldVars, TypeOK

LEMMA LiveCopySound ==
  ASSUME IInv, NEW p \in Proc, pc[p] # "idle"
  PROVE  Sound(mem[p])
BY DEF IInv, Sound, LiveCopiesHonest, Prefixes, TypeOK

\* An absent provider, or a failed run, gives no full scan a claim it cannot keep.
LEMMA AbsentStep ==
  ASSUME IInv, NEW p \in Proc, Absent(p)
  PROVE  IInv'
<1> USE DEF IInv, Absent
<1>1. Sound(mem[p])
  BY LiveCopySound
<1>2. ASSUME kind[p] = "full", NEW f \in File, NEW i \in DOMAIN Order,
             i <= at[p], Owner[f] = Order[i]
      PROVE  mem[p].rows[f] >= start[p][f]
  <2>1. CASE i = at[p]
    <3>1. lines[f] = 0
      BY <1>2, <2>1 DEF Current
    <3>2. start[p][f] \in Nat /\ mem[p].rows[f] \in Nat /\ start[p][f] <= lines[f]
      BY DEF TypeOK, Snapshot, Prefixes
    <3> QED
      BY <3>1, <3>2
  <2>2. CASE i # at[p]
    <3>1. i < at[p]
      BY <1>2, <2>2, ProvidersInOrder DEF TypeOK
    <3> QED
      BY <3>1, <1>2 DEF FullCopies
  <2> QED
    BY <2>1, <2>2
<1>3. ProcInv'
  BY <1>1, <1>2, NextProviderKeeps
<1> QED
  BY <1>3, DiskUntouched, PartsMakeIInv DEF TypeOK

\* A run reads its provider's logs: those it leaves out it already has, or are blind.
LEMMA ReadStep ==
  ASSUME IInv, NEW p \in Proc, Read(p)
  PROVE  IInv'
<1> DEFINE seen == [f \in File |-> IF f \in Picked(p) THEN lines[f] ELSE 0]
<1> USE DEF IInv, worldVars
<1>1. /\ pc[p] = "read" /\ got' = [got EXCEPT ![p] = seen]
      /\ pc' = [pc EXCEPT ![p] = IF seen = NoLines THEN "mark" ELSE "upsert"]
      /\ UNCHANGED <<worldVars, disk, kind, at, mem, runs, start, faults, stored, blind>>
  BY DEF Read, Goto
<1>2. \A q \in Proc \ {p} : pc'[q] = pc[q] /\ got'[q] = got[q]
  BY <1>1 DEF TypeOK
<1>3. /\ got'[p] = seen /\ pc'[p] \in {"mark", "upsert"}
      /\ pc'[p] = "mark" => \A f \in File : seen[f] = 0
  BY <1>1 DEF TypeOK, NoLines
<1>4. seen \in [File -> Nat] /\ \A f \in File : seen[f] <= lines[f]
  BY DEF TypeOK
<1> HIDE DEF seen
<1>5. TypeOK'
  BY <1>1, <1>4 DEF TypeOK, Place
<1>6. Prefixes'
  BY <1>1, <1>2, <1>3, <1>4 DEF Prefixes
<1>7. Honest(disk)' /\ LiveCopiesHonest' /\ IdleAtFirst'
  BY <1>1, <1>2, <1>3 DEF Honest, LiveCopiesHonest, IdleAtFirst
<1>8. Rows(p)' = [f \in File |-> IF seen[f] > mem[p].rows[f] THEN seen[f] ELSE mem[p].rows[f]]
  BY <1>1, <1>3 DEF Rows
<1>9. ASSUME NEW f \in File, f \in Picked(p)
      PROVE  Rows(p)'[f] = lines[f]
  <2>1. seen[f] = lines[f]
    BY <1>9 DEF seen
  <2>2. mem[p].rows[f] \in Nat /\ lines[f] \in Nat /\ mem[p].rows[f] <= lines[f]
    BY DEF TypeOK, Snapshot, Prefixes
  <2> QED
    BY <2>1, <2>2, <1>8
<1>10. RunsComplete'
  <2>1. ASSUME NEW f \in File, Owner[f] = Current(p), Rows(p)'[f] < lines[f]
        PROVE  f \in blind
    <3>1. f \notin Picked(p)
      BY <1>9, <2>1 DEF TypeOK
    <3>2. Since(p) = mem[p].last[Current(p)] /\ ~(mtime[f] > Since(p))
      BY <3>1, <2>1 DEF Picked, Since
    <3>3. mem[p].rows[f] < lines[f]
      <4>1. seen[f] = 0
        BY <3>1 DEF seen
      <4>2. mem[p].rows[f] \in Nat
        BY DEF TypeOK, Snapshot
      <4> QED
        BY <4>1, <4>2, <1>8, <2>1
    <3>4. Honest(mem[p])
      BY <1>1 DEF LiveCopiesHonest
    <3> QED
      BY <3>2, <3>3, <3>4, <2>1 DEF Honest
  <2>2. ASSUME pc'[p] = "mark", NEW f \in File
        PROVE  seen[f] <= mem[p].rows[f]
    <3>1. seen[f] = 0 /\ mem[p].rows[f] \in Nat
      BY <1>3, <2>2 DEF TypeOK, Snapshot
    <3> QED
      BY <3>1
  <2>3. Current(p)' = Current(p)
    BY <1>1 DEF Current
  <2> SUFFICES ASSUME NEW q \in Proc
               PROVE  /\ pc'[q] \in {"upsert", "mark"} =>
                           \A f \in File : Owner[f] = Current(q)' /\ Rows(q)'[f] < lines[f]
                                            => f \in blind
                      /\ pc'[q] = "mark" => \A f \in File : got'[q][f] <= mem[q].rows[f]
    BY <1>1 DEF RunsComplete
  <2>4. CASE q = p
    BY <2>4, <2>1, <2>2, <2>3, <1>3
  <2>5. CASE q # p
    BY <2>5, <1>1, <1>2 DEF RunsComplete, Rows, Current
  <2> QED
    BY <2>4, <2>5
<1>11. FullCopies'
  <2>1. ASSUME kind[p] = "full", NEW f \in File, Owner[f] = Current(p)
        PROVE  Rows(p)'[f] >= start[p][f]
    <3>1. f \in Picked(p)
      BY <2>1 DEF Picked, Since
    <3>2. start[p][f] \in Nat /\ lines[f] \in Nat /\ start[p][f] <= lines[f]
      BY DEF TypeOK, Prefixes
    <3> QED
      BY <3>1, <3>2, <1>9
  <2>2. Current(p)' = Current(p)
    BY <1>1 DEF Current
  <2> SUFFICES ASSUME NEW q \in Proc, kind[q] = "full", pc'[q] # "idle"
               PROVE  /\ \A f \in File, i \in DOMAIN Order :
                           i < at[q] /\ Owner[f] = Order[i] => mem[q].rows[f] >= start[q][f]
                      /\ pc'[q] \in {"upsert", "mark"} =>
                           \A f \in File :
                             Owner[f] = Current(q)' => Rows(q)'[f] >= start[q][f]
    BY <1>1 DEF FullCopies
  <2>3. CASE q = p
    BY <2>3, <2>1, <2>2, <1>1 DEF FullCopies
  <2>4. CASE q # p
    BY <2>4, <1>1, <1>2 DEF FullCopies, Rows, Current
  <2> QED
    BY <2>3, <2>4
<1> QED
  BY <1>5, <1>6, <1>7, <1>10, <1>11

\* The copy gets its rows, and the disk with it when the write succeeds.
LEMMA UpsertStep ==
  ASSUME IInv, NEW p \in Proc, Upsert(p)
  PROVE  IInv'
<1> USE DEF IInv, worldVars
<1>1. /\ pc[p] = "upsert" /\ Persist(Upserted(p))
      /\ mem' = [mem EXCEPT ![p] = Upserted(p)] /\ pc' = [pc EXCEPT ![p] = "mark"]
      /\ UNCHANGED <<worldVars, kind, at, got, runs, start, faults, blind>>
  BY DEF Upsert, Goto
<1>2. Honest(mem[p])
  BY <1>1 DEF LiveCopiesHonest
<1>3. /\ Upserted(p) \in Snapshot /\ Honest(Upserted(p))
      /\ Upserted(p).rows = Rows(p) /\ Upserted(p).last = mem[p].last
      /\ \A f \in File : Rows(p)[f] <= lines[f]
  BY <1>2, UpsertedIsHonest
<1>4. Sound(Upserted(p))
  BY <1>3 DEF Sound, Prefixes
<1>5. DiskSound'
  BY <1>1, <1>4, PersistKeeps
<1>6. /\ \A q \in Proc \ {p} : pc'[q] = pc[q] /\ mem'[q] = mem[q]
      /\ pc'[p] = "mark" /\ mem'[p] = Upserted(p)
  BY <1>1 DEF TypeOK
<1>7. ProcTypes'
  BY <1>1, <1>3 DEF TypeOK, ProcTypes, Place
<1>8. Prefixes'
  <2> SUFFICES ASSUME NEW q \in Proc
               PROVE  /\ \A f \in File : mem'[q].rows[f] <= lines[f]
                      /\ \A r \in Provider : mem'[q].last[r] <= clock
    BY <1>1 DEF Prefixes
  <2>1. CASE q = p
    BY <2>1, <1>4, <1>6 DEF Sound
  <2>2. CASE q # p
    BY <2>2, <1>6 DEF Prefixes
  <2> QED
    BY <2>1, <2>2
<1>9. LiveCopiesHonest' /\ IdleAtFirst'
  BY <1>1, <1>3, <1>6 DEF LiveCopiesHonest, Honest, IdleAtFirst
<1>10. \A f \in File : /\ Rows(p)'[f] = Rows(p)[f]
                       /\ got'[p][f] <= mem'[p].rows[f]
                       /\ mem'[p].rows[f] = Rows(p)[f]
                       /\ mem'[p].rows[f] >= mem[p].rows[f]
  <2>1. \A f \in File : /\ Rows(p)[f] \in Nat /\ got[p][f] \in Nat
                        /\ Rows(p)[f] >= got[p][f] /\ Rows(p)[f] >= mem[p].rows[f]
    BY RowsAreLonger DEF TypeOK
  <2>2. mem'[p].rows = Rows(p) /\ got'[p] = got[p]
    BY <1>1, <1>3, <1>6
  <2>3. \A f \in File : Rows(p)'[f] = IF got'[p][f] > mem'[p].rows[f] THEN got'[p][f] ELSE mem'[p].rows[f]
    BY DEF Rows
  <2> QED
    BY <2>1, <2>2, <2>3
<1>11. RunsComplete'
  <2> SUFFICES ASSUME NEW q \in Proc
               PROVE  /\ pc'[q] \in {"upsert", "mark"} =>
                           \A f \in File : Owner[f] = Current(q)' /\ Rows(q)'[f] < lines[f]
                                            => f \in blind
                      /\ pc'[q] = "mark" => \A f \in File : got'[q][f] <= mem'[q].rows[f]
    BY <1>1 DEF RunsComplete
  <2>1. CASE q = p
    BY <2>1, <1>1, <1>10 DEF RunsComplete, Current
  <2>2. CASE q # p
    BY <2>2, <1>1, <1>6 DEF RunsComplete, Rows, Current
  <2> QED
    BY <2>1, <2>2
<1>12. FullCopies'
  <2> SUFFICES ASSUME NEW q \in Proc, kind[q] = "full", pc'[q] # "idle"
               PROVE  /\ \A f \in File, i \in DOMAIN Order :
                           i < at[q] /\ Owner[f] = Order[i] => mem'[q].rows[f] >= start[q][f]
                      /\ pc'[q] \in {"upsert", "mark"} =>
                           \A f \in File :
                             Owner[f] = Current(q)' => Rows(q)'[f] >= start[q][f]
    BY <1>1 DEF FullCopies
  <2>1. CASE q = p
    <3>1. \A f \in File : /\ start[p][f] \in Nat /\ mem[p].rows[f] \in Nat
                          /\ mem'[p].rows[f] \in Nat
      BY <1>7 DEF TypeOK, ProcTypes, Snapshot
    <3>2. \A f \in File, i \in DOMAIN Order :
            i < at[p] /\ Owner[f] = Order[i] => mem'[p].rows[f] >= start[p][f]
      <4>1. \A f \in File, i \in DOMAIN Order :
              i < at[p] /\ Owner[f] = Order[i] => mem[p].rows[f] >= start[p][f]
        BY <2>1, <1>1 DEF FullCopies
      <4> QED
        BY <4>1, <3>1, <1>10
    <3> QED
      BY <3>2, <2>1, <1>1, <1>10 DEF FullCopies, Current
  <2>2. CASE q # p
    BY <2>2, <1>1, <1>6 DEF FullCopies, Rows, Current
  <2> QED
    BY <2>1, <2>2
<1>13. ProcInv'
  BY <1>7, <1>8, <1>9, <1>11, <1>12 DEF ProcInv
<1> QED
  BY <1>1, <1>5, <1>13, PartsMakeIInv DEF TypeOK

\* The checkpoint moves, on disk when the write succeeds; the run ends.
LEMMA MarkStep ==
  ASSUME IInv, NEW p \in Proc, Mark(p)
  PROVE  /\ IInv'
         /\ kind[p] = "full" =>
              \A f \in File, i \in DOMAIN Order :
                i <= at[p] /\ Owner[f] = Order[i] => disk'.rows[f] >= start[p][f]
<1> USE DEF IInv
<1>1. /\ pc[p] = "mark" /\ Persist(Marked(p)) /\ NextProvider(p, Marked(p))
      /\ UNCHANGED <<worldVars, runs, faults, blind>>
  BY DEF Mark
<1>2. /\ Marked(p) \in Snapshot /\ Honest(Marked(p)) /\ Marked(p).rows = mem[p].rows
      /\ \A r \in Provider : Marked(p).last[r] <= clock
  BY <1>1, MarkedIsHonest
<1>3. Sound(Marked(p))
  BY <1>2 DEF Sound, Prefixes
<1>4. ASSUME kind[p] = "full", NEW f \in File, NEW i \in DOMAIN Order,
             i <= at[p], Owner[f] = Order[i]
      PROVE  Marked(p).rows[f] >= start[p][f]
  <2>1. CASE i = at[p]
    <3>1. Rows(p)[f] >= start[p][f]
      BY <1>1, <1>4, <2>1 DEF FullCopies, Current
    <3>2. got[p][f] <= mem[p].rows[f] /\ got[p][f] \in Nat /\ mem[p].rows[f] \in Nat
      BY <1>1 DEF RunsComplete, TypeOK, Snapshot
    <3>3. Rows(p)[f] = mem[p].rows[f]
      BY <3>2 DEF Rows
    <3> QED
      BY <3>1, <3>3, <1>2
  <2>2. CASE i # at[p]
    <3>1. i < at[p]
      BY <1>4, <2>2, ProvidersInOrder DEF TypeOK
    <3> QED
      BY <3>1, <1>1, <1>2, <1>4 DEF FullCopies
  <2> QED
    BY <2>1, <2>2
<1>5. ProcInv'
  BY <1>1, <1>3, <1>4, NextProviderKeeps
<1>6. DiskSound'
  BY <1>1, <1>3, PersistKeeps
<1>7. disk' = Marked(p)
  BY <1>1 DEF Persist
<1> QED
  BY <1>1, <1>4, <1>5, <1>6, <1>7, PartsMakeIInv DEF TypeOK

\* A fault: incrementalScan goes on with what it has, cmdScan ends.
LEMMA FailureStep ==
  ASSUME IInv, NEW p \in Proc, Fails(p)
  PROVE  IInv'
<1> USE DEF IInv, Fault
<1>1. pc[p] # "idle" /\ faults' = faults + 1
      /\ UNCHANGED <<worldVars, disk, runs, stored, blind>>
  BY DEF Fails, ReadFails, UpsertFails, MarkFails, Crash
<1>2. ProcInv'
  <2>1. ASSUME NEW copy, Sound(copy), AfterFailure(p, copy)
        PROVE  ProcInv'
    <3>1. CASE kind[p] = "incremental"
      BY <3>1, <2>1, <1>1, NextProviderKeeps DEF AfterFailure
    <3>2. CASE kind[p] # "incremental"
      BY <3>2, <2>1, <1>1, FinishKeeps DEF AfterFailure
    <3> QED
      BY <3>1, <3>2
  <2>2. Sound(mem[p])
    BY <1>1, LiveCopySound
  <2>3. CASE ReadFails(p)
    BY <2>1, <2>2, <2>3 DEF ReadFails
  <2>4. CASE UpsertFails(p)
    <3>1. Sound(Upserted(p))
      BY <1>1, UpsertedIsHonest DEF Sound, Prefixes, LiveCopiesHonest
    <3> QED
      BY <2>1, <2>4, <3>1 DEF UpsertFails
  <2>5. CASE MarkFails(p)
    <3>1. Sound(Marked(p))
      BY <2>5, MarkedIsHonest DEF Sound, Prefixes, MarkFails
    <3> QED
      BY <2>1, <2>5, <3>1 DEF MarkFails
  <2>6. CASE Crash(p)
    BY <2>6, <1>1, FinishKeeps DEF Crash
  <2> QED
    BY <2>3, <2>4, <2>5, <2>6 DEF Fails
<1> QED
  BY <1>1, <1>2, DiskUntouched, PartsMakeIInv DEF TypeOK

LEMMA RepriceStep ==
  ASSUME IInv, NEW p \in Proc, Reprice(p)
  PROVE  IInv'
<1> USE DEF IInv, Reprice
<1>1. Sound(mem[p])
  BY LiveCopySound
<1>2. ProcInv'
  BY FinishKeeps
<1>3. DiskSound'
  BY <1>1, PersistKeeps, DiskUntouched
<1> QED
  BY <1>2, <1>3, PartsMakeIInv DEF TypeOK

-----------------------------------------------------------------------------
(* The theorems. *)

LEMMA StepPreservesIInv == IInv /\ [Next]_vars => IInv'
<1> SUFFICES ASSUME IInv, [Next]_vars PROVE IInv'
  OBVIOUS
<1>1. CASE Tick \/ \E f \in File : WriteLine(f)
  BY <1>1, WorldSteps
<1>2. ASSUME NEW p \in Proc, NEW k \in Kind, Start(p, k) PROVE IInv'
  BY <1>2, StartStep
<1>3. ASSUME NEW p \in Proc, Step(p) PROVE IInv'
  BY <1>3, AbsentStep, ReadStep, UpsertStep, MarkStep, RepriceStep DEF Step
<1>4. ASSUME NEW p \in Proc, Fails(p) PROVE IInv'
  BY <1>4, FailureStep
<1>5. CASE UNCHANGED vars
  BY <1>5 DEF vars, worldVars, procVars, IInv, TypeOK, Prefixes, Honest, LiveCopiesHonest,
              RunsComplete, FullCopies, IdleAtFirst, Rows, Current
<1> QED
  BY <1>1, <1>2, <1>3, <1>4, <1>5 DEF Next

LEMMA IInvHolds == Spec => []IInv
BY InitEstablishesIInv, StepPreservesIInv, PTL DEF Spec

\* The store never holds more than the logs do, and its checkpoints are in the past.
THEOREM ScanTypeCorrect == Spec => []TypeOK
<1>1. IInv => TypeOK
  BY DEF IInv
<1> QED
  BY <1>1, IInvHolds, PTL

\* However many processes overwrite each other's copies, fail or die, a line missing
\* from the store was written after its provider's checkpoint, or in the reach of one.
THEOREM CheckpointsHonest == Spec => []HonestCheckpoint
<1>1. IInv => HonestCheckpoint
  BY DEF IInv, HonestCheckpoint
<1> QED
  BY <1>1, IInvHolds, PTL

\* A step that takes a full scan out of its last write is the write itself.
LEMMA OnlyMarkEndsARun ==
  ASSUME IInv, [Next]_vars, NEW p \in Proc,
         pc[p] = "mark", pc'[p] # "mark", faults' = faults
  PROVE  Mark(p)
<1> USE DEF IInv, TypeOK
<1>1. ~UNCHANGED vars /\ ~Tick /\ ~(\E f \in File : WriteLine(f))
  BY DEF vars, procVars, Tick, WriteLine
<1>2. \A q \in Proc, k \in Kind : ~Start(q, k)
  BY DEF Start, Goto
<1>3. \A q \in Proc : ~Fails(q)
  BY DEF Fails, ReadFails, UpsertFails, MarkFails, Crash, Fault
<1>4. PICK q \in Proc : Step(q)
  BY <1>1, <1>2, <1>3 DEF Next
<1>5. q = p
  <2>1. q # p => pc'[p] = pc[p]
    BY <1>4 DEF Step, Absent, Read, Upsert, Mark, Reprice, NextProvider, Finish, Goto
  <2> QED
    BY <2>1
<1> QED
  BY <1>4, <1>5 DEF Step, Absent, Read, Upsert, Reprice

\* scan --full keeps its promise with any number of processes writing beside it.
THEOREM FullScanKeepsItsPromise == Spec => FullScanCovers
<1>1. ASSUME IInv, [Next]_vars, NEW p \in Proc,
             kind[p] = "full", pc[p] = "mark", pc'[p] # "mark", faults' = faults,
             NEW f \in File, NEW i \in 1 .. at[p], Owner[f] = Order[i]
      PROVE  disk'.rows[f] >= start[p][f]
  <2>1. Mark(p)
    BY <1>1, OnlyMarkEndsARun
  <2>2. i \in DOMAIN Order /\ i <= at[p]
    BY <1>1, ProvidersInOrder DEF IInv, TypeOK
  <2> QED
    BY <2>1, <2>2, <1>1, MarkStep
<1>2. IInv /\ [Next]_vars =>
        [\A p \in Proc :
           kind[p] = "full" /\ pc[p] = "mark" /\ pc'[p] # "mark" /\ faults' = faults
           => \A f \in File, i \in 1 .. at[p] :
                Owner[f] = Order[i] => disk'.rows[f] >= start[p][f]]_vars
  BY <1>1
<1> QED
  BY <1>2, IInvHolds, PTL DEF Spec, FullScanCovers

==============================================================================
