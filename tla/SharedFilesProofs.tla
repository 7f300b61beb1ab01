-------------------------- MODULE SharedFilesProofs --------------------------
(***************************************************************************)
(* Proofs about the files that processes share without a store: sync.lock   *)
(* (SyncLock) and the settings (Settings), for any processes, files, keys   *)
(* and plans.                                                               *)
(*                                                                         *)
(* Exclusion is inductive once it is known that a process removes a lock it *)
(* did not create only after some file was seen past its TTL.               *)
(*                                                                         *)
(* None of the properties of the settings is inductive: each is about a     *)
(* file that nobody is writing, and what it holds then was in a process's   *)
(* memory before.  SettingsInv therefore follows the copies: as long as no   *)
(* write cut into another's (mixed), one process writes a file at a time    *)
(* and it is empty meanwhile; as long as no copy was overtaken (stale), one *)
(* process has a copy at a time, and it is the file with its key set.  Of    *)
(* each plan that counts as chosen one process at most is at the set, and   *)
(* what is done of it is what the settings would be.                        *)
(***************************************************************************)
EXTENDS SyncLock, Settings, FiniteSetTheorems, SequenceTheorems, WellFoundedInduction, TLAPS

-----------------------------------------------------------------------------
(* The sync lock. *)

\* Who is about to remove a lock has seen it past its TTL, or another that was.
StealersSawStale == \A p \in Proc : pc[p] = "steal" => aged

LockInv == LockTypeOK /\ StealersSawStale /\ ExclusiveWhileFresh

LEMMA LockInitIsInside == LockInit => LockInv
<1> SUFFICES ASSUME LockInit PROVE LockInv
  OBVIOUS
<1>1. pc \in [Proc -> Place] /\ \A p \in Proc : pc[p] = "idle"
  BY DEF LockInit, Place
<1>2. runs \in [Proc -> Nat] /\ faults \in Nat
  BY DEF LockInit
<1>3. lock = NoLock /\ held = {} /\ aged = FALSE
  BY DEF LockInit
<1> QED
  BY <1>1, <1>2, <1>3 DEF LockInv, LockTypeOK, StealersSawStale, ExclusiveWhileFresh

LEMMA LockStepsStayInside == LockInv /\ [LockNext]_lockVars => LockInv'
<1> SUFFICES ASSUME LockInv, [LockNext]_lockVars PROVE LockInv'
  OBVIOUS
<1> USE DEF LockInv, Goto, Fault
<1>1. CASE Tick
  <2>1. lock \in LockFile /\ lock'.owner = lock.owner /\ lock'.age = lock.age + 1
    BY <1>1 DEF Tick, LockTypeOK, LockFile
  <2>2. lock' \in LockFile
    BY <1>1, <2>1, LockParameters DEF Tick, LockFile
  <2>3. lock' # NoLock
    BY <2>2, LockParameters DEF LockFile
  <2> QED
    BY <1>1, <2>1, <2>2, <2>3 DEF Tick, LockTypeOK, StealersSawStale, ExclusiveWhileFresh
<1>2. ASSUME NEW p \in Proc, BeginSync(p) PROVE LockInv'
  BY <1>2 DEF BeginSync, LockTypeOK, StealersSawStale, ExclusiveWhileFresh, Place
<1>3. ASSUME NEW p \in Proc, Stat(p) PROVE LockInv'
  BY <1>3 DEF Stat, Stale, LockTypeOK, StealersSawStale, ExclusiveWhileFresh, Place
<1>4. ASSUME NEW p \in Proc, Steal(p) PROVE LockInv'
  BY <1>4 DEF Steal, LockTypeOK, StealersSawStale, ExclusiveWhileFresh, Place
<1>5. ASSUME NEW p \in Proc, Create(p) PROVE LockInv'
  <2>1. CASE lock # NoLock
    BY <1>5, <2>1 DEF Create, LockTypeOK, StealersSawStale, ExclusiveWhileFresh, Place
  <2>2. CASE lock = NoLock
    <3>1. lock' = [owner |-> p, age |-> 0] /\ lock' \in LockFile /\ lock'.owner = p
      BY <1>5, <2>2, LockParameters DEF Create, LockFile
    <3>2. lock' # NoLock
      BY <3>1, LockParameters DEF LockFile
    <3> QED
      BY <1>5, <2>2, <3>1, <3>2
         DEF Create, LockTypeOK, StealersSawStale, ExclusiveWhileFresh, Place
  <2> QED
    BY <2>1, <2>2
<1>6. ASSUME NEW p \in Proc, FailOpen(p) PROVE LockInv'
  BY <1>6 DEF FailOpen, LockTypeOK, StealersSawStale, ExclusiveWhileFresh, Place
<1>7. ASSUME NEW p \in Proc, Release(p) PROVE LockInv'
  BY <1>7 DEF Release, LockTypeOK, StealersSawStale, ExclusiveWhileFresh, Place
<1>8. ASSUME NEW p \in Proc, Crash(p) PROVE LockInv'
  BY <1>8 DEF Crash, LockTypeOK, StealersSawStale, ExclusiveWhileFresh, Place
<1>9. CASE UNCHANGED lockVars
  BY <1>9 DEF lockVars, LockTypeOK, StealersSawStale, ExclusiveWhileFresh
<1> QED
  BY <1>1, <1>2, <1>3, <1>4, <1>5, <1>6, <1>7, <1>8, <1>9 DEF LockNext, Step

\* Until a lock file outlives its TTL, two syncs never run at once under the lock,
\* whatever crashes, skipped syncs and failed creates happen.
THEOREM LockExcludes == LockSpec => [](LockTypeOK /\ ExclusiveWhileFresh)
<1>1. LockInv => LockTypeOK /\ ExclusiveWhileFresh
  BY DEF LockInv
<1> QED
  BY <1>1, LockInitIsInside, LockStepsStayInside, PTL DEF LockSpec

-----------------------------------------------------------------------------
(* The settings: what is known of the files, of the copies and of the pickers. *)

\* What a process may have to write.
Value == Ceilings \cup Range(Plans) \cup Dates

KeyJobs == {KeyJob(k, v) : k \in Keys, v \in Value}

AnyJob == KeyJobs \cup {TrailersJob(t) : t \in TrailerSettings}

IsLines(lines) == lines \in Seq(Range(lines))

FilesTyped ==
  /\ disk = [config |-> disk.config, repo |-> disk.repo]
  /\ IsLines(disk.config) /\ IsLines(disk.repo)
  /\ asSet = [config |-> asSet.config, repo |-> asSet.repo, trailers |-> asSet.trailers]
  /\ asSet.config = [k \in Keys |-> asSet.config[k]]
  /\ sets \in Nat

ProcTyped ==
  /\ proc = [x \in Process |-> [pc |-> proc[x].pc, jobs |-> proc[x].jobs, lines |-> proc[x].lines]]
  /\ \A x \in Process :
       /\ proc[x].pc \in {"idle", "read", "truncate", "write"}
       /\ IF proc[x].pc = "idle" THEN proc[x].jobs = <<>>
          ELSE proc[x].jobs \in Seq(AnyJob) /\ proc[x].jobs # <<>>
       /\ IsLines(proc[x].lines)

\* A date is asked for the plan under the cursor.
PickerOK(pk) ==
  /\ pk = [phase |-> pk.phase, pcursor |-> pk.pcursor, cursor |-> pk.cursor,
           chosen |-> pk.chosen, start |-> pk.start]
  /\ pk.phase \in {"closed", "provider", "plan", "date"}
  /\ Providers # <<>> => pk.pcursor \in DOMAIN Providers
  /\ pk.cursor \in DOMAIN Plans /\ pk.start \in Dates
  /\ pk.phase = "date" => pk.chosen = Plans[pk.cursor] /\ pk.chosen # "api"

PickersTyped ==
  /\ picker = [x \in Explorers |-> picker[x]]
  /\ \A x \in Explorers : PickerOK(picker[x])
  /\ chosen \in [Owner -> SUBSET [id : Range(Plans), start : Dates]]

-----------------------------------------------------------------------------
\* Who is between the read and the end of the write of a file.
Busy(f) == {x \in Process : proc[x].pc \in {"truncate", "write"} /\ Job(x).file = f}

\* Of two that write at once the second has spoiled the file.
OneWrites == \A f \in File \ mixed : \A x \in Writing(f) :
                disk[f] = <<>> /\ \A y \in Writing(f) : y = x

\* Of two with a copy the second has made the file stale.
OneCopies == \A f \in File \ stale : \A x \in Busy(f) :
                /\ \A y \in Busy(f) : y = x
                /\ proc[x].pc = "truncate" => proc[x].lines = Apply(Job(x), disk[f])

\* No key is there twice and every line parses.
Clean(lines) == /\ ~Unreadable(lines)
                /\ \A i, j \in DOMAIN lines :
                      /\ lines[i].kind = "entry" /\ lines[j].kind = "entry"
                      /\ lines[i].name = lines[j].name
                      => i = j

ConfigWhole ==
  "config" \notin mixed =>
     /\ Clean(disk.config)
     /\ \A x \in Busy("config") :
           Clean(proc[x].lines) /\ Lookup(proc[x].lines, Job(x).key) = Job(x).value
     /\ Writing("config") = {} => \A job \in last : Lookup(disk.config, job.key) = job.value

ConfigAsSet ==
  "config" \notin mixed \cup stale =>
     /\ Writing("config") = {} => Parsed(disk.config) = asSet.config
     /\ \A x \in Writing("config") :
           Parsed(proc[x].lines) = [asSet.config EXCEPT ![Job(x).key] = Job(x).value]

\* Every line parses and the repository's other keys are not in the trailers' sections.
Tidy(lines) == /\ ~Unreadable(lines)
               /\ \A k \in Others : \A i \in At(lines, k) : SectionOf(lines, i) \notin Sections

RepoWhole ==
  "repo" \notin mixed => Tidy(disk.repo) /\ \A x \in Busy("repo") : Tidy(proc[x].lines)

SaysRepo(lines, t) ==
  LoadTrailers(lines) = t /\ \A k \in Others : Lookup(lines, k) = asSet.repo[k]

RepoAsSet ==
  "repo" \notin mixed \cup stale =>
     /\ Writing("repo") = {} => SaysRepo(disk.repo, asSet.trailers)
     /\ \A x \in Writing("repo") : SaysRepo(proc[x].lines, Job(x).value)

\* One process at most is at the set of a plan that counts as chosen, and what is
\* done of it is what the settings would be.
ChosenInv ==
  \A p \in Owner : \A c \in chosen[p] :
     /\ \A x \in SettingPlanOf(p) :
           /\ \A y \in SettingPlanOf(p) : y = x
           /\ \/ proc[x].jobs = PlanJobs(p, c.id, c.start)
              \/ /\ c.id # "api" /\ proc[x].jobs = <<KeyJob(StartKey(p), c.start)>>
                 /\ asSet.config[PlanKey(p)] = c.id
     /\ SettingPlanOf(p) = {} =>
           /\ asSet.config[PlanKey(p)] = c.id
           /\ c.id # "api" => asSet.config[StartKey(p)] = c.start

\* The files and the processes; then all of it.
FilesInv == /\ FilesTyped /\ ProcTyped /\ OneWrites /\ OneCopies
            /\ ConfigWhole /\ ConfigAsSet /\ RepoWhole /\ RepoAsSet

SettingsInv == FilesInv /\ PickersTyped /\ ChosenInv

-----------------------------------------------------------------------------
(* The least and the greatest of some places. *)

LEMMA LeastExists ==
  ASSUME NEW S \in SUBSET Nat, S # {}
  PROVE  Least(S) \in S /\ \A j \in S : Least(S) <= j
<1> DEFINE R == {ss \in Nat \X Nat : ss[1] < ss[2]}
<1>1. IsWellFoundedOn(R, Nat)
  BY NatLessThanWellFounded, Zenon DEF OpToRel
<1>2. PICK i \in S : \A j \in S : ~ (<<j, i>> \in R)
  <2> HIDE DEF R
  <2> QED BY <1>1, WFMin
<1>3. \A j \in S : i <= j
  <2> SUFFICES ASSUME NEW j \in S PROVE i <= j
    OBVIOUS
  <2>1. i \in Nat /\ j \in Nat
    OBVIOUS
  <2>2. ~ (<<j, i>> \in R)
    BY <1>2
  <2>3. ~ (j < i)
    BY <2>1, <2>2
  <2> QED BY <2>1, <2>3
<1> QED BY <1>3 DEF Least

LEMMA LeastIs ==
  ASSUME NEW S \in SUBSET Nat, NEW i \in S, \A j \in S : i <= j
  PROVE  Least(S) = i
<1>1. Least(S) \in S /\ \A j \in S : Least(S) <= j
  BY LeastExists
<1>2. Least(S) \in Nat /\ i \in Nat /\ i <= Least(S) /\ Least(S) <= i
  BY <1>1
<1> QED BY <1>2

LEMMA GreatestExists ==
  ASSUME NEW n \in Nat, NEW S \in SUBSET (1 .. n), S # {}
  PROVE  Greatest(S) \in S /\ \A j \in S : Greatest(S) >= j
<1> DEFINE T == {n - j : j \in S}
<1>0. \A j \in S : j \in Nat /\ n - j \in Nat
  OBVIOUS
<1>1. T \in SUBSET Nat /\ T # {}
  BY <1>0
<1>2. PICK d \in T : \A e \in T : d <= e
  <2> HIDE DEF T
  <2> QED BY <1>1, LeastExists
<1>3. PICK i \in S : d = n - i
  BY <1>2
<1>4. \A j \in S : i >= j
  <2> TAKE j \in S
  <2>1. n - i <= n - j
    BY <1>2, <1>3
  <2>2. i \in Nat /\ j \in Nat
    BY <1>0
  <2> QED BY <2>1, <2>2
<1> QED BY <1>3, <1>4 DEF Greatest

LEMMA GreatestIs ==
  ASSUME NEW S \in SUBSET Nat, NEW i \in S, \A j \in S : i >= j
  PROVE  Greatest(S) = i
<1>1. \E g \in S : \A j \in S : g >= j
  OBVIOUS
<1>2. Greatest(S) \in S /\ \A j \in S : Greatest(S) >= j
  BY <1>1 DEF Greatest
<1>3. Greatest(S) \in Nat /\ i \in Nat /\ i <= Greatest(S) /\ Greatest(S) <= i
  BY <1>2
<1> QED BY <1>3

-----------------------------------------------------------------------------
(* Sequences of lines. *)

LEMMA SequencesAreLines ==
  ASSUME NEW T, NEW s \in Seq(T)
  PROVE  IsLines(s)
BY SeqOfRange DEF IsLines

LEMMA LinesAreASequence ==
  ASSUME NEW lines, IsLines(lines)
  PROVE  /\ Len(lines) \in Nat /\ DOMAIN lines = 1 .. Len(lines)
         /\ lines = [i \in 1 .. Len(lines) |-> lines[i]]
<1>1. lines \in [1 .. Len(lines) -> Range(lines)] /\ Len(lines) \in Nat
  BY DEF IsLines
<1> QED BY <1>1

LEMMA EmptyIsLines == IsLines(<<>>)
BY SequencesAreLines, <<>> \in Seq({})

LEMMA AppendLines ==
  ASSUME NEW lines, IsLines(lines), NEW l
  PROVE  /\ IsLines(Append(lines, l)) /\ Len(Append(lines, l)) = Len(lines) + 1
         /\ DOMAIN Append(lines, l) = 1 .. Len(lines) + 1
         /\ \A i \in 1 .. Len(lines) : Append(lines, l)[i] = lines[i]
         /\ Append(lines, l)[Len(lines) + 1] = l
<1> DEFINE T == Range(lines) \cup {l}
<1>1. lines \in [1 .. Len(lines) -> T] /\ Len(lines) \in Nat
  BY LinesAreASequence DEF Range
<1>2. lines \in Seq(T)
  <2> HIDE DEF T
  <2> QED BY <1>1, SeqDef
<1>3. l \in T
  OBVIOUS
<1>4. Append(lines, l) \in Seq(T) /\ Len(Append(lines, l)) = Len(lines) + 1
      /\ (\A i \in 1 .. Len(lines) : Append(lines, l)[i] = lines[i])
      /\ Append(lines, l)[Len(lines) + 1] = l
  <2> HIDE DEF T
  <2> QED BY <1>2, <1>3
<1>5. IsLines(Append(lines, l))
  <2> HIDE DEF T
  <2> QED BY <1>4, SequencesAreLines
<1> QED BY <1>4, <1>5, LinesAreASequence

LEMMA ReplaceLines ==
  ASSUME NEW lines, IsLines(lines), NEW i \in DOMAIN lines, NEW l
  PROVE  IsLines([lines EXCEPT ![i] = l])
<1> DEFINE T == Range(lines) \cup {l}
           s == [lines EXCEPT ![i] = l]
<1>1. lines \in [1 .. Len(lines) -> T] /\ Len(lines) \in Nat
  BY LinesAreASequence DEF Range
<1>2. s \in [1 .. Len(lines) -> T]
  BY <1>1
<1>3. s \in Seq(T)
  <2> HIDE DEF T, s
  <2> QED BY <1>1, <1>2, SeqDef
<1> QED
  <2> HIDE DEF T
  <2> QED BY <1>3, SequencesAreLines

-----------------------------------------------------------------------------
(* A key is set. *)

LEMMA AtPlaces ==
  ASSUME NEW lines, IsLines(lines), NEW key
  PROVE  At(lines, key) \in SUBSET (1 .. Len(lines)) /\ At(lines, key) \in SUBSET Nat
         /\ Len(lines) \in Nat
<1>1. Len(lines) \in Nat /\ DOMAIN lines = 1 .. Len(lines)
  BY LinesAreASequence
<1> QED BY <1>1 DEF At

\* A key that is there once: the line that says it is the first and the last.
LEMMA LookupOnce ==
  ASSUME NEW lines, IsLines(lines), NEW key, NEW i, At(lines, key) = {i}
  PROVE  i \in DOMAIN lines /\ Least(At(lines, key)) = i /\ Lookup(lines, key) = lines[i].value
<1>1. i \in DOMAIN lines /\ i \in Nat
  BY LinesAreASequence DEF At
<1>2. Greatest(At(lines, key)) = i
  BY <1>1, GreatestIs, {i} \in SUBSET Nat
<1>3. Least(At(lines, key)) = i
  BY <1>1, LeastIs, {i} \in SUBSET Nat
<1> QED BY <1>1, <1>2, <1>3 DEF Lookup

\* Files that agree on the lines of a key agree on its value.
LEMMA SameLines ==
  ASSUME NEW s, NEW t, NEW key, At(s, key) = At(t, key),
         \A i \in At(s, key) : s[i] = t[i], IsLines(s)
  PROVE  Lookup(s, key) = Lookup(t, key)
<1>1. CASE At(s, key) = {}
  BY <1>1 DEF Lookup
<1>2. CASE At(s, key) # {}
  <2>1. Greatest(At(s, key)) \in At(s, key)
    BY <1>2, GreatestExists, AtPlaces
  <2> QED BY <1>2, <2>1 DEF Lookup
<1> QED BY <1>1, <1>2

LEMMA KeyIsAppended ==
  ASSUME NEW lines, IsLines(lines), Clean(lines), NEW key, NEW value, At(lines, key) = {}
  PROVE  /\ IsLines(SetKey(lines, key, value)) /\ Clean(SetKey(lines, key, value))
         /\ Lookup(SetKey(lines, key, value), key) = value
         /\ \A k : k # key => Lookup(SetKey(lines, key, value), k) = Lookup(lines, k)
<1> DEFINE s == Append(lines, Entry(key, value))
           n == Len(lines) + 1
<1>1. SetKey(lines, key, value) = s
  BY DEF SetKey
<1>2. /\ IsLines(s) /\ DOMAIN s = 1 .. n /\ s[n] = Entry(key, value)
      /\ \A i \in 1 .. Len(lines) : s[i] = lines[i]
  BY AppendLines
<1>3. Len(lines) \in Nat /\ DOMAIN lines = 1 .. Len(lines)
  BY LinesAreASequence
<1>4. DOMAIN s = DOMAIN lines \cup {n} /\ n \notin DOMAIN lines /\ n \in Nat
  BY <1>2, <1>3
<1> HIDE DEF s, n
<1>5. s[n].kind = "entry" /\ s[n].name = key /\ s[n].value = value
  BY <1>2 DEF Entry
<1>6. \A i \in DOMAIN lines : s[i] = lines[i]
  BY <1>2, <1>3
<1>7. At(s, key) = {n}
  BY <1>4, <1>5, <1>6 DEF At
<1>8. \A k : k # key => At(s, k) = At(lines, k)
  BY <1>4, <1>5, <1>6 DEF At
<1>9. Lookup(s, key) = value
  <2>1. IsLines(s)
    BY <1>2
  <2>2. Lookup(s, key) = s[n].value
    BY <2>1, <1>7, LookupOnce
  <2> QED BY <2>2, <1>5
<1>10. \A k : k # key => Lookup(s, k) = Lookup(lines, k)
  <2> SUFFICES ASSUME NEW k, k # key PROVE Lookup(s, k) = Lookup(lines, k)
    OBVIOUS
  <2>1. \A i \in At(s, k) : s[i] = lines[i]
    BY <1>8, <1>6 DEF At
  <2> QED BY <1>2, <1>8, <2>1, SameLines
<1>11. Clean(s)
  <2>1. ~ Unreadable(s)
    BY <1>4, <1>5, <1>6 DEF Clean, Unreadable
  <2>2. \A i \in DOMAIN lines : ~ (lines[i].kind = "entry" /\ lines[i].name = key)
    BY DEF At
  <2> QED BY <2>1, <2>2, <1>4, <1>5, <1>6 DEF Clean
<1> QED BY <1>1, <1>2, <1>9, <1>10, <1>11

LEMMA KeyIsReplaced ==
  ASSUME NEW lines, IsLines(lines), Clean(lines), NEW key, NEW value, At(lines, key) # {}
  PROVE  /\ IsLines(SetKey(lines, key, value)) /\ Clean(SetKey(lines, key, value))
         /\ Lookup(SetKey(lines, key, value), key) = value
         /\ \A k : k # key => Lookup(SetKey(lines, key, value), k) = Lookup(lines, k)
<1>1. PICK i : i \in At(lines, key)
  OBVIOUS
<1>2. At(lines, key) = {i} /\ i \in DOMAIN lines
  BY <1>1 DEF At, Clean
<1> DEFINE s == [lines EXCEPT ![i] = Entry(key, value)]
<1>3. SetKey(lines, key, value) = s
  BY <1>1, <1>2, LookupOnce DEF SetKey
<1>4. IsLines(s)
  BY <1>2, ReplaceLines
<1>5. DOMAIN s = DOMAIN lines /\ \A j \in DOMAIN lines : j # i => s[j] = lines[j]
  OBVIOUS
<1>6. s[i] = Entry(key, value)
  BY <1>2
<1> HIDE DEF s
<1>7. s[i].kind = "entry" /\ s[i].name = key /\ s[i].value = value
  BY <1>6 DEF Entry
<1>9. \A k : At(s, k) = At(lines, k)
  <2>1. lines[i].kind = "entry" /\ lines[i].name = key
    BY <1>1 DEF At
  <2> QED BY <2>1, <1>2, <1>5, <1>7 DEF At
<1>10. Lookup(s, key) = value
  BY <1>2, <1>4, <1>7, <1>9, LookupOnce
<1>11. \A k : k # key => Lookup(s, k) = Lookup(lines, k)
  <2> SUFFICES ASSUME NEW k, k # key PROVE Lookup(s, k) = Lookup(lines, k)
    OBVIOUS
  <2>1. \A j \in At(s, k) : s[j] = lines[j]
    BY <1>5, <1>7 DEF At
  <2> QED BY <1>4, <1>9, <2>1, SameLines
<1>12. Clean(s)
  <2>1. ~ Unreadable(s)
    BY <1>5, <1>7 DEF Clean, Unreadable
  <2>2. \A j \in DOMAIN lines : lines[j].kind = "entry" /\ lines[j].name = key => j = i
    BY <1>2 DEF At
  <2> QED BY <2>1, <2>2, <1>2, <1>5, <1>7 DEF Clean
<1> QED BY <1>3, <1>4, <1>10, <1>11, <1>12

\* A set of a key in a file that has no key twice gives the key its value, leaves every
\* other key its own, and no key is there twice afterwards.
LEMMA KeyIsSet ==
  ASSUME NEW lines, IsLines(lines), Clean(lines), NEW key, NEW value
  PROVE  /\ IsLines(SetKey(lines, key, value)) /\ Clean(SetKey(lines, key, value))
         /\ Lookup(SetKey(lines, key, value), key) = value
         /\ \A k : k # key => Lookup(SetKey(lines, key, value), k) = Lookup(lines, k)
BY KeyIsAppended, KeyIsReplaced

LEMMA ParsedIsSet ==
  ASSUME NEW lines, IsLines(lines), Clean(lines), NEW key \in Keys, NEW value
  PROVE  Parsed(SetKey(lines, key, value)) = [Parsed(lines) EXCEPT ![key] = value]
<1> DEFINE s == SetKey(lines, key, value)
<1>1. /\ Clean(s) /\ Lookup(s, key) = value
      /\ \A k : k # key => Lookup(s, k) = Lookup(lines, k)
  BY KeyIsSet
<1> HIDE DEF s
<1>2. Parsed(s) = [k \in Keys |-> Lookup(s, k)]
  BY <1>1 DEF Parsed, Clean
<1>3. Parsed(lines) = [k \in Keys |-> Lookup(lines, k)]
  BY DEF Parsed, Clean
<1> QED BY <1>1, <1>2, <1>3 DEF s

-----------------------------------------------------------------------------
(* The lines at some places, in their order. *)

LEMMA PlacesAreFinite ==
  ASSUME NEW n \in Nat, NEW K \in SUBSET (1 .. n)
  PROVE  /\ IsFiniteSet(K) /\ Cardinality(K) \in Nat
         /\ \A i \in Nat : IsFiniteSet({j \in K : j <= i}) /\ Rank(K, i) \in Nat
<1>1. IsFiniteSet(1 .. n)
  BY FS_Interval
<1>2. IsFiniteSet(K)
  BY <1>1, FS_Subset
<1>3. \A i \in Nat : IsFiniteSet({j \in K : j <= i})
  <2> TAKE i \in Nat
  <2>1. {j \in K : j <= i} \in SUBSET K
    OBVIOUS
  <2> QED BY <1>2, <2>1, FS_Subset
<1> QED BY <1>2, <1>3, FS_CardinalityType DEF Rank

\* A place counts one more than the number before it, another number the same.
LEMMA RankStep ==
  ASSUME NEW n \in Nat, NEW K \in SUBSET (1 .. n), NEW i \in 1 .. n
  PROVE  Rank(K, i) = IF i \in K THEN Rank(K, i - 1) + 1 ELSE Rank(K, i - 1)
<1> DEFINE before == {j \in K : j <= i - 1}
           upto   == {j \in K : j <= i}
<1>0. \A j \in K : j \in Nat /\ 1 <= j /\ j <= n
  OBVIOUS
<1>1. i \in Nat /\ i - 1 \in Nat /\ i \notin before
  OBVIOUS
<1>2. IsFiniteSet(before)
  BY <1>1, PlacesAreFinite
<1>5. \A j \in K : j <= i <=> j <= i - 1 \/ j = i
  BY <1>0, <1>1
<1>3. CASE i \in K
  <2>1. upto = before \cup {i}
    BY <1>3, <1>5
  <2>2. Cardinality(before \cup {i}) = Cardinality(before) + 1
    <3> HIDE DEF before
    <3> QED BY <1>1, <1>2, FS_AddElement
  <2> QED BY <1>3, <2>1, <2>2 DEF Rank
<1>4. CASE i \notin K
  <2>1. upto = before
    BY <1>4, <1>5
  <2> QED BY <1>4, <2>1 DEF Rank
<1> QED BY <1>3, <1>4

LEMMA RankEnds ==
  ASSUME NEW n \in Nat, NEW K \in SUBSET (1 .. n)
  PROVE  Rank(K, 0) = 0 /\ Rank(K, n) = Cardinality(K)
<1>0. \A j \in K : j \in Nat /\ 1 <= j /\ j <= n
  OBVIOUS
<1>1. {j \in K : j <= 0} = {} /\ {j \in K : j <= n} = K
  <2>1. \A j \in K : ~ (j <= 0) /\ j <= n
    BY <1>0
  <2> QED BY <2>1
<1> QED BY <1>1, FS_EmptySet DEF Rank

LEMMA RankGrows ==
  ASSUME NEW n \in Nat, NEW K \in SUBSET (1 .. n), NEW i \in K, NEW j \in K, i < j
  PROVE  Rank(K, i) < Rank(K, j)
<1> DEFINE before == {m \in K : m <= j - 1}
           upto   == {m \in K : m <= i}
<1>0. \A m \in K : m \in Nat /\ 1 <= m /\ m <= n
  OBVIOUS
<1>1. i \in Nat /\ j \in 1 .. n /\ j - 1 \in Nat
  BY <1>0
<1>2. upto \in SUBSET before /\ IsFiniteSet(before)
  <2>1. upto \in SUBSET before
    <3>1. \A m \in K : m <= i => m <= j - 1
      BY <1>0, <1>1
    <3> QED BY <3>1
  <2> QED BY <1>1, <2>1, PlacesAreFinite
<1>3. Cardinality(upto) <= Cardinality(before)
  <2> HIDE DEF upto, before
  <2> QED BY <1>2, FS_Subset
<1>4. Rank(K, i) <= Rank(K, j - 1)
  BY <1>3 DEF Rank
<1>5. Rank(K, j) = Rank(K, j - 1) + 1
  BY <1>1, RankStep
<1>6. Rank(K, i) \in Nat /\ Rank(K, j - 1) \in Nat
  BY <1>1, PlacesAreFinite
<1> QED BY <1>4, <1>5, <1>6

LEMMA NthExists ==
  ASSUME NEW n \in Nat, NEW K \in SUBSET (1 .. n), NEW m \in 1 .. Cardinality(K)
  PROVE  Nth(K, m) \in K /\ Rank(K, Nth(K, m)) = m
<1> DEFINE S == {i \in 1 .. n : Rank(K, i) >= m}
<1>0. Cardinality(K) \in Nat
  BY PlacesAreFinite
<1>1. m \in Nat /\ m >= 1 /\ m <= Cardinality(K) /\ Cardinality(K) \in Nat
  BY <1>0
<1>2. n >= 1
  BY <1>1, RankEnds
<1>3. n \in S
  BY <1>1, <1>2, RankEnds
<1>4. PICK i \in S : \A j \in S : i <= j
  <2>1. S \in SUBSET Nat /\ S # {}
    BY <1>3
  <2> HIDE DEF S
  <2> QED BY <2>1, LeastExists
<1>5. i \in 1 .. n /\ Rank(K, i) >= m /\ i - 1 \in Nat /\ i \in Nat
  BY <1>4
<1>6. Rank(K, i) \in Nat /\ Rank(K, i - 1) \in Nat
  BY <1>5, PlacesAreFinite
<1>7. Rank(K, i - 1) < m
  <2>1. CASE i - 1 = 0
    <3>1. Rank(K, 0) = 0 /\ i - 1 = 0
      BY <2>1, RankEnds
    <3> QED BY <1>1, <3>1
  <2>2. CASE i - 1 # 0
    <3>1. i - 1 \in 1 .. n /\ i - 1 \notin S
      BY <1>4, <1>5, <2>2
    <3> QED BY <1>1, <1>6, <3>1
  <2> QED BY <2>1, <2>2
<1>8. i \in K /\ Rank(K, i) = m
  BY <1>1, <1>5, <1>6, <1>7, RankStep
<1> QED BY <1>8 DEF Nth

LEMMA NthOfRank ==
  ASSUME NEW n \in Nat, NEW K \in SUBSET (1 .. n), NEW i \in K
  PROVE  Rank(K, i) \in 1 .. Cardinality(K) /\ Nth(K, Rank(K, i)) = i
<1>1. i \in 1 .. n /\ i \in Nat /\ i - 1 \in Nat
  OBVIOUS
<1>2. Rank(K, i) \in Nat /\ Rank(K, i - 1) \in Nat /\ Rank(K, i) = Rank(K, i - 1) + 1
  BY <1>1, PlacesAreFinite, RankStep
<1>3. Rank(K, i) <= Cardinality(K)
  <2> DEFINE upto == {j \in K : j <= i}
  <2>1. upto \in SUBSET K /\ IsFiniteSet(K)
    BY PlacesAreFinite
  <2>2. Cardinality(upto) <= Cardinality(K)
    <3> HIDE DEF upto
    <3> QED BY <2>1, FS_Subset
  <2> QED BY <2>2 DEF Rank
<1>4. Rank(K, i) \in 1 .. Cardinality(K)
  BY <1>2, <1>3, PlacesAreFinite
<1> DEFINE j == Nth(K, Rank(K, i))
<1>5. j \in K /\ Rank(K, j) = Rank(K, i)
  BY <1>4, NthExists
<1>6. j \in Nat /\ ~ (j < i) /\ ~ (i < j)
  <2> HIDE DEF j
  <2>1. j \in Nat
    BY <1>5
  <2>2. j < i => Rank(K, j) < Rank(K, i)
    BY <1>5, RankGrows
  <2>3. i < j => Rank(K, i) < Rank(K, j)
    BY <1>5, RankGrows
  <2> QED BY <1>2, <1>5, <2>1, <2>2, <2>3
<1> QED BY <1>1, <1>4, <1>6

\* LinesAt keeps the lines at the places, all of them, in their order.
LEMMA LinesAreKept ==
  ASSUME NEW lines, IsLines(lines), NEW K \in SUBSET DOMAIN lines
  PROVE  LET kept == LinesAt(lines, K) IN
         /\ IsLines(kept) /\ DOMAIN kept = 1 .. Len(kept)
         /\ \A n \in DOMAIN kept : Nth(K, n) \in K /\ kept[n] = lines[Nth(K, n)]
         /\ \A i \in K : \E n \in DOMAIN kept : Nth(K, n) = i
         /\ \A m, n \in DOMAIN kept : m < n => Nth(K, m) < Nth(K, n)
<1> DEFINE kept == LinesAt(lines, K)
           c == Cardinality(K)
           last1 == Len(lines)
<1>1. last1 \in Nat /\ K \in SUBSET (1 .. last1)
  BY LinesAreASequence
<1> HIDE DEF last1
<1>2. c \in Nat
  BY <1>1, PlacesAreFinite
<1>3. \A n \in 1 .. c : Nth(K, n) \in K /\ Rank(K, Nth(K, n)) = n
  BY <1>1, NthExists
<1>4. kept = [n \in 1 .. c |-> lines[Nth(K, n)]]
  BY DEF LinesAt
<1>5. \A n \in 1 .. c : kept[n] \in Range(lines)
  BY <1>3, <1>4 DEF Range
<1> HIDE DEF kept, c
<1>6. kept \in [1 .. c -> Range(lines)]
  BY <1>4, <1>5
<1>7. kept \in Seq(Range(lines))
  BY <1>2, <1>6, SeqDef
<1>8. IsLines(kept) /\ DOMAIN kept = 1 .. Len(kept) /\ DOMAIN kept = 1 .. c
  <2>1. IsLines(kept)
    BY <1>7, SequencesAreLines
  <2> QED BY <2>1, <1>6, LinesAreASequence
<1>9. \A n \in DOMAIN kept : Nth(K, n) \in K /\ kept[n] = lines[Nth(K, n)]
  BY <1>3, <1>4, <1>8
<1>10. \A i \in K : \E n \in DOMAIN kept : Nth(K, n) = i
  BY <1>1, <1>8, NthOfRank DEF c
<1>11. \A m, n \in DOMAIN kept : m < n => Nth(K, m) < Nth(K, n)
  <2> SUFFICES ASSUME NEW m \in DOMAIN kept, NEW n \in DOMAIN kept, m < n
               PROVE  Nth(K, m) < Nth(K, n)
    OBVIOUS
  <2> DEFINE a == Nth(K, m)
             b == Nth(K, n)
  <2>0. m \in 1 .. c /\ n \in 1 .. c
    BY <1>8
  <2>1. a \in K /\ b \in K /\ Rank(K, a) = m /\ Rank(K, b) = n /\ m \in Nat /\ n \in Nat
    BY <1>3, <2>0
  <2>2. a \in Nat /\ b \in Nat
    BY <1>1, <2>1
  <2> HIDE DEF a, b
  <2>3. a # b /\ ~ (b < a)
    BY <1>1, <2>1, <2>2, RankGrows
  <2>4. a < b
    BY <2>2, <2>3
  <2> QED BY <2>4 DEF a, b
<1> QED BY <1>8, <1>9, <1>10, <1>11 DEF kept

-----------------------------------------------------------------------------
(* The section a line is in. *)

LEMMA SectionOfHeader ==
  ASSUME NEW lines, NEW i \in Nat, NEW h \in 1 .. i, lines[h].kind = "header",
         \A j \in 1 .. i : lines[j].kind = "header" => j <= h
  PROVE  SectionOf(lines, i) = lines[h].name
<1> DEFINE heads == {j \in 1 .. i : lines[j].kind = "header"}
<1>1. heads \in SUBSET Nat /\ h \in heads
  OBVIOUS
<1>2. \A j \in heads : h >= j
  OBVIOUS
<1>3. Greatest(heads) = h
  <2> HIDE DEF heads
  <2> QED BY <1>1, <1>2, GreatestIs
<1>4. heads # {}
  BY <1>1
<1> QED BY <1>3, <1>4 DEF SectionOf

LEMMA SectionWithoutHeader ==
  ASSUME NEW lines, NEW i, \A j \in 1 .. i : lines[j].kind # "header"
  PROVE  SectionOf(lines, i) = Top
BY DEF SectionOf

\* A line is in no section, or in that of the last header up to it.
LEMMA LastHeader ==
  ASSUME NEW lines, NEW i \in Nat, \E j \in 1 .. i : lines[j].kind = "header"
  PROVE  \E h \in 1 .. i : /\ lines[h].kind = "header"
                           /\ \A j \in 1 .. i : lines[j].kind = "header" => j <= h
<1> DEFINE heads == {j \in 1 .. i : lines[j].kind = "header"}
<1>1. heads \in SUBSET (1 .. i) /\ heads # {}
  OBVIOUS
<1>2. PICK h \in heads : \A j \in heads : h >= j
  <2> HIDE DEF heads
  <2> QED BY <1>1, GreatestExists
<1>3. h \in 1 .. i /\ lines[h].kind = "header"
  OBVIOUS
<1>4. \A j \in 1 .. i : lines[j].kind = "header" => j <= h
  BY <1>2, <1>3
<1> QED BY <1>3, <1>4

LEMMA SameSection ==
  ASSUME NEW s, NEW t, NEW i \in Nat, \A j \in 1 .. i : s[j] = t[j]
  PROVE  SectionOf(s, i) = SectionOf(t, i)
<1>1. CASE \E j \in 1 .. i : s[j].kind = "header"
  <2>1. PICK h \in 1 .. i : /\ s[h].kind = "header"
                            /\ \A j \in 1 .. i : s[j].kind = "header" => j <= h
    BY <1>1, LastHeader
  <2>2. t[h].kind = "header" /\ \A j \in 1 .. i : t[j].kind = "header" => j <= h
    BY <2>1
  <2>3. SectionOf(s, i) = s[h].name
    BY <2>1, SectionOfHeader
  <2>4. SectionOf(t, i) = t[h].name
    BY <2>2, SectionOfHeader
  <2> QED BY <2>3, <2>4
<1>2. CASE \A j \in 1 .. i : s[j].kind # "header"
  BY <1>2, SectionWithoutHeader
<1> QED BY <1>1, <1>2

\* A header is in its own section.
LEMMA SectionOfItself ==
  ASSUME NEW lines, NEW h \in Nat, h >= 1, lines[h].kind = "header"
  PROVE  SectionOf(lines, h) = lines[h].name
<1>1. h \in 1 .. h /\ \A j \in 1 .. h : j <= h
  OBVIOUS
<1> QED BY <1>1, SectionOfHeader

\* Places in their order.
InOrder(nth, c) == \A m, o \in 1 .. c : m < o => nth[m] < nth[o]

\* What is kept are lines that are in none of the sections.
KeepsLines(kept, lines, sections, nth, c) ==
  \A m \in 1 .. c : kept[m] = lines[nth[m]] /\ SectionOf(lines, nth[m]) \notin sections

\* Every line that is in none of the sections has its place.
KeepsOthers(lines, sections, all, nth, c) ==
  \A j \in 1 .. all : SectionOf(lines, j) \notin sections => \E m \in 1 .. c : nth[m] = j

\* A kept line stays in its section: the header above it is kept with it, and no
\* other comes between.
LEMMA KeptSection ==
  ASSUME NEW lines, NEW kept, NEW sections, Top \notin sections,
         NEW all \in Nat, NEW c \in Nat, NEW nth \in [1 .. c -> 1 .. all],
         KeepsLines(kept, lines, sections, nth, c),
         KeepsOthers(lines, sections, all, nth, c),
         InOrder(nth, c),
         NEW n \in 1 .. c
  PROVE  SectionOf(kept, n) = SectionOf(lines, nth[n])
<1>1. n \in Nat /\ nth[n] \in 1 .. all /\ nth[n] \in Nat
  OBVIOUS
<1>2. \A m \in 1 .. n : m \in 1 .. c /\ nth[m] \in 1 .. nth[n]
  <2> SUFFICES ASSUME NEW m \in 1 .. n PROVE m \in 1 .. c /\ nth[m] \in 1 .. nth[n]
    OBVIOUS
  <2>1. m \in 1 .. c /\ (m < n \/ m = n)
    OBVIOUS
  <2>2. nth[m] \in 1 .. all /\ (nth[m] < nth[n] \/ nth[m] = nth[n])
    BY <2>1 DEF InOrder
  <2> QED BY <1>1, <2>1, <2>2
<1>3. CASE \A j \in 1 .. nth[n] : lines[j].kind # "header"
  <2>1. \A m \in 1 .. n : kept[m].kind # "header"
    BY <1>2, <1>3 DEF KeepsLines
  <2> QED BY <1>3, <2>1, SectionWithoutHeader
<1>4. CASE \E j \in 1 .. nth[n] : lines[j].kind = "header"
  <2>1. PICK h \in 1 .. nth[n] : /\ lines[h].kind = "header"
                                 /\ \A j \in 1 .. nth[n] : lines[j].kind = "header" => j <= h
    BY <1>1, <1>4, LastHeader
  <2>2. SectionOf(lines, nth[n]) = lines[h].name
    BY <1>1, <2>1, SectionOfHeader
  <2>3. h \in Nat /\ h >= 1 /\ h \in 1 .. all /\ h <= nth[n]
    BY <1>1
  <2>4. SectionOf(lines, h) = lines[h].name
    BY <2>1, <2>3, SectionOfItself
  <2>5. SectionOf(lines, h) \notin sections
    BY <2>2, <2>4 DEF KeepsLines
  <2>6. PICK m \in 1 .. c : nth[m] = h
    BY <2>3, <2>5 DEF KeepsOthers
  <2>7. n < m => nth[n] < h
    BY <2>6 DEF InOrder
  <2>8. m \in 1 .. n
    BY <1>1, <2>3, <2>7
  <2>9. kept[m] = lines[h]
    BY <2>6 DEF KeepsLines
  <2>10. \A o \in 1 .. n : kept[o].kind = "header" => o <= m
    <3> SUFFICES ASSUME NEW o \in 1 .. n, kept[o].kind = "header" PROVE o <= m
      OBVIOUS
    <3>1. o \in 1 .. c /\ nth[o] \in 1 .. nth[n] /\ kept[o] = lines[nth[o]]
      BY <1>2 DEF KeepsLines
    <3>2. nth[o] <= h
      BY <2>1, <3>1
    <3>3. m < o => h < nth[o]
      BY <2>6, <3>1 DEF InOrder
    <3>4. nth[o] \in Nat /\ o \in Nat /\ m \in Nat
      BY <3>1, <1>1
    <3> QED BY <2>3, <3>2, <3>3, <3>4
  <2>11. SectionOf(kept, n) = kept[m].name
    BY <1>1, <2>1, <2>8, <2>9, <2>10, SectionOfHeader
  <2> QED BY <2>2, <2>9, <2>11
<1> QED BY <1>3, <1>4

\* The last line of a key is still the last if all of them are kept.
LEMMA KeptLookup ==
  ASSUME NEW lines, NEW kept, NEW key, NEW all \in Nat, NEW c \in Nat,
         DOMAIN lines = 1 .. all, DOMAIN kept = 1 .. c, NEW nth \in [1 .. c -> 1 .. all],
         \A m \in 1 .. c : kept[m] = lines[nth[m]],
         InOrder(nth, c),
         \A j \in At(lines, key) : \E m \in 1 .. c : nth[m] = j
  PROVE  Lookup(kept, key) = Lookup(lines, key)
<1>1. \A m \in 1 .. c : m \in At(kept, key) <=> nth[m] \in At(lines, key)
  BY DEF At
<1>2. At(kept, key) \in SUBSET (1 .. c) /\ At(lines, key) \in SUBSET (1 .. all)
  BY DEF At
<1>3. CASE At(lines, key) = {}
  <2>1. At(kept, key) = {}
    BY <1>1, <1>2, <1>3
  <2> QED BY <1>3, <2>1 DEF Lookup
<1>4. CASE At(lines, key) # {}
  <2>1. PICK g \in At(lines, key) : \A j \in At(lines, key) : g >= j
    BY <1>2, <1>4, GreatestExists
  <2>2. PICK n \in 1 .. c : nth[n] = g
    BY <2>1
  <2>3. n \in At(kept, key)
    BY <1>1, <2>1, <2>2
  <2>4. \A m \in At(kept, key) : n >= m
    <3> SUFFICES ASSUME NEW m \in At(kept, key) PROVE n >= m
      OBVIOUS
    <3>1. m \in 1 .. c /\ nth[m] \in At(lines, key)
      BY <1>1, <1>2
    <3>2. g >= nth[m] /\ (n < m => g < nth[m])
      BY <2>1, <2>2, <3>1 DEF InOrder
    <3>3. g \in Nat /\ nth[m] \in Nat /\ n \in Nat /\ m \in Nat
      BY <2>2, <3>1
    <3> QED BY <3>2, <3>3
  <2>5. At(kept, key) \in SUBSET Nat /\ At(lines, key) \in SUBSET Nat
    BY <1>2
  <2>6. Greatest(At(kept, key)) = n /\ Greatest(At(lines, key)) = g
    BY <2>1, <2>3, <2>4, <2>5, GreatestIs
  <2> QED BY <1>4, <2>2, <2>3, <2>6 DEF Lookup
<1> QED BY <1>3, <1>4

\* What is left when sections are dropped: lines of other sections, each in its own,
\* and the value of every key that was in none of them.
LEMMA SectionsAreDropped ==
  ASSUME NEW lines, IsLines(lines), NEW sections, Top \notin sections
  PROVE  LET kept == DropSections(lines, sections) IN
         /\ IsLines(kept)
         /\ \A n \in DOMAIN kept : SectionOf(kept, n) \notin sections
         /\ ~ Unreadable(lines) => ~ Unreadable(kept)
         /\ \A key : (\A i \in At(lines, key) : SectionOf(lines, i) \notin sections)
                       => Lookup(kept, key) = Lookup(lines, key)
<1> DEFINE K == {i \in DOMAIN lines : SectionOf(lines, i) \notin sections}
           kept == DropSections(lines, sections)
           all == Len(lines)
           c == Len(kept)
           nth == [m \in 1 .. c |-> Nth(K, m)]
<1>1. /\ IsLines(kept) /\ DOMAIN kept = 1 .. c
      /\ \A m \in DOMAIN kept : Nth(K, m) \in K /\ kept[m] = lines[Nth(K, m)]
      /\ \A j \in K : \E m \in DOMAIN kept : Nth(K, m) = j
      /\ \A m, o \in DOMAIN kept : m < o => Nth(K, m) < Nth(K, o)
  BY LinesAreKept, K \in SUBSET DOMAIN lines DEF DropSections
<1>2. all \in Nat /\ DOMAIN lines = 1 .. all /\ c \in Nat /\ DOMAIN kept = 1 .. c
  BY <1>1, LinesAreASequence
<1>3. \A j : j \in K <=> j \in 1 .. all /\ SectionOf(lines, j) \notin sections
  BY <1>2
<1> HIDE DEF K, kept, all, c
<1>4. \A m \in 1 .. c : nth[m] = Nth(K, m)
  OBVIOUS
<1>5. nth \in [1 .. c -> 1 .. all]
  BY <1>1, <1>2, <1>3
<1> HIDE DEF nth
<1>6. \A m \in 1 .. c : kept[m] = lines[nth[m]] /\ SectionOf(lines, nth[m]) \notin sections
  BY <1>1, <1>2, <1>3, <1>4
<1>7. KeepsOthers(lines, sections, all, nth, c)
  BY <1>1, <1>2, <1>3, <1>4 DEF KeepsOthers
<1>12. KeepsLines(kept, lines, sections, nth, c)
  BY <1>6 DEF KeepsLines
<1>8. InOrder(nth, c)
  <2> SUFFICES ASSUME NEW m \in 1 .. c, NEW o \in 1 .. c, m < o PROVE nth[m] < nth[o]
    BY DEF InOrder
  <2>1. m \in DOMAIN kept /\ o \in DOMAIN kept /\ nth[m] = Nth(K, m) /\ nth[o] = Nth(K, o)
    BY <1>2, <1>4
  <2> QED BY <1>1, <2>1
<1>9. \A n \in DOMAIN kept : SectionOf(kept, n) \notin sections
  <2> SUFFICES ASSUME NEW n \in 1 .. c PROVE SectionOf(kept, n) \notin sections
    BY <1>2
  <2>1. SectionOf(kept, n) = SectionOf(lines, nth[n])
    <3>1. Top \notin sections /\ all \in Nat /\ c \in Nat /\ n \in 1 .. c
      BY <1>2
    <3> QED BY ONLY <3>1, <1>5, <1>12, <1>7, <1>8, KeptSection
  <2> QED BY <1>6, <2>1
<1>10. ~ Unreadable(lines) => ~ Unreadable(kept)
  BY <1>2, <1>5, <1>6 DEF Unreadable
<1>11. ASSUME NEW key, \A i \in At(lines, key) : SectionOf(lines, i) \notin sections
       PROVE  Lookup(kept, key) = Lookup(lines, key)
  <2>1. \A j \in At(lines, key) : \E m \in 1 .. c : nth[m] = j
    BY <1>2, <1>7, <1>11 DEF At, KeepsOthers
  <2>2. \A m \in 1 .. c : kept[m] = lines[nth[m]]
    BY <1>6
  <2> QED BY <1>2, <1>5, <1>8, <2>1, <2>2, KeptLookup
<1> QED BY <1>1, <1>9, <1>10, <1>11 DEF kept

-----------------------------------------------------------------------------
(* The trailers' sections are written. *)

\* The lines of the sections, in the place they have at the end.
TrailerLines(t) ==
  << Header("trailers"), Entry("enabled", t.enabled), Entry("shows", t.shows),
     Entry("precision", t.precision) >>

NameLines(t) ==
  IF t.name = "AI-Cost" THEN <<>> ELSE <<Header("trailers.rename"), Entry("cost", t.name)>>

\* Two sequences one after the other.
LEMMA JoinedLines ==
  ASSUME NEW s, NEW t, IsLines(s), IsLines(t)
  PROVE  /\ IsLines(s \o t) /\ Len(s \o t) = Len(s) + Len(t)
         /\ Len(s) \in Nat /\ Len(t) \in Nat /\ DOMAIN (s \o t) = 1 .. Len(s) + Len(t)
         /\ \A i \in 1 .. Len(s) : (s \o t)[i] = s[i]
         /\ \A i \in 1 .. Len(t) : (s \o t)[Len(s) + i] = t[i]
<1> DEFINE S == Range(s) \cup Range(t)
           j == s \o t
<1>1. s \in Seq(S) /\ t \in Seq(S)
  <2>1. s \in Seq(Range(s)) /\ t \in Seq(Range(t))
    BY DEF IsLines
  <2>2. Range(s) \subseteq S /\ Range(t) \subseteq S
    OBVIOUS
  <2> HIDE DEF S
  <2> QED BY <2>1, <2>2, SeqMonotonic
<1>2. Len(s) \in Nat /\ Len(t) \in Nat
  BY LinesAreASequence
<1> HIDE DEF S
<1>3. /\ j \in Seq(S) /\ Len(j) = Len(s) + Len(t)
      /\ \A i \in 1 .. Len(s) + Len(t) : j[i] = IF i <= Len(s) THEN s[i] ELSE t[i - Len(s)]
  BY <1>1, ConcatProperties
<1>4. IsLines(j)
  <2> HIDE DEF j
  <2> QED BY <1>3, SequencesAreLines
<1>5. DOMAIN j = 1 .. Len(s) + Len(t)
  <2> HIDE DEF j
  <2> QED BY <1>3, <1>4, LinesAreASequence
<1> HIDE DEF j
<1>6. \A i \in 1 .. Len(s) : j[i] = s[i]
  BY <1>2, <1>3
<1>7. \A i \in 1 .. Len(t) : j[Len(s) + i] = t[i]
  <2> SUFFICES ASSUME NEW i \in 1 .. Len(t) PROVE j[Len(s) + i] = t[i]
    OBVIOUS
  <2>1. Len(s) + i \in 1 .. Len(s) + Len(t) /\ ~ (Len(s) + i <= Len(s))
        /\ Len(s) + i - Len(s) = i
    BY <1>2
  <2> QED BY <1>3, <2>1
<1> QED BY <1>2, <1>3, <1>4, <1>5, <1>6, <1>7 DEF j

LEMMA TrailerLinesAre ==
  ASSUME NEW t
  PROVE  LET l == TrailerLines(t) IN
         /\ IsLines(l) /\ Len(l) = 4
         /\ l[1] = Header("trailers") /\ l[2] = Entry("enabled", t.enabled)
         /\ l[3] = Entry("shows", t.shows) /\ l[4] = Entry("precision", t.precision)
<1> DEFINE a == Header("trailers")
           b == Entry("enabled", t.enabled)
           c == Entry("shows", t.shows)
           d == Entry("precision", t.precision)
<1>1. TrailerLines(t) = <<a, b, c, d>>
  BY DEF TrailerLines
<1> HIDE DEF a, b, c, d
<1>2. <<a, b, c, d>> \in Seq({a, b, c, d})
  OBVIOUS
<1>3. IsLines(<<a, b, c, d>>)
  BY <1>2, SequencesAreLines
<1>4. /\ Len(<<a, b, c, d>>) = 4 /\ <<a, b, c, d>>[1] = a /\ <<a, b, c, d>>[2] = b
      /\ <<a, b, c, d>>[3] = c /\ <<a, b, c, d>>[4] = d
  OBVIOUS
<1> QED BY <1>1, <1>3, <1>4 DEF a, b, c, d

LEMMA NameLinesAre ==
  ASSUME NEW t
  PROVE  LET l == NameLines(t) IN
         /\ IsLines(l)
         /\ t.name = "AI-Cost" => Len(l) = 0
         /\ t.name # "AI-Cost" => Len(l) = 2 /\ l[1] = Header("trailers.rename")
                                             /\ l[2] = Entry("cost", t.name)
<1> DEFINE a == Header("trailers.rename")
           b == Entry("cost", t.name)
<1>1. CASE t.name = "AI-Cost"
  <2>1. NameLines(t) = <<>> /\ Len(<<>>) = 0
    BY <1>1 DEF NameLines
  <2> QED BY <1>1, <2>1, EmptyIsLines
<1>2. CASE t.name # "AI-Cost"
  <2>1. NameLines(t) = <<a, b>>
    BY <1>2 DEF NameLines
  <2> HIDE DEF a, b
  <2>2. <<a, b>> \in Seq({a, b})
    OBVIOUS
  <2>3. IsLines(<<a, b>>)
    BY <2>2, SequencesAreLines
  <2>4. Len(<<a, b>>) = 2 /\ <<a, b>>[1] = a /\ <<a, b>>[2] = b
    OBVIOUS
  <2> QED BY <1>2, <2>1, <2>3, <2>4 DEF a, b
<1> QED BY <1>1, <1>2

\* A file after the trailers were set: n lines of other sections, in their own, then the
\* trailers' sections.
Layout(w, t, n) ==
  /\ n \in Nat /\ IsLines(w)
  /\ w[n + 1] = Header("trailers") /\ w[n + 2] = Entry("enabled", t.enabled)
  /\ w[n + 3] = Entry("shows", t.shows) /\ w[n + 4] = Entry("precision", t.precision)
  /\ t.name = "AI-Cost" => DOMAIN w = 1 .. n + 4
  /\ t.name # "AI-Cost" => /\ DOMAIN w = 1 .. n + 6
                           /\ w[n + 5] = Header("trailers.rename")
                           /\ w[n + 6] = Entry("cost", t.name)
  /\ \A i \in 1 .. n : SectionOf(w, i) \notin Sections

LEMMA TrailersAreLaidOut ==
  ASSUME NEW lines, IsLines(lines), NEW t
  PROVE  LET kept == DropSections(lines, Sections)
             w == WithTrailers(lines, t) IN
         /\ Layout(w, t, Len(kept)) /\ DOMAIN kept = 1 .. Len(kept)
         /\ \A i \in 1 .. Len(kept) : w[i] = kept[i]
<1> DEFINE kept == DropSections(lines, Sections)
           b == TrailerLines(t)
           e == NameLines(t)
           n == Len(kept)
           u == kept \o b
           w == u \o e
<1>1. WithTrailers(lines, t) = w
  BY DEF WithTrailers, TrailerLines, NameLines
<1>2. Top \notin Sections
  BY DEF Top, Sections
<1>3. IsLines(kept) /\ \A i \in DOMAIN kept : SectionOf(kept, i) \notin Sections
  BY <1>2, SectionsAreDropped
<1>4. n \in Nat /\ DOMAIN kept = 1 .. n
  BY <1>3, LinesAreASequence
<1>5. /\ IsLines(b) /\ Len(b) = 4
      /\ b[1] = Header("trailers") /\ b[2] = Entry("enabled", t.enabled)
      /\ b[3] = Entry("shows", t.shows) /\ b[4] = Entry("precision", t.precision)
  BY TrailerLinesAre
<1>6. /\ IsLines(e)
      /\ t.name = "AI-Cost" => Len(e) = 0
      /\ t.name # "AI-Cost" => Len(e) = 2 /\ e[1] = Header("trailers.rename")
                                          /\ e[2] = Entry("cost", t.name)
  BY NameLinesAre
<1> HIDE DEF kept, b, e
<1>7. /\ IsLines(u) /\ Len(u) = n + 4 /\ \A i \in 1 .. n : u[i] = kept[i]
      /\ \A i \in 1 .. 4 : u[n + i] = b[i]
  <2>1. /\ IsLines(u) /\ Len(u) = n + Len(b) /\ \A i \in 1 .. n : u[i] = kept[i]
        /\ \A i \in 1 .. Len(b) : u[n + i] = b[i]
    <3>1. IsLines(kept) /\ IsLines(b)
      BY <1>3, <1>5
    <3> QED BY <3>1, JoinedLines
  <2> HIDE DEF u, n
  <2> QED BY <1>5, <2>1
<1> HIDE DEF u
<1>8. /\ IsLines(w) /\ DOMAIN w = 1 .. n + 4 + Len(e) /\ \A i \in 1 .. n + 4 : w[i] = u[i]
      /\ \A i \in 1 .. Len(e) : w[n + 4 + i] = e[i]
  <2>1. /\ IsLines(w) /\ DOMAIN w = 1 .. Len(u) + Len(e) /\ \A i \in 1 .. Len(u) : w[i] = u[i]
        /\ \A i \in 1 .. Len(e) : w[Len(u) + i] = e[i]
    <3>1. IsLines(u) /\ IsLines(e)
      BY <1>6, <1>7
    <3> QED BY <3>1, JoinedLines
  <2>2. Len(u) = n + 4
    BY <1>7
  <2> HIDE DEF w, n
  <2> QED BY <2>1, <2>2
<1> HIDE DEF w, n
<1>9. /\ w[n + 1] = u[n + 1] /\ w[n + 2] = u[n + 2] /\ w[n + 3] = u[n + 3]
      /\ w[n + 4] = u[n + 4] /\ \A i \in 1 .. n : w[i] = u[i]
  BY <1>4, <1>8
<1>10. u[n + 1] = b[1] /\ u[n + 2] = b[2] /\ u[n + 3] = b[3] /\ u[n + 4] = b[4]
  BY <1>7
<1>11. \A i \in 1 .. n : w[i] = kept[i]
  BY <1>7, <1>9
<1>12. t.name = "AI-Cost" => DOMAIN w = 1 .. n + 4
  BY <1>4, <1>6, <1>8
<1>13. t.name # "AI-Cost" => /\ DOMAIN w = 1 .. n + 6
                             /\ w[n + 5] = Header("trailers.rename")
                             /\ w[n + 6] = Entry("cost", t.name)
  <2> SUFFICES ASSUME t.name # "AI-Cost"
               PROVE  /\ DOMAIN w = 1 .. n + 6
                      /\ w[n + 5] = Header("trailers.rename")
                      /\ w[n + 6] = Entry("cost", t.name)
    OBVIOUS
  <2>1. Len(e) = 2 /\ e[1] = Header("trailers.rename") /\ e[2] = Entry("cost", t.name)
    BY <1>6
  <2>2. w[n + 4 + 1] = e[1] /\ w[n + 4 + 2] = e[2]
    BY <1>8, <2>1
  <2>3. n + 4 + 1 = n + 5 /\ n + 4 + 2 = n + 6
    BY <1>4
  <2> QED BY <1>8, <2>1, <2>2, <2>3
<1>14. \A i \in 1 .. n : SectionOf(w, i) \notin Sections
  <2> SUFFICES ASSUME NEW i \in 1 .. n PROVE SectionOf(w, i) \notin Sections
    OBVIOUS
  <2>1. i \in Nat /\ \A j \in 1 .. i : w[j] = kept[j]
    BY <1>4, <1>11
  <2>2. SectionOf(w, i) = SectionOf(kept, i)
    BY <2>1, SameSection
  <2> QED BY <1>3, <1>4, <2>2
<1>15. Layout(w, t, n)
  BY <1>4, <1>5, <1>8, <1>9, <1>10, <1>12, <1>13, <1>14 DEF Layout
<1> QED BY <1>1, <1>4, <1>11, <1>15 DEF kept, n

\* What the lines of the trailers' sections are, and in which section.
LEMMA LaidOutLines ==
  ASSUME NEW w, NEW t, NEW n, Layout(w, t, n)
  PROVE  /\ n \in Nat /\ w[n + 1].kind = "header" /\ w[n + 1].name = "trailers"
         /\ w[n + 2].kind = "entry" /\ w[n + 2].name = "enabled" /\ w[n + 2].value = t.enabled
         /\ w[n + 3].kind = "entry" /\ w[n + 3].name = "shows" /\ w[n + 3].value = t.shows
         /\ w[n + 4].kind = "entry" /\ w[n + 4].name = "precision"
         /\ w[n + 4].value = t.precision
         /\ SectionOf(w, n + 1) = "trailers" /\ SectionOf(w, n + 2) = "trailers"
         /\ SectionOf(w, n + 3) = "trailers" /\ SectionOf(w, n + 4) = "trailers"
<1>1. n \in Nat
  BY DEF Layout
<1>2. /\ w[n + 1].kind = "header" /\ w[n + 1].name = "trailers"
      /\ w[n + 2].kind = "entry" /\ w[n + 2].name = "enabled" /\ w[n + 2].value = t.enabled
      /\ w[n + 3].kind = "entry" /\ w[n + 3].name = "shows" /\ w[n + 3].value = t.shows
      /\ w[n + 4].kind = "entry" /\ w[n + 4].name = "precision"
      /\ w[n + 4].value = t.precision
  BY DEF Layout, Header, Entry
<1>3. ASSUME NEW k \in 1 .. 4 PROVE SectionOf(w, n + k) = "trailers"
  <2>1. n + k \in Nat /\ n + 1 \in 1 .. n + k
    BY <1>1
  <2>2. \A j \in 1 .. n + k : w[j].kind = "header" => j <= n + 1
    <3> SUFFICES ASSUME NEW j \in 1 .. n + k, w[j].kind = "header" PROVE j <= n + 1
      OBVIOUS
    <3>1. j # n + 2 /\ j # n + 3 /\ j # n + 4
      BY <1>2
    <3> QED BY <1>1, <3>1
  <2> QED BY <1>2, <2>1, <2>2, SectionOfHeader
<1>4. /\ SectionOf(w, n + 1) = "trailers" /\ SectionOf(w, n + 2) = "trailers"
      /\ SectionOf(w, n + 3) = "trailers" /\ SectionOf(w, n + 4) = "trailers"
  BY <1>3
<1> QED BY <1>1, <1>2, <1>4

LEMMA LaidOutName ==
  ASSUME NEW w, NEW t, NEW n, Layout(w, t, n), t.name # "AI-Cost"
  PROVE  /\ w[n + 5].kind = "header" /\ w[n + 5].name = "trailers.rename"
         /\ w[n + 6].kind = "entry" /\ w[n + 6].name = "cost" /\ w[n + 6].value = t.name
         /\ SectionOf(w, n + 5) = "trailers.rename" /\ SectionOf(w, n + 6) = "trailers.rename"
<1>1. n \in Nat
  BY DEF Layout
<1>2. /\ w[n + 5].kind = "header" /\ w[n + 5].name = "trailers.rename"
      /\ w[n + 6].kind = "entry" /\ w[n + 6].name = "cost" /\ w[n + 6].value = t.name
  BY DEF Layout, Header, Entry
<1>3. SectionOf(w, n + 5) = "trailers.rename"
  <2>1. n + 5 \in Nat /\ n + 5 >= 1
    BY <1>1
  <2> QED BY <1>2, <2>1, SectionOfItself
<1>4. SectionOf(w, n + 6) = "trailers.rename"
  <2>1. n + 6 \in Nat /\ n + 5 \in 1 .. n + 6
    BY <1>1
  <2>2. \A j \in 1 .. n + 6 : w[j].kind = "header" => j <= n + 5
    <3> SUFFICES ASSUME NEW j \in 1 .. n + 6, w[j].kind = "header" PROVE j <= n + 5
      OBVIOUS
    <3>1. j # n + 6
      BY <1>2
    <3> QED BY <1>1, <3>1
  <2> QED BY <1>2, <2>1, <2>2, SectionOfHeader
<1> QED BY <1>2, <1>3, <1>4

\* The places of the file: those before, and those of the trailers.
LEMMA LaidOutPlaces ==
  ASSUME NEW w, NEW t, NEW n, Layout(w, t, n), NEW i \in DOMAIN w
  PROVE  \/ i \in 1 .. n \/ i \in {n + 1, n + 2, n + 3, n + 4}
         \/ t.name # "AI-Cost" /\ i \in {n + 5, n + 6}
<1>1. n \in Nat
  BY DEF Layout
<1>2. CASE t.name = "AI-Cost"
  <2>1. i \in 1 .. n + 4
    BY <1>2 DEF Layout
  <2> QED BY <1>1, <2>1
<1>3. CASE t.name # "AI-Cost"
  <2>1. i \in 1 .. n + 6
    BY <1>3 DEF Layout
  <2> QED BY <1>1, <1>3, <2>1
<1> QED BY <1>2, <1>3

LEMMA LookupInOnce ==
  ASSUME NEW w, NEW section, NEW key, NEW i \in Nat,
         {j \in At(w, key) : SectionOf(w, j) = section} = {i}
  PROVE  LookupIn(w, section, key) = w[i].value
<1>1. Greatest({i}) = i
  BY GreatestIs, {i} \in SUBSET Nat
<1> QED BY <1>1 DEF LookupIn

LEMMA TrailersAreFound ==
  ASSUME NEW w, NEW t, NEW n, Layout(w, t, n)
  PROVE  /\ LookupIn(w, "trailers", "enabled") = t.enabled
         /\ LookupIn(w, "trailers", "shows") = t.shows
         /\ LookupIn(w, "trailers", "precision") = t.precision
<1>1. n \in Nat /\ n + 2 \in Nat /\ n + 3 \in Nat /\ n + 4 \in Nat
  BY LaidOutLines
<1>2. n + 2 \in DOMAIN w /\ n + 3 \in DOMAIN w /\ n + 4 \in DOMAIN w
  <2>1. DOMAIN w = 1 .. n + 4 \/ DOMAIN w = 1 .. n + 6
    BY DEF Layout
  <2> QED BY <1>1, <2>1
<1>3. \A i \in DOMAIN w : SectionOf(w, i) = "trailers" => i \in {n + 1, n + 2, n + 3, n + 4}
  <2> SUFFICES ASSUME NEW i \in DOMAIN w, SectionOf(w, i) = "trailers"
               PROVE  i \in {n + 1, n + 2, n + 3, n + 4}
    OBVIOUS
  <2>1. i \notin 1 .. n
    BY DEF Layout, Sections
  <2>2. ~ (t.name # "AI-Cost" /\ i \in {n + 5, n + 6})
    BY LaidOutName
  <2> QED BY <2>1, <2>2, LaidOutPlaces
<1>4. {j \in At(w, "enabled") : SectionOf(w, j) = "trailers"} = {n + 2}
  BY <1>2, <1>3, LaidOutLines DEF At
<1>5. {j \in At(w, "shows") : SectionOf(w, j) = "trailers"} = {n + 3}
  BY <1>2, <1>3, LaidOutLines DEF At
<1>6. {j \in At(w, "precision") : SectionOf(w, j) = "trailers"} = {n + 4}
  BY <1>2, <1>3, LaidOutLines DEF At
<1>7. LookupIn(w, "trailers", "enabled") = w[n + 2].value
  BY <1>1, <1>4, LookupInOnce
<1>8. LookupIn(w, "trailers", "shows") = w[n + 3].value
  BY <1>1, <1>5, LookupInOnce
<1>9. LookupIn(w, "trailers", "precision") = w[n + 4].value
  BY <1>1, <1>6, LookupInOnce
<1> QED BY <1>7, <1>8, <1>9, LaidOutLines

LEMMA NameIsFound ==
  ASSUME NEW w, NEW t, NEW n, Layout(w, t, n)
  PROVE  LookupIn(w, "trailers.rename", "cost") =
           IF t.name = "AI-Cost" THEN NoValue ELSE t.name
<1>1. \A i \in DOMAIN w : SectionOf(w, i) = "trailers.rename" =>
                            t.name # "AI-Cost" /\ i \in {n + 5, n + 6}
  <2> SUFFICES ASSUME NEW i \in DOMAIN w, SectionOf(w, i) = "trailers.rename"
               PROVE  t.name # "AI-Cost" /\ i \in {n + 5, n + 6}
    OBVIOUS
  <2>1. i \notin 1 .. n
    BY DEF Layout, Sections
  <2>2. i \notin {n + 1, n + 2, n + 3, n + 4}
    BY LaidOutLines
  <2> QED BY <2>1, <2>2, LaidOutPlaces
<1>2. CASE t.name = "AI-Cost"
  <2>1. {j \in At(w, "cost") : SectionOf(w, j) = "trailers.rename"} = {}
    BY <1>1, <1>2 DEF At
  <2> QED BY <1>2, <2>1 DEF LookupIn
<1>3. CASE t.name # "AI-Cost"
  <2>1. n \in Nat /\ n + 6 \in Nat /\ DOMAIN w = 1 .. n + 6
    BY <1>3, LaidOutLines DEF Layout
  <2>2. n + 6 \in DOMAIN w
    BY <2>1
  <2>3. {j \in At(w, "cost") : SectionOf(w, j) = "trailers.rename"} = {n + 6}
    BY <1>1, <1>3, <2>2, LaidOutName DEF At
  <2>4. LookupIn(w, "trailers.rename", "cost") = w[n + 6].value
    BY <2>1, <2>3, LookupInOnce
  <2> QED BY <1>3, <2>4, LaidOutName
<1> QED BY <1>2, <1>3

\* What LoadTrailers reads is what was saved.
LEMMA TrailersAreRead ==
  ASSUME NEW w, NEW t \in TrailerSettings, NEW n, Layout(w, t, n), ~ Unreadable(w)
  PROVE  LoadTrailers(w) = t
<1>1. /\ t \in [enabled : {"true", "false"}, shows : {t.shows}, precision : 0 .. 8, name : {t.name}]
      /\ NoValue \notin {t.shows, t.name}
  BY FilesAssumption
<1>2. /\ t = [enabled |-> t.enabled, shows |-> t.shows, precision |-> t.precision, name |-> t.name]
      /\ t.enabled \in {"true", "false"} /\ t.precision \in 0 .. 8
      /\ t.shows # NoValue /\ t.name # NoValue
  BY <1>1
<1>3. t.precision # NoValue
  BY <1>2, SettingsAssumption
<1>4. LookupIn(w, "trailers.rename", "cost") =
        IF t.name = "AI-Cost" THEN NoValue ELSE t.name
  BY NameIsFound
<1>5. (IF LookupIn(w, "trailers.rename", "cost") = NoValue THEN "AI-Cost"
       ELSE LookupIn(w, "trailers.rename", "cost")) = t.name
  BY <1>2, <1>4
<1>6. ~ (t.precision > 8)
  BY <1>2
<1> QED BY <1>2, <1>3, <1>5, <1>6, TrailersAreFound DEF LoadTrailers

\* A save keeps what a file says elsewhere, and that it parses.
LEMMA TrailersAreSet ==
  ASSUME NEW lines, IsLines(lines), Tidy(lines), NEW t \in TrailerSettings
  PROVE  LET w == WithTrailers(lines, t) IN
         /\ IsLines(w) /\ Tidy(w) /\ LoadTrailers(w) = t
         /\ \A k \in Others : Lookup(w, k) = Lookup(lines, k)
<1> DEFINE kept == DropSections(lines, Sections)
           w == WithTrailers(lines, t)
           n == Len(kept)
<1>1. /\ Layout(w, t, n) /\ DOMAIN kept = 1 .. n
      /\ \A i \in 1 .. n : w[i] = kept[i]
  BY TrailersAreLaidOut
<1>2. Top \notin Sections
  BY DEF Top, Sections
<1>3. /\ IsLines(kept) /\ ~ Unreadable(kept)
      /\ \A k \in Others : Lookup(kept, k) = Lookup(lines, k)
  BY <1>2, SectionsAreDropped DEF Tidy
<1> HIDE DEF kept, w, n
<1>4. ~ Unreadable(w)
  <2> SUFFICES ASSUME NEW i \in DOMAIN w PROVE w[i].kind # "torn"
    BY DEF Unreadable
  <2>1. i \in 1 .. n => w[i].kind # "torn"
    BY <1>1, <1>3 DEF Unreadable
  <2>2. i \in {n + 1, n + 2, n + 3, n + 4} => w[i].kind # "torn"
    BY <1>1, LaidOutLines
  <2>3. t.name # "AI-Cost" /\ i \in {n + 5, n + 6} => w[i].kind # "torn"
    BY <1>1, LaidOutName
  <2> QED BY <1>1, <2>1, <2>2, <2>3, LaidOutPlaces
<1>5. IsLines(w)
  BY <1>1 DEF Layout
<1>6. ASSUME NEW k \in Others
      PROVE  At(w, k) = At(kept, k) /\ \A i \in At(w, k) : i \in 1 .. n
  <2>1. \A i \in DOMAIN w : w[i].kind = "entry" /\ w[i].name = k => i \in 1 .. n
    <3> SUFFICES ASSUME NEW i \in DOMAIN w, w[i].kind = "entry", w[i].name = k
                 PROVE  i \in 1 .. n
      OBVIOUS
    <3>1. k \notin {"enabled", "shows", "precision", "cost"}
      BY <1>6 DEF Others
    <3>2. i \notin {n + 1, n + 2, n + 3, n + 4}
      BY <1>1, <3>1, LaidOutLines
    <3>3. ~ (t.name # "AI-Cost" /\ i \in {n + 5, n + 6})
      BY <1>1, <3>1, LaidOutName
    <3> QED BY <1>1, <3>2, <3>3, LaidOutPlaces
  <2>2. \A i \in 1 .. n : i \in DOMAIN w
    <3>1. n \in Nat /\ (DOMAIN w = 1 .. n + 4 \/ DOMAIN w = 1 .. n + 6)
      BY <1>1 DEF Layout
    <3> QED BY <3>1
  <2> QED BY <1>1, <2>1, <2>2 DEF At
<1>7. \A k \in Others : Lookup(w, k) = Lookup(lines, k)
  <2> SUFFICES ASSUME NEW k \in Others PROVE Lookup(w, k) = Lookup(kept, k)
    BY <1>3
  <2>1. \A i \in At(w, k) : w[i] = kept[i]
    BY <1>1, <1>6
  <2> QED BY <1>5, <1>6, <2>1, SameLines
<1>8. Tidy(w)
  BY <1>1, <1>4, <1>6 DEF Tidy, Layout
<1>9. LoadTrailers(w) = t
  BY <1>1, <1>4, TrailersAreRead
<1> QED BY <1>5, <1>7, <1>8, <1>9 DEF w

-----------------------------------------------------------------------------
(* Jobs. *)

LEMMA JobTyped ==
  ASSUME ProcTyped, NEW x \in Process, proc[x].pc # "idle"
  PROVE  /\ Job(x) \in AnyJob /\ Job(x).file \in File
         /\ Job(x).file = "config" => /\ Job(x).key \in Keys
                                      /\ Job(x) = KeyJob(Job(x).key, Job(x).value)
         /\ Job(x).file = "repo" => Job(x).value \in TrailerSettings
         /\ Tail(proc[x].jobs) \in Seq(AnyJob)
<1>1. proc[x].jobs \in Seq(AnyJob) /\ proc[x].jobs # <<>>
  BY DEF ProcTyped
<1>2. Job(x) \in AnyJob /\ Tail(proc[x].jobs) \in Seq(AnyJob)
  BY <1>1, HeadTailProperties DEF Job
<1>3. CASE Job(x) \in KeyJobs
  <2>1. PICK k \in Keys, v \in Value : Job(x) = KeyJob(k, v)
    BY <1>3 DEF KeyJobs
  <2>2. Job(x).file = "config" /\ Job(x).key = k /\ Job(x).value = v
    BY <2>1 DEF KeyJob
  <2> QED BY <1>1, <1>2, <2>1, <2>2 DEF File, Job
<1>4. CASE Job(x) \notin KeyJobs
  <2>1. PICK t \in TrailerSettings : Job(x) = TrailersJob(t)
    BY <1>2, <1>4 DEF AnyJob
  <2>2. Job(x).file = "repo" /\ Job(x).value = t
    BY <2>1 DEF TrailersJob
  <2> QED BY <1>1, <1>2, <2>1, <2>2 DEF File, Job
<1> QED BY <1>3, <1>4

\* What a process would write of what it reads.
LEMMA ApplyConfig ==
  ASSUME ProcTyped, NEW x \in Process, proc[x].pc # "idle", Job(x).file = "config", NEW lines
  PROVE  Apply(Job(x), lines) = SetKey(lines, Job(x).key, Job(x).value)
BY DEF Apply

LEMMA ApplyRepo ==
  ASSUME ProcTyped, NEW x \in Process, proc[x].pc # "idle", Job(x).file = "repo", NEW lines
  PROVE  Apply(Job(x), lines) = WithTrailers(lines, Job(x).value)
BY DEF Apply

LEMMA SetKeyIsLines ==
  ASSUME NEW lines, IsLines(lines), NEW key, NEW value
  PROVE  IsLines(SetKey(lines, key, value))
<1>1. CASE At(lines, key) = {}
  BY <1>1, AppendLines DEF SetKey
<1>2. CASE At(lines, key) # {}
  <2>1. Least(At(lines, key)) \in DOMAIN lines
    BY <1>2, LeastExists, AtPlaces DEF At
  <2> QED BY <1>2, <2>1, ReplaceLines DEF SetKey
<1> QED BY <1>1, <1>2

LEMMA ApplyIsLines ==
  ASSUME ProcTyped, NEW x \in Process, proc[x].pc # "idle", NEW lines, IsLines(lines)
  PROVE  IsLines(Apply(Job(x), lines))
<1>1. CASE Job(x).file = "config"
  BY <1>1, ApplyConfig, SetKeyIsLines
<1>2. CASE Job(x).file = "repo"
  <2> DEFINE t == Job(x).value
             w == WithTrailers(lines, t)
  <2>1. Layout(w, t, Len(DropSections(lines, Sections)))
    <3> HIDE DEF t
    <3> QED BY TrailersAreLaidOut
  <2>2. Apply(Job(x), lines) = w
    BY <1>2, ApplyRepo
  <2> HIDE DEF w
  <2> QED BY <2>1, <2>2 DEF Layout
<1> QED BY <1>1, <1>2, JobTyped DEF File

LEMMA EmptyFile ==
  /\ Clean(<<>>) /\ Tidy(<<>>)
BY DEF Clean, Tidy, Unreadable, At

-----------------------------------------------------------------------------
(* What one process does leaves the others at what they are. *)

LEMMA OthersStay ==
  ASSUME NEW x \in Process, \A y \in Process \ {x} : proc'[y] = proc[y], NEW f
  PROVE  /\ \A y \in Process \ {x} : Job(y)' = Job(y)
         /\ \A y : y # x => (y \in Busy(f)' <=> y \in Busy(f))
         /\ \A y : y # x => (y \in Writing(f)' <=> y \in Writing(f))
         /\ Busy(f) \subseteq Process /\ Writing(f) \subseteq Busy(f)
         /\ Busy(f)' \subseteq Process /\ Writing(f)' \subseteq Busy(f)'
<1>1. \A y \in Process \ {x} : Job(y)' = Job(y)
  BY DEF Job
<1> QED BY <1>1 DEF Busy, Writing

\* The state of the files and the processes when nobody touches them.
LEMMA FilesUntouched ==
  ASSUME FilesInv, UNCHANGED <<disk, proc, asSet, stale, mixed, last>>, sets' \in Nat
  PROVE  FilesInv'
<1> USE DEF FilesInv
<1>1. \A x : Job(x)' = Job(x)
  BY DEF Job
<1>2. \A f : Busy(f)' = Busy(f) /\ Writing(f)' = Writing(f)
  BY <1>1 DEF Busy, Writing
<1>3. FilesTyped' /\ ProcTyped'
  BY DEF FilesTyped, ProcTyped
<1>4. OneWrites' /\ OneCopies'
  BY <1>1, <1>2 DEF OneWrites, OneCopies
<1>5. ConfigWhole' /\ ConfigAsSet'
  BY <1>1, <1>2 DEF ConfigWhole, ConfigAsSet
<1>6. RepoWhole' /\ RepoAsSet'
  BY <1>1, <1>2 DEF RepoWhole, RepoAsSet, SaysRepo
<1> QED BY <1>3, <1>4, <1>5, <1>6

\* A process goes on.
LEMMA GoesOn ==
  ASSUME ProcTyped, NEW x \in Process, NEW at, NEW jobs, NEW lines, Goes(x, at, jobs, lines)
  PROVE  /\ \A y \in Process \ {x} : proc'[y] = proc[y]
         /\ proc'[x].pc = at /\ proc'[x].jobs = jobs /\ proc'[x].lines = lines
         /\ /\ at \in {"idle", "read", "truncate", "write"} /\ IsLines(lines)
            /\ IF at = "idle" THEN jobs = <<>> ELSE jobs \in Seq(AnyJob) /\ jobs # <<>>
            => ProcTyped'
<1> DEFINE r == [pc |-> at, jobs |-> jobs, lines |-> lines]
<1>1. DOMAIN proc = Process /\ proc' = [proc EXCEPT ![x] = r]
  BY DEF ProcTyped, Goes
<1>2. r.pc = at /\ r.jobs = jobs /\ r.lines = lines
      /\ r = [pc |-> r.pc, jobs |-> r.jobs, lines |-> r.lines]
  OBVIOUS
<1> HIDE DEF r
<1>3. proc' = [y \in Process |-> IF y = x THEN r ELSE proc[y]]
  BY <1>1
<1>4. /\ \A y \in Process \ {x} : proc'[y] = proc[y]
      /\ proc'[x] = r
  BY <1>3
<1>5. ASSUME at \in {"idle", "read", "truncate", "write"}, IsLines(lines),
             IF at = "idle" THEN jobs = <<>> ELSE jobs \in Seq(AnyJob) /\ jobs # <<>>
      PROVE  ProcTyped'
  <2>1. proc' = [y \in Process |->
                   [pc |-> proc'[y].pc, jobs |-> proc'[y].jobs, lines |-> proc'[y].lines]]
    <3>1. \A y \in Process : proc'[y] =
             [pc |-> proc'[y].pc, jobs |-> proc'[y].jobs, lines |-> proc'[y].lines]
      <4> SUFFICES ASSUME NEW y \in Process
                   PROVE  proc'[y] = [pc |-> proc'[y].pc, jobs |-> proc'[y].jobs,
                                      lines |-> proc'[y].lines]
        OBVIOUS
      <4>1. CASE y = x
        BY <1>2, <1>4, <4>1
      <4>2. CASE y # x
        <5>1. proc[y] = [pc |-> proc[y].pc, jobs |-> proc[y].jobs, lines |-> proc[y].lines]
          BY DEF ProcTyped
        <5> QED BY <1>4, <4>2, <5>1
      <4> QED BY <4>1, <4>2
    <3> QED BY <1>3, <3>1
  <2>2. ASSUME NEW y \in Process
        PROVE  /\ proc'[y].pc \in {"idle", "read", "truncate", "write"}
               /\ IF proc'[y].pc = "idle" THEN proc'[y].jobs = <<>>
                  ELSE proc'[y].jobs \in Seq(AnyJob) /\ proc'[y].jobs # <<>>
               /\ IsLines(proc'[y].lines)
    <3>1. CASE y = x
      BY <1>2, <1>4, <1>5, <3>1
    <3>2. CASE y # x
      BY <1>4, <3>2 DEF ProcTyped
    <3> QED BY <3>1, <3>2
  <2> QED BY <2>1, <2>2 DEF ProcTyped
<1> QED BY <1>2, <1>4, <1>5

-----------------------------------------------------------------------------
(* The steps of a set. *)

LEMMA BeginKeepsFiles ==
  ASSUME FilesInv, NEW x \in Process, NEW jobs \in Seq(AnyJob), jobs # <<>>, Begin(x, jobs)
  PROVE  FilesInv'
<1> USE DEF FilesInv
<1>1. /\ proc[x].pc = "idle" /\ UNCHANGED <<disk, asSet, stale, mixed, last>>
      /\ proc' = [proc EXCEPT ![x] = [pc |-> "read", jobs |-> jobs, lines |-> <<>>]]
      /\ sets' \in Nat
  BY DEF Begin, Free, FilesTyped, Goes
<1>2. /\ DOMAIN proc = Process /\ \A y \in Process \ {x} : proc'[y] = proc[y]
      /\ proc'[x] = [pc |-> "read", jobs |-> jobs, lines |-> <<>>]
  BY <1>1 DEF ProcTyped
<1>3. \A f : x \notin Busy(f) /\ x \notin Writing(f) /\ x \notin Busy(f)' /\ x \notin Writing(f)'
  BY <1>1, <1>2 DEF Busy, Writing
<1>4. \A f : Busy(f)' = Busy(f) /\ Writing(f)' = Writing(f)
  <2> SUFFICES ASSUME NEW f PROVE Busy(f)' = Busy(f) /\ Writing(f)' = Writing(f)
    OBVIOUS
  <2>1. \A y : (y \in Busy(f)' <=> y \in Busy(f)) /\ (y \in Writing(f)' <=> y \in Writing(f))
    BY <1>2, <1>3, OthersStay
  <2> QED BY <2>1
<1>5. \A f : \A y \in Busy(f) : Job(y)' = Job(y) /\ proc'[y] = proc[y]
  <2> SUFFICES ASSUME NEW f, NEW y \in Busy(f) PROVE Job(y)' = Job(y) /\ proc'[y] = proc[y]
    OBVIOUS
  <2> QED BY <1>2, <1>3, OthersStay
<1>6. \A f : Writing(f) \subseteq Busy(f)
  BY DEF Busy, Writing
<1>7. FilesTyped'
  BY <1>1 DEF FilesTyped
<1>8. ProcTyped'
  BY <1>1, <1>2, EmptyIsLines DEF ProcTyped
<1>9. OneWrites' /\ OneCopies'
  BY <1>1, <1>4, <1>5 DEF OneWrites, OneCopies
<1>10. ConfigWhole' /\ ConfigAsSet'
  BY <1>1, <1>4, <1>5, <1>6 DEF ConfigWhole, ConfigAsSet
<1>11. RepoWhole' /\ RepoAsSet'
  BY <1>1, <1>4, <1>5, <1>6 DEF RepoWhole, RepoAsSet, SaysRepo
<1> QED BY <1>7, <1>8, <1>9, <1>10, <1>11

LEMMA ReadKeepsFiles ==
  ASSUME FilesInv, NEW x \in Process, Read(x)
  PROVE  FilesInv'
<1> USE DEF FilesInv
<1> DEFINE f == Job(x).file
           l == Apply(Job(x), disk[f])
<1>1. /\ proc[x].pc = "read" /\ UNCHANGED <<disk, asSet, mixed, last, sets>>
      /\ Goes(x, "truncate", proc[x].jobs, l)
      /\ stale' = IF Under(x, f) = {} THEN stale ELSE stale \cup {f}
  BY DEF Read
<1>2. /\ DOMAIN proc = Process /\ \A y \in Process \ {x} : proc'[y] = proc[y]
      /\ proc'[x].pc = "truncate" /\ proc'[x].jobs = proc[x].jobs /\ proc'[x].lines = l
  <2> HIDE DEF l
  <2> QED BY <1>1, GoesOn DEF ProcTyped
<1>3. Job(x)' = Job(x)
  BY <1>2 DEF Job
<1>4. Job(x) \in AnyJob /\ f \in File
  BY <1>1, JobTyped
<1>5. /\ \A g : x \notin Busy(g) /\ x \notin Writing(g) /\ x \notin Writing(g)'
      /\ \A g : x \in Busy(g)' <=> g = f
  BY <1>1, <1>2, <1>3 DEF Busy, Writing
<1>6. \A g : Writing(g)' = Writing(g) /\ Busy(g)' = IF g = f THEN Busy(g) \cup {x} ELSE Busy(g)
  <2> SUFFICES ASSUME NEW g
               PROVE Writing(g)' = Writing(g) /\ Busy(g)' = IF g = f THEN Busy(g) \cup {x} ELSE Busy(g)
    OBVIOUS
  <2> HIDE DEF f
  <2>1. \A y : /\ y \in Busy(g)' <=> y \in Busy(g) \/ (y = x /\ g = f)
               /\ y \in Writing(g)' <=> y \in Writing(g)
    BY <1>2, <1>5, OthersStay
  <2> QED BY <2>1
<1>7. \A g : \A y \in Busy(g) : Job(y)' = Job(y) /\ proc'[y] = proc[y] /\ y # x
  <2> SUFFICES ASSUME NEW g, NEW y \in Busy(g)
               PROVE  Job(y)' = Job(y) /\ proc'[y] = proc[y] /\ y # x
    OBVIOUS
  <2> QED BY <1>2, <1>5, OthersStay
<1>8. \A g : Writing(g) \subseteq Busy(g)
  BY DEF Busy, Writing
<1>9. f \notin stale' => Busy(f) = {} /\ f \notin stale
  <2>1. Under(x, f) = Busy(f)
    BY <1>5 DEF Under, Busy
  <2> QED BY <1>1, <2>1
<1>19. stale \subseteq stale'
  BY <1>1
<1>10. IsLines(disk[f]) /\ IsLines(l)
  <2>1. IsLines(disk[f])
    BY <1>4 DEF FilesTyped, File
  <2> QED BY <1>1, <2>1, ApplyIsLines
<1>11. FilesTyped'
  BY <1>1 DEF FilesTyped
<1>12. ProcTyped'
  <2>1. proc[x].jobs \in Seq(AnyJob) /\ proc[x].jobs # <<>>
    BY <1>1 DEF ProcTyped
  <2> HIDE DEF l
  <2> QED BY <1>1, <1>10, <2>1, GoesOn
<1>13. OneWrites'
  BY <1>1, <1>6 DEF OneWrites
<1>14. OneCopies'
  <2> SUFFICES ASSUME NEW g \in File \ stale', NEW y \in Busy(g)'
               PROVE  /\ \A z \in Busy(g)' : z = y
                      /\ proc'[y].pc = "truncate" => proc'[y].lines = Apply(Job(y)', disk'[g])
    BY DEF OneCopies
  <2>1. CASE g = f
    <3>1. Busy(g)' = {x} /\ y = x
      BY <1>6, <1>9, <2>1
    <3>2. proc'[x].lines = l
      BY <1>2
    <3> QED BY <1>1, <1>3, <2>1, <3>1, <3>2
  <2>2. CASE g # f
    <3>1. g \in File \ stale /\ Busy(g)' = Busy(g) /\ y \in Busy(g)
      BY <1>1, <1>6, <2>2
    <3> HIDE DEF f, l
    <3> QED BY <1>1, <1>7, <3>1 DEF OneCopies
  <2> QED BY <2>1, <2>2
<1>15. ConfigWhole'
  <2> SUFFICES ASSUME "config" \notin mixed
               PROVE  \A y \in Busy("config")' :
                         Clean(proc'[y].lines) /\ Lookup(proc'[y].lines, Job(y)'.key) = Job(y)'.value
    BY <1>1, <1>6 DEF ConfigWhole
  <2> TAKE y \in Busy("config")'
  <2>1. CASE y \in Busy("config")
    BY <1>7, <2>1 DEF ConfigWhole
  <2>2. CASE y \notin Busy("config")
    <3>1. y = x /\ f = "config"
      BY <1>6, <2>2
    <3>2. l = SetKey(disk.config, Job(x).key, Job(x).value)
      BY <1>1, <3>1, ApplyConfig
    <3>3. IsLines(disk.config) /\ Clean(disk.config)
      BY DEF FilesTyped, ConfigWhole
    <3>4. Clean(l) /\ Lookup(l, Job(x).key) = Job(x).value
      BY <3>2, <3>3, KeyIsSet
    <3> HIDE DEF l
    <3> QED BY <1>2, <1>3, <3>1, <3>4
  <2> QED BY <2>1, <2>2
<1>16. ConfigAsSet'
  <2> SUFFICES ASSUME "config" \notin mixed \cup stale
               PROVE  /\ Writing("config")' = {} => Parsed(disk'.config) = asSet'.config
                      /\ \A y \in Writing("config")' :
                            Parsed(proc'[y].lines) = [asSet'.config EXCEPT ![Job(y)'.key] = Job(y)'.value]
    BY <1>1, <1>19 DEF ConfigAsSet
  <2>1. Writing("config")' = Writing("config")
    BY <1>6
  <2>2. \A y \in Writing("config") : Job(y)' = Job(y) /\ proc'[y] = proc[y]
    BY <1>7, <1>8
  <2> HIDE DEF f, l
  <2>3. \A y \in Writing("config") :
           Parsed(proc'[y].lines) = [asSet.config EXCEPT ![Job(y)'.key] = Job(y)'.value]
    BY <2>2 DEF ConfigAsSet
  <2> QED BY <1>1, <2>1, <2>3 DEF ConfigAsSet
<1>17. RepoWhole'
  <2> SUFFICES ASSUME "repo" \notin mixed, NEW y \in Busy("repo")'
               PROVE  Tidy(proc'[y].lines)
    BY <1>1 DEF RepoWhole
  <2>1. CASE y \in Busy("repo")
    BY <1>7, <2>1 DEF RepoWhole
  <2>2. CASE y \notin Busy("repo")
    <3>1. y = x /\ f = "repo"
      BY <1>6, <2>2
    <3>2. l = WithTrailers(disk.repo, Job(x).value) /\ Job(x).value \in TrailerSettings
      BY <1>1, <3>1, ApplyRepo, JobTyped
    <3>3. IsLines(disk.repo) /\ Tidy(disk.repo)
      BY DEF FilesTyped, RepoWhole
    <3>4. Tidy(l)
      BY <3>2, <3>3, TrailersAreSet
    <3> HIDE DEF l
    <3> QED BY <1>2, <3>1, <3>4
  <2> QED BY <2>1, <2>2
<1>18. RepoAsSet'
  <2> SUFFICES ASSUME "repo" \notin mixed \cup stale
               PROVE  /\ Writing("repo")' = {} => SaysRepo(disk.repo, asSet.trailers)
                      /\ \A y \in Writing("repo")' : SaysRepo(proc'[y].lines, Job(y)'.value)
    BY <1>1, <1>19 DEF RepoAsSet, SaysRepo
  <2>1. Writing("repo")' = Writing("repo")
    BY <1>6
  <2>2. \A y \in Writing("repo") : Job(y)' = Job(y) /\ proc'[y] = proc[y]
    BY <1>7, <1>8
  <2> HIDE DEF f, l
  <2> QED BY <1>1, <2>1, <2>2 DEF RepoAsSet
<1> QED BY <1>11, <1>12, <1>13, <1>14, <1>15, <1>16, <1>17, <1>18

LEMMA TruncateKeepsFiles ==
  ASSUME FilesInv, NEW x \in Process, Truncate(x)
  PROVE  FilesInv'
<1> USE DEF FilesInv
<1> DEFINE f == Job(x).file
<1>1. /\ proc[x].pc = "truncate" /\ UNCHANGED <<asSet, stale, last, sets>>
      /\ disk' = [disk EXCEPT ![f] = <<>>]
      /\ mixed' = IF Writing(f) = {} THEN mixed ELSE mixed \cup {f}
      /\ Goes(x, "write", proc[x].jobs, proc[x].lines)
  BY DEF Truncate
<1>2. /\ DOMAIN proc = Process /\ \A y \in Process \ {x} : proc'[y] = proc[y]
      /\ proc'[x].pc = "write" /\ proc'[x].jobs = proc[x].jobs /\ proc'[x].lines = proc[x].lines
  BY <1>1, GoesOn DEF ProcTyped
<1>3. Job(x)' = Job(x)
  BY <1>2 DEF Job
<1>4. Job(x) \in AnyJob /\ f \in File
  BY <1>1, JobTyped
<1>5. \A g : x \notin Writing(g) /\ (x \in Busy(g) <=> g = f)
              /\ (x \in Writing(g)' <=> g = f) /\ (x \in Busy(g)' <=> g = f)
  BY <1>1, <1>2, <1>3 DEF Busy, Writing
<1>6. \A g : Busy(g)' = Busy(g) /\ Writing(g)' = IF g = f THEN Writing(g) \cup {x} ELSE Writing(g)
  <2> SUFFICES ASSUME NEW g
               PROVE Busy(g)' = Busy(g) /\ Writing(g)' = IF g = f THEN Writing(g) \cup {x} ELSE Writing(g)
    OBVIOUS
  <2> HIDE DEF f
  <2>1. \A y : /\ y \in Busy(g)' <=> y \in Busy(g)
               /\ y \in Writing(g)' <=> y \in Writing(g) \/ (y = x /\ g = f)
    BY <1>2, <1>5, OthersStay
  <2> QED BY <2>1
<1>7. \A y \in Process : Job(y)' = Job(y) /\ proc'[y].lines = proc[y].lines
                         /\ (y # x => proc'[y] = proc[y])
  BY <1>2, <1>3, OthersStay
<1>8. \A g : Writing(g) \subseteq Busy(g) /\ Busy(g) \subseteq Process
  BY DEF Busy, Writing
<1>9. /\ disk'[f] = <<>> /\ \A g \in File \ {f} : disk'[g] = disk[g]
      /\ disk' = [config |-> disk'.config, repo |-> disk'.repo]
  BY <1>1, <1>4 DEF FilesTyped, File
<1>10. f \notin mixed' => f \notin mixed /\ Writing(f) = {}
  BY <1>1
<1>11. mixed \subseteq mixed'
  BY <1>1
<1> HIDE DEF f
<1>12. FilesTyped'
  <2>1. \A g \in File : IsLines(disk'[g])
    BY <1>9, EmptyIsLines DEF FilesTyped, File
  <2> QED BY <1>1, <1>9, <2>1 DEF FilesTyped, File
<1>13. ProcTyped'
  <2>1. proc[x].jobs \in Seq(AnyJob) /\ proc[x].jobs # <<>> /\ IsLines(proc[x].lines)
    BY <1>1 DEF ProcTyped
  <2> QED BY <1>1, <2>1, GoesOn
<1>14. OneWrites'
  <2> SUFFICES ASSUME NEW g \in File \ mixed', NEW y \in Writing(g)'
               PROVE  disk'[g] = <<>> /\ \A z \in Writing(g)' : z = y
    BY DEF OneWrites
  <2>1. CASE g = f
    BY <1>6, <1>9, <1>10, <2>1
  <2>2. CASE g # f
    BY <1>6, <1>9, <1>11, <2>2 DEF OneWrites
  <2> QED BY <2>1, <2>2
<1>15. OneCopies'
  <2> SUFFICES ASSUME NEW g \in File \ stale, NEW y \in Busy(g)
               PROVE  /\ \A z \in Busy(g) : z = y
                      /\ proc'[y].pc = "truncate" => proc'[y].lines = Apply(Job(y)', disk'[g])
    BY <1>1, <1>6 DEF OneCopies
  <2>1. \A z \in Busy(g) : z = y
    BY DEF OneCopies
  <2>2. CASE g = f
    BY <1>2, <1>5, <2>1, <2>2
  <2>3. CASE g # f
    <3>1. y # x /\ y \in Process
      BY <1>5, <1>8, <2>3
    <3> QED BY <1>7, <1>9, <2>1, <2>3, <3>1 DEF OneCopies
  <2> QED BY <2>1, <2>2, <2>3
<1>16. ConfigWhole'
  <2> SUFFICES ASSUME "config" \notin mixed'
               PROVE  /\ Clean(disk'.config)
                      /\ \A y \in Busy("config") :
                            Clean(proc[y].lines) /\ Lookup(proc[y].lines, Job(y).key) = Job(y).value
                      /\ Writing("config")' = {} =>
                           \A job \in last : Lookup(disk'.config, job.key) = job.value
    BY <1>1, <1>6, <1>7, <1>8 DEF ConfigWhole
  <2>1. "config" \notin mixed
    BY <1>11
  <2>2. CASE f = "config"
    BY <1>6, <1>9, <2>1, <2>2, EmptyFile DEF ConfigWhole
  <2>3. CASE f # "config"
    <3>1. disk'.config = disk.config /\ Writing("config")' = Writing("config")
      BY <1>6, <1>9, <2>3 DEF File
    <3> QED BY <2>1, <3>1 DEF ConfigWhole
  <2> QED BY <2>2, <2>3
<1>17. ConfigAsSet'
  <2> SUFFICES ASSUME "config" \notin mixed' \cup stale
               PROVE  /\ Writing("config")' = {} => Parsed(disk'.config) = asSet.config
                      /\ \A y \in Writing("config")' :
                           Parsed(proc[y].lines) = [asSet.config EXCEPT ![Job(y).key] = Job(y).value]
    <3>1. \A y \in Writing("config")' : y \in Process
      BY <1>6, <1>8, <1>5
    <3> QED BY <1>1, <1>7, <3>1 DEF ConfigAsSet
  <2>1. "config" \notin mixed \cup stale
    BY <1>11
  <2>2. CASE f = "config"
    <3>1. Writing("config") = {} /\ Writing("config")' = {x}
      BY <1>6, <1>10, <2>2
    <3>2. Parsed(disk.config) = asSet.config
      BY <2>1, <3>1 DEF ConfigAsSet
    <3>3. proc[x].lines = SetKey(disk.config, Job(x).key, Job(x).value)
      <4>1. proc[x].lines = Apply(Job(x), disk["config"])
        BY <1>1, <1>4, <1>5, <2>1, <2>2 DEF OneCopies
      <4> QED BY <1>1, <2>2, <4>1, ApplyConfig DEF f
    <3>4. Job(x).key \in Keys
      BY <1>1, <2>2, JobTyped DEF f
    <3>5. IsLines(disk.config) /\ Clean(disk.config)
      BY <2>1 DEF FilesTyped, ConfigWhole
    <3>6. Parsed(proc[x].lines) = [asSet.config EXCEPT ![Job(x).key] = Job(x).value]
      BY <3>2, <3>3, <3>4, <3>5, ParsedIsSet
    <3> QED BY <3>1, <3>6
  <2>3. CASE f # "config"
    <3>1. disk'.config = disk.config /\ Writing("config")' = Writing("config")
      BY <1>6, <1>9, <2>3 DEF File
    <3> QED BY <2>1, <3>1 DEF ConfigAsSet
  <2> QED BY <2>2, <2>3
<1>18. RepoWhole'
  <2> SUFFICES ASSUME "repo" \notin mixed'
               PROVE  Tidy(disk'.repo) /\ \A y \in Busy("repo") : Tidy(proc[y].lines)
    BY <1>1, <1>6, <1>7, <1>8 DEF RepoWhole
  <2>1. "repo" \notin mixed
    BY <1>11
  <2>2. CASE f = "repo"
    BY <1>9, <2>1, <2>2, EmptyFile DEF RepoWhole
  <2>3. CASE f # "repo"
    BY <1>9, <2>1, <2>3 DEF RepoWhole, File
  <2> QED BY <2>2, <2>3
<1>19. RepoAsSet'
  <2> SUFFICES ASSUME "repo" \notin mixed' \cup stale
               PROVE  /\ Writing("repo")' = {} => SaysRepo(disk'.repo, asSet.trailers)
                      /\ \A y \in Writing("repo")' : SaysRepo(proc[y].lines, Job(y).value)
    <3>1. \A y \in Writing("repo")' : y \in Process
      BY <1>6, <1>8, <1>5
    <3> QED BY <1>1, <1>7, <3>1 DEF RepoAsSet, SaysRepo
  <2>1. "repo" \notin mixed \cup stale
    BY <1>11
  <2>2. CASE f = "repo"
    <3>1. Writing("repo") = {} /\ Writing("repo")' = {x}
      BY <1>6, <1>10, <2>2
    <3>2. SaysRepo(disk.repo, asSet.trailers)
      BY <2>1, <3>1 DEF RepoAsSet
    <3>3. proc[x].lines = WithTrailers(disk.repo, Job(x).value)
      <4>1. proc[x].lines = Apply(Job(x), disk["repo"])
        BY <1>1, <1>4, <1>5, <2>1, <2>2 DEF OneCopies
      <4> QED BY <1>1, <2>2, <4>1, ApplyRepo DEF f
    <3>4. Job(x).value \in TrailerSettings
      BY <1>1, <2>2, JobTyped DEF f
    <3>5. IsLines(disk.repo) /\ Tidy(disk.repo)
      BY <2>1 DEF FilesTyped, RepoWhole
    <3>6. SaysRepo(proc[x].lines, Job(x).value)
      BY <3>2, <3>3, <3>4, <3>5, TrailersAreSet DEF SaysRepo
    <3> QED BY <3>1, <3>6
  <2>3. CASE f # "repo"
    <3>1. disk'.repo = disk.repo /\ Writing("repo")' = Writing("repo")
      BY <1>6, <1>9, <2>3 DEF File
    <3> QED BY <2>1, <3>1 DEF RepoAsSet
  <2> QED BY <2>2, <2>3
<1> QED BY <1>12, <1>13, <1>14, <1>15, <1>16, <1>17, <1>18, <1>19

-----------------------------------------------------------------------------
\* What counts as set once a write is done.
LEMMA RememberIs ==
  ASSUME FilesInv, NEW x \in Process, proc[x].pc # "idle", asSet' = Remember(x)
  PROVE  /\ asSet' = [config |-> asSet'.config, repo |-> asSet'.repo, trailers |-> asSet'.trailers]
         /\ asSet'.config = [k \in Keys |-> asSet'.config[k]]
         /\ asSet'.repo = asSet.repo
         /\ Job(x).file = "config" => /\ asSet'.config = [asSet.config EXCEPT ![Job(x).key] = Job(x).value]
                                      /\ asSet'.trailers = asSet.trailers
         /\ Job(x).file = "repo" => asSet'.config = asSet.config /\ asSet'.trailers = Job(x).value
<1>1. /\ asSet = [config |-> asSet.config, repo |-> asSet.repo, trailers |-> asSet.trailers]
      /\ asSet.config = [k \in Keys |-> asSet.config[k]]
  BY DEF FilesInv, FilesTyped
<1>2. CASE Job(x).file = "repo"
  <2> DEFINE t == Job(x).value
             c == asSet.config
             r == asSet.repo
             o == asSet.trailers
  <2>1. asSet' = [asSet EXCEPT !.trailers = t]
    BY <1>2 DEF Remember
  <2>2. asSet = [config |-> c, repo |-> r, trailers |-> o] /\ c = [k \in Keys |-> c[k]]
    BY <1>1
  <2>3. c = asSet.config /\ r = asSet.repo
    OBVIOUS
  <2> HIDE DEF t, c, r, o
  <2>4. asSet' = [config |-> c, repo |-> r, trailers |-> t]
    BY <2>1, <2>2
  <2>5. asSet'.config = c /\ asSet'.repo = r /\ asSet'.trailers = t
    BY <2>4
  <2> QED BY <1>2, <2>2, <2>3, <2>4, <2>5 DEF t
<1>3. CASE Job(x).file = "config"
  <2> DEFINE k0 == Job(x).key
             v == Job(x).value
             c == asSet.config
             r == asSet.repo
             o == asSet.trailers
             d == [c EXCEPT ![k0] = v]
  <2>1. asSet' = [asSet EXCEPT !.config[k0] = v]
    BY <1>3 DEF Remember
  <2>2. asSet = [config |-> c, repo |-> r, trailers |-> o] /\ c = [k \in Keys |-> c[k]]
    BY <1>1
  <2>3. o = asSet.trailers /\ r = asSet.repo /\ c = asSet.config
    OBVIOUS
  <2> HIDE DEF k0, v, c, r, o
  <2>6. DOMAIN d = Keys
    BY <2>2
  <2>4. asSet' = [config |-> d, repo |-> r, trailers |-> o]
    BY <2>1, <2>2
  <2>5. asSet'.config = d /\ asSet'.repo = r /\ asSet'.trailers = o
    BY <2>4
  <2>7. d = [k \in Keys |-> d[k]]
    BY <2>2
  <2> QED BY <1>3, <2>3, <2>4, <2>5, <2>7 DEF k0, v
<1> QED BY <1>2, <1>3, JobTyped DEF File, FilesInv

LEMMA WriteKeepsFiles ==
  ASSUME FilesInv, NEW x \in Process, Write(x)
  PROVE  FilesInv'
<1> USE DEF FilesInv
<1>0. Job(x) \in AnyJob /\ Job(x).file \in File
  <2>1. proc[x].pc # "idle"
    BY DEF Write
  <2> QED BY <2>1, JobTyped
<1>31. PICK own : own = proc[x].lines
  OBVIOUS
<1>32. PICK f \in File : f = Job(x).file
  BY <1>0
<1>30. f = Job(x).file /\ own = proc[x].lines
  BY <1>31, <1>32
<1>1. PICK lines \in Written(x) : disk' = [disk EXCEPT ![f] = lines]
  BY <1>30 DEF Write
<1>2. /\ proc[x].pc = "write" /\ UNCHANGED <<stale, mixed, sets>>
      /\ asSet' = Remember(x)
      /\ last' = IF f = "config" THEN {Job(x)} ELSE last
      /\ IF Len(proc[x].jobs) > 1 THEN Goes(x, "read", Tail(proc[x].jobs), <<>>)
         ELSE Goes(x, "idle", <<>>, <<>>)
  BY <1>30 DEF Write
<1>3. /\ DOMAIN proc = Process /\ \A y \in Process \ {x} : proc'[y] = proc[y]
      /\ proc'[x].pc \in {"read", "idle"}
  <2>1. CASE Len(proc[x].jobs) > 1
    BY <1>2, <2>1, GoesOn DEF ProcTyped
  <2>2. CASE ~(Len(proc[x].jobs) > 1)
    BY <1>2, <2>2, GoesOn DEF ProcTyped
  <2> QED BY <2>1, <2>2
<1>5. \A g : (x \in Writing(g) <=> g = f) /\ (x \in Busy(g) <=> g = f)
              /\ x \notin Writing(g)' /\ x \notin Busy(g)'
  BY <1>2, <1>3, <1>30 DEF Busy, Writing
<1>6. \A g : Busy(g)' = Busy(g) \ {x} /\ Writing(g)' = Writing(g) \ {x}
  <2> SUFFICES ASSUME NEW g
               PROVE Busy(g)' = Busy(g) \ {x} /\ Writing(g)' = Writing(g) \ {x}
    OBVIOUS
  <2>1. \A y : /\ y \in Busy(g)' <=> y \in Busy(g) /\ y # x
               /\ y \in Writing(g)' <=> y \in Writing(g) /\ y # x
    BY <1>3, <1>5, OthersStay
  <2> QED BY <2>1
<1>7. \A g : \A y \in Busy(g)' : Job(y)' = Job(y) /\ proc'[y] = proc[y] /\ y \in Busy(g)
  <2> SUFFICES ASSUME NEW g, NEW y \in Busy(g)'
               PROVE  Job(y)' = Job(y) /\ proc'[y] = proc[y] /\ y \in Busy(g)
    OBVIOUS
  <2> QED BY <1>3, <1>5, <1>6, OthersStay
<1>8. \A g : Writing(g)' \subseteq Busy(g)' /\ Writing(g)' \subseteq Writing(g)
             /\ (g # f => Writing(g)' = Writing(g))
  BY <1>5, <1>6 DEF Busy, Writing
<1>9. /\ disk'[f] = lines /\ \A g \in File \ {f} : disk'[g] = disk[g]
      /\ disk' = [config |-> disk'.config, repo |-> disk'.repo]
  BY <1>1 DEF FilesTyped, File
<1>10. f \notin mixed => lines = own /\ Writing(f)' = {}
  <2> SUFFICES ASSUME f \notin mixed PROVE lines = own /\ Writing(f)' = {}
    OBVIOUS
  <2>1. disk[f] = <<>> /\ \A y \in Writing(f) : y = x
    BY <1>5 DEF OneWrites
  <2> QED BY <1>1, <1>6, <1>30, <2>1 DEF Written
<1>11. f \notin stale => Busy(f)' = {}
  BY <1>5, <1>6 DEF OneCopies
<1>12. IsLines(lines)
  <2>1. IsLines(own)
    BY <1>30 DEF ProcTyped
  <2>2. IsLines(Append(own, Note)) /\ IsLines(Append(own, Torn))
    BY <2>1, AppendLines
  <2> QED BY <1>30, <2>1, <2>2 DEF Written
<1>13. x \in Busy(f) /\ x \in Writing(f)
  BY <1>5
<1>14. FilesTyped'
  <2>1. \A g \in File : IsLines(disk'[g])
    BY <1>9, <1>12 DEF FilesTyped, File
  <2> QED BY <1>2, <1>9, <2>1, RememberIs DEF FilesTyped, File
<1>15. ProcTyped'
  <2>1. CASE Len(proc[x].jobs) > 1
    <3>1. proc[x].jobs \in Seq(AnyJob) /\ proc[x].jobs # <<>>
      BY <1>2 DEF ProcTyped
    <3>2. PICK t : t = Tail(proc[x].jobs)
      OBVIOUS
    <3>3. t \in Seq(AnyJob) /\ Len(t) = Len(proc[x].jobs) - 1
      BY <3>1, <3>2, HeadTailProperties
    <3>4. PICK n \in Nat : n = Len(proc[x].jobs)
      BY <3>1, LenProperties
    <3>5. t # <<>>
      <4>1. n > 1 /\ Len(t) = n - 1
        BY <2>1, <3>3, <3>4
      <4>2. Len(t) # 0
        BY <4>1
      <4> QED BY <4>2
    <3>6. Goes(x, "read", t, <<>>)
      BY <1>2, <2>1, <3>2
    <3> QED BY <3>3, <3>5, <3>6, EmptyIsLines, GoesOn
  <2>2. CASE ~(Len(proc[x].jobs) > 1)
    BY <1>2, <2>2, EmptyIsLines, GoesOn
  <2> QED BY <2>1, <2>2
<1>16. OneWrites'
  <2> SUFFICES ASSUME NEW g \in File \ mixed, NEW y \in Writing(g)'
               PROVE  disk'[g] = <<>> /\ \A z \in Writing(g)' : z = y
    BY <1>2 DEF OneWrites
  <2>1. g # f
    BY <1>10
  <2> QED BY <1>8, <1>9, <2>1 DEF OneWrites
<1>17. OneCopies'
  <2> SUFFICES ASSUME NEW g \in File \ stale, NEW y \in Busy(g)'
               PROVE  /\ \A z \in Busy(g)' : z = y
                      /\ proc'[y].pc = "truncate" => proc'[y].lines = Apply(Job(y)', disk'[g])
    BY <1>2 DEF OneCopies
  <2>1. g # f
    BY <1>11
  <2> QED BY <1>6, <1>7, <1>9, <2>1 DEF OneCopies
<1>18. ConfigWhole'
  <2> SUFFICES ASSUME "config" \notin mixed
               PROVE  /\ Clean(disk'.config)
                      /\ \A y \in Busy("config")' :
                            Clean(proc'[y].lines) /\ Lookup(proc'[y].lines, Job(y)'.key) = Job(y)'.value
                      /\ Writing("config")' = {} =>
                           \A job \in last' : Lookup(disk'.config, job.key) = job.value
    BY <1>2 DEF ConfigWhole
  <2>1. \A y \in Busy("config")' :
           Clean(proc'[y].lines) /\ Lookup(proc'[y].lines, Job(y)'.key) = Job(y)'.value
    BY <1>7 DEF ConfigWhole
  <2>2. CASE f = "config"
    <3>1. disk'.config = own
      BY <1>9, <1>10, <2>2
    <3>2. Clean(own) /\ Lookup(own, Job(x).key) = Job(x).value
      BY <1>13, <1>30, <2>2 DEF ConfigWhole
    <3> QED BY <1>2, <2>1, <2>2, <3>1, <3>2
  <2>3. CASE f # "config"
    <3>1. disk'.config = disk.config /\ Writing("config")' = Writing("config")
      BY <1>8, <1>9, <2>3 DEF File
    <3> QED BY <1>2, <2>1, <2>3, <3>1 DEF ConfigWhole
  <2> QED BY <2>2, <2>3
<1>19. ConfigAsSet'
  <2> SUFFICES ASSUME "config" \notin mixed \cup stale
               PROVE  /\ Writing("config")' = {} => Parsed(disk'.config) = asSet'.config
                      /\ \A y \in Writing("config")' :
                           Parsed(proc'[y].lines) = [asSet'.config EXCEPT ![Job(y)'.key] = Job(y)'.value]
    BY <1>2 DEF ConfigAsSet
  <2>2. CASE f = "config"
    <3>1. disk'.config = own /\ Writing("config")' = {}
      BY <1>9, <1>10, <2>2
    <3>2. Parsed(own) = [asSet.config EXCEPT ![Job(x).key] = Job(x).value]
      BY <1>13, <1>30, <2>2 DEF ConfigAsSet
    <3>3. asSet'.config = [asSet.config EXCEPT ![Job(x).key] = Job(x).value]
      BY <1>2, <1>30, <2>2, RememberIs
    <3> QED BY <3>1, <3>2, <3>3
  <2>3. CASE f # "config"
    <3>1. disk'.config = disk.config /\ Writing("config")' = Writing("config")
      BY <1>8, <1>9, <2>3 DEF File
    <3>2. asSet'.config = asSet.config
      BY <1>0, <1>2, <1>30, <2>3, RememberIs DEF File
    <3>3. \A y \in Writing("config") : Job(y)' = Job(y) /\ proc'[y] = proc[y]
      BY <1>7, <1>8, <3>1
    <3> QED BY <3>1, <3>2, <3>3 DEF ConfigAsSet
  <2> QED BY <2>2, <2>3
<1>20. RepoWhole'
  <2> SUFFICES ASSUME "repo" \notin mixed
               PROVE  Tidy(disk'.repo) /\ \A y \in Busy("repo")' : Tidy(proc'[y].lines)
    BY <1>2 DEF RepoWhole
  <2>1. \A y \in Busy("repo")' : Tidy(proc'[y].lines)
    BY <1>7 DEF RepoWhole
  <2>2. CASE f = "repo"
    <3>1. disk'.repo = own
      BY <1>9, <1>10, <2>2
    <3>2. Tidy(own)
      BY <1>13, <1>30, <2>2 DEF RepoWhole
    <3> QED BY <2>1, <3>1, <3>2
  <2>3. CASE f # "repo"
    BY <1>9, <2>1, <2>3 DEF RepoWhole, File
  <2> QED BY <2>2, <2>3
<1>21. RepoAsSet'
  <2> SUFFICES ASSUME "repo" \notin mixed \cup stale
               PROVE  /\ Writing("repo")' = {} => SaysRepo(disk.repo, asSet.trailers)'
                      /\ \A y \in Writing("repo")' : SaysRepo(proc[y].lines, Job(y).value)'
    BY <1>2 DEF RepoAsSet
  <2>1. asSet'.repo = asSet.repo
    BY <1>2, RememberIs
  <2>2. CASE f = "repo"
    <3>1. disk'.repo = own /\ Writing("repo")' = {}
      BY <1>9, <1>10, <2>2
    <3>2. SaysRepo(own, Job(x).value)
      BY <1>13, <1>30, <2>2 DEF RepoAsSet
    <3>3. asSet'.trailers = Job(x).value
      BY <1>2, <1>30, <2>2, RememberIs
    <3> QED BY <2>1, <3>1, <3>2, <3>3 DEF SaysRepo
  <2>3. CASE f # "repo"
    <3>1. disk'.repo = disk.repo /\ Writing("repo")' = Writing("repo")
      BY <1>8, <1>9, <2>3 DEF File
    <3>2. asSet'.trailers = asSet.trailers
      BY <1>0, <1>2, <1>30, <2>3, RememberIs DEF File
    <3>3. \A y \in Writing("repo") : Job(y)' = Job(y) /\ proc'[y] = proc[y]
      BY <1>7, <1>8, <3>1
    <3> QED BY <2>1, <3>1, <3>2, <3>3 DEF RepoAsSet, SaysRepo
  <2> QED BY <2>2, <2>3
<1> QED BY <1>14, <1>15, <1>16, <1>17, <1>18, <1>19, <1>20, <1>21

LEMMA GiveUpKeepsFiles ==
  ASSUME FilesInv, NEW x \in Process, GiveUp(x)
  PROVE  FilesInv'
<1> USE DEF FilesInv
<1> DEFINE f == Job(x).file
<1>1. /\ proc[x].pc # "idle" /\ UNCHANGED <<disk, asSet, stale, last, sets>>
      /\ Goes(x, "idle", <<>>, <<>>)
      /\ mixed' = IF proc[x].pc = "write" THEN mixed \cup {f} ELSE mixed
  BY DEF GiveUp
<1>2. /\ \A y \in Process \ {x} : proc'[y] = proc[y]
      /\ proc'[x].pc = "idle" /\ ProcTyped'
  BY <1>1, GoesOn, EmptyIsLines
<1>3. \A g : (x \in Writing(g) <=> g = f /\ proc[x].pc = "write")
              /\ x \notin Writing(g)' /\ x \notin Busy(g)'
  BY <1>1, <1>2 DEF Busy, Writing
<1> HIDE DEF f
<1>4. \A g : Busy(g)' = Busy(g) \ {x} /\ Writing(g)' = Writing(g) \ {x}
  <2> SUFFICES ASSUME NEW g
               PROVE Busy(g)' = Busy(g) \ {x} /\ Writing(g)' = Writing(g) \ {x}
    OBVIOUS
  <2>1. \A y : /\ y \in Busy(g)' <=> y \in Busy(g) /\ y # x
               /\ y \in Writing(g)' <=> y \in Writing(g) /\ y # x
    BY <1>2, <1>3, OthersStay
  <2> QED BY <2>1
<1>5. \A g : \A y \in Busy(g)' : Job(y)' = Job(y) /\ proc'[y] = proc[y] /\ y \in Busy(g)
  <2> SUFFICES ASSUME NEW g, NEW y \in Busy(g)'
               PROVE  Job(y)' = Job(y) /\ proc'[y] = proc[y] /\ y \in Busy(g)
    OBVIOUS
  <2> QED BY <1>2, <1>3, <1>4, OthersStay
<1>6. \A g : Writing(g)' \subseteq Busy(g)' /\ Writing(g)' \subseteq Writing(g)
             /\ (g \notin mixed' => Writing(g)' = Writing(g))
  BY <1>1, <1>3, <1>4 DEF Busy, Writing
<1>7. mixed \subseteq mixed'
  BY <1>1
<1>8. \A g : \A y \in Writing(g)' : Job(y)' = Job(y) /\ proc'[y] = proc[y] /\ y \in Writing(g)
  BY <1>5, <1>6
<1>9. FilesTyped'
  BY <1>1 DEF FilesTyped
<1>10. OneWrites'
  BY <1>1, <1>6, <1>7 DEF OneWrites
<1>11. OneCopies'
  BY <1>1, <1>5 DEF OneCopies
<1>12. ConfigWhole'
  BY <1>1, <1>5, <1>6, <1>7 DEF ConfigWhole
<1>13. ConfigAsSet'
  BY <1>1, <1>8, <1>6, <1>7 DEF ConfigAsSet
<1>14. RepoWhole'
  BY <1>1, <1>5, <1>7 DEF RepoWhole
<1>15. RepoAsSet'
  BY <1>1, <1>8, <1>6, <1>7 DEF RepoAsSet, SaysRepo
<1> QED BY <1>2, <1>9, <1>10, <1>11, <1>12, <1>13, <1>14, <1>15

-----------------------------------------------------------------------------
(* The plan picker. *)

LEMMA PlansAreThere ==
  /\ DOMAIN Plans \subseteq Nat /\ 1 \in DOMAIN Plans
  /\ Providers # <<>> => 1 \in DOMAIN Providers
  /\ \A id : CursorFor(id) \in DOMAIN Plans
  /\ \A i \in DOMAIN Plans : Plans[i] \in Range(Plans)
<1>1. Plans \in Seq(Range(Plans)) /\ Providers \in Seq(Range(Providers)) /\ "api" \in Range(Plans)
  BY SettingsAssumption
<1>2. PICK i0 \in DOMAIN Plans : Plans[i0] = "api"
  BY <1>1 DEF Range
<1>3. DOMAIN Plans = 1 .. Len(Plans) /\ Len(Plans) \in Nat
  BY <1>1, LenProperties
<1>4. DOMAIN Plans \subseteq Nat /\ 1 \in DOMAIN Plans
  BY <1>2, <1>3
<1>5. Providers # <<>> => 1 \in DOMAIN Providers
  BY <1>1
<1>6. ASSUME NEW id PROVE CursorFor(id) \in DOMAIN Plans
  <2> DEFINE hit == {i \in DOMAIN Plans : Plans[i] = id}
  <2>1. hit # {} => Least(hit) \in hit
    BY <1>4, LeastExists
  <2> QED BY <1>4, <2>1 DEF CursorFor
<1> QED BY <1>4, <1>5, <1>6 DEF Range

\* What a field of a picker becomes.
LEMMA PickerWith ==
  ASSUME NEW pk, PickerOK(pk), NEW u
  PROVE  /\ [pk EXCEPT !.phase = u] = [phase |-> u, pcursor |-> pk.pcursor, cursor |-> pk.cursor,
                                       chosen |-> pk.chosen, start |-> pk.start]
         /\ [pk EXCEPT !.pcursor = u] = [phase |-> pk.phase, pcursor |-> u, cursor |-> pk.cursor,
                                         chosen |-> pk.chosen, start |-> pk.start]
         /\ [pk EXCEPT !.cursor = u] = [phase |-> pk.phase, pcursor |-> pk.pcursor, cursor |-> u,
                                        chosen |-> pk.chosen, start |-> pk.start]
         /\ [pk EXCEPT !.start = u] = [phase |-> pk.phase, pcursor |-> pk.pcursor, cursor |-> pk.cursor,
                                       chosen |-> pk.chosen, start |-> u]
BY DEF PickerOK

LEMMA PickerWithTwo ==
  ASSUME NEW pk, PickerOK(pk), NEW u, NEW v
  PROVE  /\ [pk EXCEPT !.phase = u, !.cursor = v] =
               [phase |-> u, pcursor |-> pk.pcursor, cursor |-> v, chosen |-> pk.chosen, start |-> pk.start]
         /\ [pk EXCEPT !.phase = u, !.chosen = v] =
               [phase |-> u, pcursor |-> pk.pcursor, cursor |-> pk.cursor, chosen |-> v, start |-> pk.start]
<1>1. /\ [pk EXCEPT !.phase = u, !.cursor = v] = [[pk EXCEPT !.phase = u] EXCEPT !.cursor = v]
      /\ [pk EXCEPT !.phase = u, !.chosen = v] = [[pk EXCEPT !.phase = u] EXCEPT !.chosen = v]
  BY DEF PickerOK
<1>4. PICK at, cu, ch, st : at = pk.pcursor /\ cu = pk.cursor /\ ch = pk.chosen /\ st = pk.start
  OBVIOUS
<1>2. PICK q : /\ q = [pk EXCEPT !.phase = u]
               /\ q = [phase |-> u, pcursor |-> at, cursor |-> cu, chosen |-> ch, start |-> st]
  BY <1>4, PickerWith
<1>3. q = [phase |-> u, pcursor |-> at, cursor |-> cu, chosen |-> ch, start |-> st]
  BY <1>2
<1>5. [q EXCEPT !.cursor = v] = [phase |-> u, pcursor |-> at, cursor |-> v, chosen |-> ch, start |-> st]
  BY ONLY <1>3
<1>6. [q EXCEPT !.chosen = v] = [phase |-> u, pcursor |-> at, cursor |-> cu, chosen |-> v, start |-> st]
  BY ONLY <1>3
<1> QED BY ONLY <1>1, <1>2, <1>4, <1>5, <1>6

LEMMA ClosedIsOK ==
  /\ PickerOK(Closed)
  /\ Len(Providers) > 1 => PickerOK([Closed EXCEPT !.phase = "provider"])
<1>1. PickerOK(Closed)
  BY PlansAreThere, SettingsAssumption DEF PickerOK, Closed
<1>2. PickerOK([Closed EXCEPT !.phase = "provider"])
  BY PlansAreThere, SettingsAssumption DEF PickerOK, Closed
<1> QED BY <1>1, <1>2

LEMMA AtProviderIsOK ==
  ASSUME NEW x, NEW pk, PickerOK(pk)
  PROVE  PickerOK(AtProvider(x, pk))
<1>1. PICK cu \in DOMAIN Plans : AtProvider(x, pk) = [pk EXCEPT !.phase = "plan", !.cursor = cu]
  BY PlansAreThere DEF AtProvider
<1>2. AtProvider(x, pk) = [phase |-> "plan", pcursor |-> pk.pcursor, cursor |-> cu,
                           chosen |-> pk.chosen, start |-> pk.start]
  BY <1>1, PickerWithTwo
<1> QED BY <1>2 DEF PickerOK

LEMMA TurnsKeep ==
  ASSUME SettingsInv, NEW x \in Explorers, NEW pk, PickerOK(pk), Turns(x, pk)
  PROVE  SettingsInv'
<1>1. /\ picker' = [picker EXCEPT ![x] = pk]
      /\ UNCHANGED <<disk, proc, known, sets, asSet, stale, mixed, last, chosen>>
  BY DEF Turns
<1>2. FilesInv'
  BY <1>1, FilesUntouched DEF SettingsInv, FilesInv, FilesTyped
<1>3. PickersTyped'
  BY <1>1 DEF SettingsInv, PickersTyped
<1>4. ChosenInv'
  <2>1. \A p : SettingPlanOf(p)' = SettingPlanOf(p)
    BY <1>1 DEF SettingPlanOf
  <2> QED BY <1>1, <2>1 DEF SettingsInv, ChosenInv
<1> QED BY <1>2, <1>3, <1>4 DEF SettingsInv

\* The picker's steps that set nothing.
LEMMA PickerKeeps ==
  ASSUME SettingsInv, NEW x \in Explorers,
         \/ OpenPicker(x) \/ MoveProvider(x) \/ ChooseProvider(x)
         \/ MovePlan(x) \/ ChoosePlan(x) \/ MoveDate(x) \/ Back(x) \/ Cancel(x)
  PROVE  SettingsInv'
<1>0. PICK pk : pk = picker[x] /\ PickerOK(pk)
  BY DEF SettingsInv, PickersTyped
<1>1. CASE OpenPicker(x)
  BY <1>1, ClosedIsOK, AtProviderIsOK, TurnsKeep DEF OpenPicker
<1>2. CASE MoveProvider(x)
  <2>1. PICK i \in DOMAIN Providers : Turns(x, [pk EXCEPT !.pcursor = i])
    BY <1>0, <1>2 DEF MoveProvider
  <2>2. [pk EXCEPT !.pcursor = i] = [phase |-> pk.phase, pcursor |-> i, cursor |-> pk.cursor,
                                     chosen |-> pk.chosen, start |-> pk.start]
    BY <1>0, PickerWith
  <2>3. PickerOK([pk EXCEPT !.pcursor = i])
    BY <1>0, <2>2 DEF PickerOK
  <2> QED BY <2>1, <2>3, TurnsKeep
<1>3. CASE ChooseProvider(x)
  BY <1>0, <1>3, AtProviderIsOK, TurnsKeep DEF ChooseProvider
<1>4. CASE MovePlan(x)
  <2>1. PICK i \in DOMAIN Plans : Turns(x, [pk EXCEPT !.cursor = i])
    BY <1>0, <1>4 DEF MovePlan
  <2>2. pk.phase = "plan"
    BY <1>0, <1>4 DEF MovePlan, Shows
  <2>3. PickerOK([pk EXCEPT !.cursor = i])
    BY <1>0, <2>1, <2>2, PickerWith DEF PickerOK
  <2> QED BY <2>1, <2>3, TurnsKeep
<1>5. CASE ChoosePlan(x)
  <2>1. PICK id : id = Plans[pk.cursor]
    OBVIOUS
  <2>2. id # "api" /\ Turns(x, [pk EXCEPT !.phase = "date", !.chosen = id])
    BY <1>0, <1>5, <2>1 DEF ChoosePlan
  <2>3. [pk EXCEPT !.phase = "date", !.chosen = id] =
           [phase |-> "date", pcursor |-> pk.pcursor, cursor |-> pk.cursor, chosen |-> id, start |-> pk.start]
    BY <1>0, PickerWithTwo
  <2>4. PickerOK([pk EXCEPT !.phase = "date", !.chosen = id])
    BY <1>0, <2>1, <2>2, <2>3 DEF PickerOK
  <2> QED BY <2>2, <2>4, TurnsKeep
<1>6. CASE MoveDate(x)
  <2>1. PICK d \in Dates : Turns(x, [pk EXCEPT !.start = d])
    BY <1>0, <1>6 DEF MoveDate
  <2>2. PickerOK([pk EXCEPT !.start = d])
    BY <1>0, <2>1, PickerWith DEF PickerOK
  <2> QED BY <2>1, <2>2, TurnsKeep
<1>7. CASE Back(x)
  <2>1. PICK phase \in {"plan", "provider"} : Turns(x, [pk EXCEPT !.phase = phase])
    BY <1>0, <1>7 DEF Back
  <2>2. PickerOK([pk EXCEPT !.phase = phase])
    BY <1>0, <2>1, PickerWith DEF PickerOK
  <2> QED BY <2>1, <2>2, TurnsKeep
<1>8. CASE Cancel(x)
  BY <1>8, ClosedIsOK, TurnsKeep DEF Cancel
<1> QED BY <1>1, <1>2, <1>3, <1>4, <1>5, <1>6, <1>7, <1>8

-----------------------------------------------------------------------------
(* The plans confirmed. *)

LEMMA KeysDiffer ==
  ASSUME NEW p, NEW q
  PROVE  /\ PlanKey(p) = PlanKey(q) <=> p = q
         /\ StartKey(p) = StartKey(q) <=> p = q
         /\ PlanKey(p) # StartKey(q)
         /\ BudgetKey # PlanKey(q) /\ BudgetKey # StartKey(q)
BY DEF PlanKey, StartKey, BudgetKey

LEMMA OwnersKeys ==
  ASSUME NEW p \in Owner
  PROVE  PlanKey(p) \in Keys /\ StartKey(p) \in Keys /\ FeeKey(p) \in Keys /\ BudgetKey \in Keys
BY DEF Keys

LEMMA PairIsJoined ==
  ASSUME NEW a, NEW b
  PROVE  <<a>> \o <<b>> = <<a, b>>
<1>1. <<a>> \in Seq({a, b}) /\ <<b>> \in Seq({a, b}) /\ <<a, b>> \in Seq({a, b})
  OBVIOUS
<1>2. PICK s : s = <<a>> \o <<b>>
  OBVIOUS
<1>3. s \in Seq({a, b}) /\ Len(s) = 2
  BY <1>1, <1>2, ConcatProperties
<1>4. s[1] = a /\ s[2] = b
  BY <1>2
<1>5. s = <<a, b>>
  BY ONLY <1>1, <1>3, <1>4, SeqEqual
<1> QED BY <1>2, <1>5

\* What a set of a plan has to write.
LEMMA PlanJobsAre ==
  ASSUME NEW p \in Owner, NEW id \in Range(Plans), NEW start \in Dates
  PROVE  /\ PlanJobs(p, id, start) \in Seq(AnyJob) /\ PlanJobs(p, id, start) # <<>>
         /\ Head(PlanJobs(p, id, start)) = KeyJob(PlanKey(p), id)
         /\ id = "api" => Len(PlanJobs(p, id, start)) = 1
         /\ id # "api" => /\ Len(PlanJobs(p, id, start)) = 2
                          /\ Tail(PlanJobs(p, id, start)) = <<KeyJob(StartKey(p), start)>>
         /\ \A i \in DOMAIN PlanJobs(p, id, start) : PlanJobs(p, id, start)[i] \in
               {KeyJob(PlanKey(p), id), KeyJob(StartKey(p), start)}
<1>1. PICK a, b : a = KeyJob(PlanKey(p), id) /\ b = KeyJob(StartKey(p), start)
  OBVIOUS
<1>2. a \in AnyJob /\ b \in AnyJob
  BY <1>1, OwnersKeys DEF AnyJob, KeyJobs, Value
<1>3. PlanJobs(p, id, start) = IF id = "api" THEN <<a>> ELSE <<a, b>>
  <2>1. PlanJobs(p, id, start) = <<a>> \o (IF id = "api" THEN <<>> ELSE <<b>>)
    BY <1>1 DEF PlanJobs
  <2>2. <<a>> \o <<>> = <<a>>
    BY ONLY TRUE
  <2>3. <<a>> \o <<b>> = <<a, b>>
    BY PairIsJoined
  <2> QED BY <2>1, <2>2, <2>3
<1>4. /\ <<a>> \in Seq(AnyJob) /\ <<a, b>> \in Seq(AnyJob)
      /\ <<a>> # <<>> /\ <<a, b>> # <<>>
      /\ Head(<<a>>) = a /\ Head(<<a, b>>) = a
      /\ Len(<<a>>) = 1 /\ Len(<<a, b>>) = 2 /\ Tail(<<a, b>>) = <<b>>
      /\ \A i \in DOMAIN <<a>> : <<a>>[i] \in {a, b}
      /\ \A i \in DOMAIN <<a, b>> : <<a, b>>[i] \in {a, b}
  BY <1>2
<1> QED BY <1>1, <1>3, <1>4

LEMMA OneJob ==
  ASSUME NEW job
  PROVE  /\ <<job>> # <<>> /\ Len(<<job>>) = 1 /\ Head(<<job>>) = job
         /\ job \in AnyJob => <<job>> \in Seq(AnyJob)
         /\ \A i \in DOMAIN <<job>> : <<job>>[i] = job
OBVIOUS

\* Whose jobs are of which owner's plan.
LEMMA OfPlan ==
  ASSUME NEW p, NEW q, NEW id, NEW v
  PROVE  /\ IsOfPlan(KeyJob(PlanKey(p), id), q) <=> p = q
         /\ IsOfPlan(KeyJob(StartKey(p), id), q) <=> p = q
         /\ ~IsOfPlan(KeyJob(BudgetKey, v), q)
         /\ ~IsOfPlan(TrailersJob(v), q)
<1>1. KeyJob(PlanKey(p), id).key = PlanKey(p) /\ KeyJob(PlanKey(p), id).file = "config"
  BY DEF KeyJob
<1>2. KeyJob(StartKey(p), id).key = StartKey(p) /\ KeyJob(StartKey(p), id).file = "config"
  BY DEF KeyJob
<1>3. KeyJob(BudgetKey, v).key = BudgetKey
  BY DEF KeyJob
<1>4. TrailersJob(v).file = "repo"
  BY DEF TrailersJob
<1>5. PlanKey(q) # StartKey(p)
  BY KeysDiffer
<1> QED BY <1>1, <1>2, <1>3, <1>4, <1>5, KeysDiffer DEF IsOfPlan

\* Who sets a plan, as one process goes on.
LEMMA SettersAre ==
  ASSUME NEW x \in Process, \A y \in Process \ {x} : proc'[y] = proc[y], NEW p
  PROVE  /\ SettingPlanOf(p) \subseteq Process /\ SettingPlanOf(p)' \subseteq Process
         /\ \A y : y # x => (y \in SettingPlanOf(p)' <=> y \in SettingPlanOf(p))
         /\ x \in SettingPlanOf(p)' <=> \E i \in DOMAIN proc'[x].jobs : IsOfPlan(proc'[x].jobs[i], p)
BY DEF SettingPlanOf

LEMMA NoJobs == DOMAIN <<>> = {}
OBVIOUS

\* The keys of a plan stay, and so do those who set it.
LEMMA ChosenStays ==
  ASSUME ChosenInv, NEW p \in Owner, NEW c \in chosen[p],
         SettingPlanOf(p)' = SettingPlanOf(p),
         \A y \in SettingPlanOf(p) : proc'[y].jobs = proc[y].jobs,
         asSet'.config[PlanKey(p)] = asSet.config[PlanKey(p)],
         asSet'.config[StartKey(p)] = asSet.config[StartKey(p)]
  PROVE  /\ \A x \in SettingPlanOf(p)' :
               /\ \A y \in SettingPlanOf(p)' : y = x
               /\ \/ proc'[x].jobs = PlanJobs(p, c.id, c.start)
                  \/ /\ c.id # "api" /\ proc'[x].jobs = <<KeyJob(StartKey(p), c.start)>>
                     /\ asSet'.config[PlanKey(p)] = c.id
         /\ SettingPlanOf(p)' = {} =>
               /\ asSet'.config[PlanKey(p)] = c.id
               /\ c.id # "api" => asSet'.config[StartKey(p)] = c.start
BY DEF ChosenInv

\* Reading and truncating.
LEMMA SameJobsKeepChosen ==
  ASSUME ChosenInv, ProcTyped, UNCHANGED <<asSet, chosen>>, NEW x \in Process,
         NEW at, NEW lines, Goes(x, at, proc[x].jobs, lines)
  PROVE  ChosenInv'
<1>1. \A y \in Process : proc'[y].jobs = proc[y].jobs
  BY GoesOn
<1>2. \A p : SettingPlanOf(p)' = SettingPlanOf(p)
  BY <1>1 DEF SettingPlanOf
<1>3. \A p : SettingPlanOf(p) \subseteq Process
  BY DEF SettingPlanOf
<1>4. \A p : \A y \in SettingPlanOf(p) : proc'[y].jobs = proc[y].jobs
  BY <1>1, <1>3
<1> QED BY <1>2, <1>4 DEF ChosenInv

LEMMA ConfirmKeeps ==
  ASSUME SettingsInv, NEW x \in Explorers, Confirm(x)
  PROVE  SettingsInv'
<1>0. PickerOK(picker[x]) /\ FilesInv /\ ProcTyped /\ ChosenInv
  BY DEF SettingsInv, PickersTyped, FilesInv
<1>1. PICK p0, id, start :
        /\ p0 = Target(x) /\ start = picker[x].start
        /\ id = IF picker[x].phase = "date" THEN picker[x].chosen ELSE Plans[picker[x].cursor]
  OBVIOUS
<1>2. p0 \in Owner
  <2>1. Providers \in Seq(Range(Providers))
    BY SettingsAssumption
  <2> QED BY <1>0, <1>1, <2>1 DEF Target, Owner, PickerOK, Range
<1>3. id = Plans[picker[x].cursor] /\ id \in Range(Plans) /\ start \in Dates
  BY <1>0, <1>1, PlansAreThere DEF PickerOK
<1>4. PICK shown : shown = [id |-> id, start |-> start]
  OBVIOUS
<1>5. /\ Begin(x, PlanJobs(p0, id, start))
      /\ chosen' = [chosen EXCEPT ![p0] = IF SettingPlanOf(p0) = {} THEN {shown} ELSE {}]
      /\ picker' = [picker EXCEPT ![x] = Closed]
  <2>1. shown = [id |-> Plans[picker[x].cursor], start |-> picker[x].start]
    BY <1>1, <1>3, <1>4
  <2> QED BY <1>1, <2>1 DEF Confirm
<1>6. PICK jobs : jobs = PlanJobs(p0, id, start)
  OBVIOUS
<1>7. x \in Process
  BY DEF Process
<1>8. jobs \in Seq(AnyJob) /\ jobs # <<>>
  BY <1>2, <1>3, <1>6, PlanJobsAre
<1>9. FilesInv'
  BY <1>0, <1>5, <1>6, <1>7, <1>8, BeginKeepsFiles
<1>10. PickersTyped'
  <2>1. shown \in [id : Range(Plans), start : Dates]
    BY <1>3, <1>4
  <2>2. chosen' \in [Owner -> SUBSET [id : Range(Plans), start : Dates]]
    BY <1>2, <1>5, <2>1 DEF SettingsInv, PickersTyped
  <2> QED BY <1>5, <2>2, ClosedIsOK DEF SettingsInv, PickersTyped
<1>11. ChosenInv'
  <2>1. /\ proc[x].pc = "idle" /\ asSet' = asSet
        /\ Goes(x, "read", jobs, <<>>)
    BY <1>5, <1>6 DEF Begin, Free
  <2>2. /\ proc[x].jobs = <<>> /\ proc'[x].jobs = jobs
        /\ \A y \in Process \ {x} : proc'[y] = proc[y]
    BY <1>0, <1>7, <2>1, GoesOn DEF ProcTyped
  <2>3. \A p : x \notin SettingPlanOf(p)
    BY <2>2, NoJobs DEF SettingPlanOf
  <2>4. \A p : p # p0 => x \notin SettingPlanOf(p)'
    <3>1. \A i \in DOMAIN jobs : jobs[i] \in {KeyJob(PlanKey(p0), id), KeyJob(StartKey(p0), start)}
      BY <1>2, <1>3, <1>6, PlanJobsAre
    <3>2. \A p : p # p0 => /\ ~IsOfPlan(KeyJob(PlanKey(p0), id), p)
                           /\ ~IsOfPlan(KeyJob(StartKey(p0), start), p)
      BY OfPlan
    <3>3. \A p : p # p0 => \A i \in DOMAIN jobs : ~IsOfPlan(jobs[i], p)
      BY <3>1, <3>2
    <3> QED BY <1>7, <2>2, <3>3, SettersAre
  <2> SUFFICES ASSUME NEW p \in Owner, NEW c \in chosen'[p]
               PROVE  /\ \A y \in SettingPlanOf(p)' :
                           /\ \A z \in SettingPlanOf(p)' : z = y
                           /\ \/ proc'[y].jobs = PlanJobs(p, c.id, c.start)
                              \/ /\ c.id # "api" /\ proc'[y].jobs = <<KeyJob(StartKey(p), c.start)>>
                                 /\ asSet'.config[PlanKey(p)] = c.id
                      /\ SettingPlanOf(p)' = {} =>
                           /\ asSet'.config[PlanKey(p)] = c.id
                           /\ c.id # "api" => asSet'.config[StartKey(p)] = c.start
    BY DEF ChosenInv
  <2>5. CASE p = p0
    <3>1. c = shown /\ SettingPlanOf(p0) = {}
      BY <1>5, <2>5 DEF SettingsInv, PickersTyped
    <3>2. jobs[1] = KeyJob(PlanKey(p0), id) /\ 1 \in DOMAIN jobs
      <4>1. Head(jobs) = KeyJob(PlanKey(p0), id)
        BY <1>2, <1>3, <1>6, PlanJobsAre
      <4> QED BY <1>8, <4>1
    <3>3. x \in SettingPlanOf(p0)'
      <4>1. IsOfPlan(jobs[1], p0)
        BY <3>2, OfPlan
      <4> QED BY <1>7, <2>2, <3>2, <4>1, SettersAre
    <3>4. \A y \in SettingPlanOf(p0)' : y = x
      BY <1>7, <2>2, <3>1, SettersAre
    <3>5. proc'[x].jobs = PlanJobs(p, c.id, c.start)
      BY <1>4, <1>6, <2>2, <2>5, <3>1
    <3> QED BY <2>5, <3>3, <3>4, <3>5
  <2>6. CASE p # p0
    <3>1. c \in chosen[p]
      BY <1>5, <2>6 DEF SettingsInv, PickersTyped
    <3>2. \A y : y \in SettingPlanOf(p)' <=> y \in SettingPlanOf(p)
      BY <1>7, <2>2, <2>3, <2>4, <2>6, SettersAre
    <3>3. SettingPlanOf(p)' = SettingPlanOf(p)
      BY <3>2
    <3>4. \A y \in SettingPlanOf(p) : proc'[y].jobs = proc[y].jobs
      BY <2>2, <2>3 DEF SettingPlanOf
    <3> QED BY <1>0, <2>1, <3>1, <3>3, <3>4, ChosenStays
  <2> QED BY <2>5, <2>6
<1> QED BY <1>9, <1>10, <1>11 DEF SettingsInv

\* A set of something else than a plan.
LEMMA OtherSetKeeps ==
  ASSUME SettingsInv, NEW x \in Process, NEW job \in AnyJob, \A p : ~IsOfPlan(job, p),
         Begin(x, <<job>>), UNCHANGED <<picker, chosen>>
  PROVE  SettingsInv'
<1>1. PICK jobs : jobs = <<job>>
  OBVIOUS
<1>2. jobs \in Seq(AnyJob) /\ jobs # <<>> /\ \A i \in DOMAIN jobs : jobs[i] = job
  BY <1>1, OneJob
<1>3. Begin(x, jobs) /\ ProcTyped /\ FilesInv /\ ChosenInv
  BY <1>1 DEF SettingsInv, FilesInv
<1>4. FilesInv'
  BY <1>2, <1>3, BeginKeepsFiles
<1>5. PickersTyped'
  BY DEF SettingsInv, PickersTyped
<1>6. ChosenInv'
  <2>1. proc[x].pc = "idle" /\ asSet' = asSet /\ Goes(x, "read", jobs, <<>>)
    BY <1>3 DEF Begin, Free
  <2>2. /\ proc[x].jobs = <<>> /\ proc'[x].jobs = jobs
        /\ \A y \in Process \ {x} : proc'[y] = proc[y]
    BY <1>3, <2>1, GoesOn DEF ProcTyped
  <2>3. \A p : x \notin SettingPlanOf(p)
    BY <2>2, NoJobs DEF SettingPlanOf
  <2>4. \A p : x \notin SettingPlanOf(p)'
    BY <1>2, <2>2, SettersAre
  <2>5. \A p : \A y : y \in SettingPlanOf(p)' <=> y \in SettingPlanOf(p)
    BY <2>2, <2>3, <2>4, SettersAre
  <2>6. \A p : SettingPlanOf(p)' = SettingPlanOf(p)
    BY <2>5
  <2>7. \A p : \A y \in SettingPlanOf(p) : proc'[y].jobs = proc[y].jobs
    BY <2>2, <2>3 DEF SettingPlanOf
  <2> QED BY <1>3, <2>1, <2>6, <2>7 DEF ChosenInv
<1> QED BY <1>4, <1>5, <1>6 DEF SettingsInv

\* A write of a plan is of the plan's key and then of its start's.
LEMMA WriteKeepsChosen ==
  ASSUME SettingsInv, NEW x \in Process, Write(x)
  PROVE  ChosenInv'
<1>0. FilesInv /\ ProcTyped /\ ChosenInv
  BY DEF SettingsInv, FilesInv
<1>1. PICK jobs : jobs = proc[x].jobs
  OBVIOUS
<1>2. /\ proc[x].pc = "write" /\ asSet' = Remember(x) /\ chosen' = chosen
      /\ Len(jobs) > 1 => Goes(x, "read", Tail(jobs), <<>>)
      /\ ~(Len(jobs) > 1) => Goes(x, "idle", <<>>, <<>>)
  BY <1>1 DEF Write
<1>3. PICK after : /\ proc'[x].jobs = after /\ \A y \in Process \ {x} : proc'[y] = proc[y]
                   /\ after = IF Len(jobs) > 1 THEN Tail(jobs) ELSE <<>>
  <2>1. CASE Len(jobs) > 1
    <3>1. PICK t : t = Tail(jobs)
      OBVIOUS
    <3>2. Goes(x, "read", t, <<>>)
      BY <1>2, <2>1, <3>1
    <3> QED BY <1>0, <2>1, <3>1, <3>2, GoesOn
  <2>2. CASE ~(Len(jobs) > 1)
    <3>1. Goes(x, "idle", <<>>, <<>>)
      BY <1>2, <2>2
    <3> QED BY <1>0, <2>2, <3>1, GoesOn
  <2> QED BY <2>1, <2>2
<1>4. jobs \in Seq(AnyJob) /\ jobs # <<>> /\ Job(x) = Head(jobs)
  BY <1>0, <1>1, <1>2 DEF ProcTyped, Job
<1>5. \A i \in DOMAIN after : \E j \in DOMAIN jobs : after[i] = jobs[j]
  BY <1>3, <1>4
<1>6. 1 \in DOMAIN jobs /\ jobs[1] = Job(x)
  BY <1>4
<1>7. /\ asSet.config = [k \in Keys |-> asSet.config[k]]
      /\ Job(x).file = "config" => asSet'.config = [asSet.config EXCEPT ![Job(x).key] = Job(x).value]
      /\ Job(x).file # "config" => asSet'.config = asSet.config
  <2>1. Job(x).file \in File
    BY <1>0, <1>2, JobTyped
  <2> QED BY <1>0, <1>2, <2>1, RememberIs DEF FilesInv, FilesTyped, File
<1> SUFFICES ASSUME NEW p \in Owner, NEW c \in chosen[p]
             PROVE  /\ \A y \in SettingPlanOf(p)' :
                         /\ \A z \in SettingPlanOf(p)' : z = y
                         /\ \/ proc'[y].jobs = PlanJobs(p, c.id, c.start)
                            \/ /\ c.id # "api" /\ proc'[y].jobs = <<KeyJob(StartKey(p), c.start)>>
                               /\ asSet'.config[PlanKey(p)] = c.id
                    /\ SettingPlanOf(p)' = {} =>
                         /\ asSet'.config[PlanKey(p)] = c.id
                         /\ c.id # "api" => asSet'.config[StartKey(p)] = c.start
  BY <1>2 DEF ChosenInv
<1>8. PlanKey(p) \in Keys /\ StartKey(p) \in Keys /\ PlanKey(p) # StartKey(p)
  BY OwnersKeys, KeysDiffer
<1>9. c.id \in Range(Plans) /\ c.start \in Dates
  BY DEF SettingsInv, PickersTyped
<1>12. x \in SettingPlanOf(p)' <=> \E i \in DOMAIN after : IsOfPlan(after[i], p)
  BY <1>3, SettersAre
<1>10. CASE x \in SettingPlanOf(p)
  <2>1. \A y \in SettingPlanOf(p) : y = x
    BY <1>0, <1>10 DEF ChosenInv
  <2>2. \A y : y \in SettingPlanOf(p)' => y = x
    BY <1>3, <2>1, SettersAre
  <2>3. ASSUME jobs = PlanJobs(p, c.id, c.start), c.id = "api"
        PROVE  after = <<>> /\ asSet'.config[PlanKey(p)] = c.id
    <3>1. Len(jobs) = 1 /\ Job(x) = KeyJob(PlanKey(p), c.id)
      BY <1>4, <1>9, <2>3, PlanJobsAre
    <3>2. Job(x).file = "config" /\ Job(x).key = PlanKey(p) /\ Job(x).value = c.id
      BY <3>1 DEF KeyJob
    <3> QED BY <1>3, <1>7, <1>8, <3>1, <3>2
  <2>4. ASSUME jobs = PlanJobs(p, c.id, c.start), c.id # "api"
        PROVE  after = <<KeyJob(StartKey(p), c.start)>> /\ asSet'.config[PlanKey(p)] = c.id
    <3>1. /\ Len(jobs) = 2 /\ Tail(jobs) = <<KeyJob(StartKey(p), c.start)>>
          /\ Job(x) = KeyJob(PlanKey(p), c.id)
      BY <1>4, <1>9, <2>4, PlanJobsAre
    <3>2. Job(x).file = "config" /\ Job(x).key = PlanKey(p) /\ Job(x).value = c.id
      BY <3>1 DEF KeyJob
    <3> QED BY <1>3, <1>7, <1>8, <3>1, <3>2
  <2>5. ASSUME c.id # "api", jobs = <<KeyJob(StartKey(p), c.start)>>,
               asSet.config[PlanKey(p)] = c.id
        PROVE  /\ after = <<>> /\ asSet'.config[PlanKey(p)] = c.id
               /\ asSet'.config[StartKey(p)] = c.start
    <3>1. Len(jobs) = 1 /\ Job(x) = KeyJob(StartKey(p), c.start)
      BY <1>4, <2>5, OneJob
    <3>2. Job(x).file = "config" /\ Job(x).key = StartKey(p) /\ Job(x).value = c.start
      BY <3>1 DEF KeyJob
    <3> QED BY <1>3, <1>7, <1>8, <2>5, <3>1, <3>2
  <2>6. after = <<>> => SettingPlanOf(p)' = {}
    <3>1. after = <<>> => x \notin SettingPlanOf(p)'
      BY <1>12, NoJobs
    <3> QED BY <2>2, <3>1
  <2>7. after = <<KeyJob(StartKey(p), c.start)>> => x \in SettingPlanOf(p)'
    <3>1. PICK s : s = KeyJob(StartKey(p), c.start) /\ IsOfPlan(s, p)
      BY OfPlan
    <3>2. 1 \in DOMAIN <<s>> /\ <<s>>[1] = s
      OBVIOUS
    <3> QED BY <1>12, <3>1, <3>2
  <2>8. \/ jobs = PlanJobs(p, c.id, c.start)
        \/ /\ c.id # "api" /\ jobs = <<KeyJob(StartKey(p), c.start)>>
           /\ asSet.config[PlanKey(p)] = c.id
    BY <1>0, <1>1, <1>10 DEF ChosenInv
  <2>9. CASE after = <<>>
    <3>1. SettingPlanOf(p)' = {}
      BY <2>6, <2>9
    <3>2. ~(jobs = PlanJobs(p, c.id, c.start) /\ c.id # "api")
      <4>1. \A j : <<j>> # <<>>
        OBVIOUS
      <4> QED BY <2>4, <2>9, <4>1
    <3> QED BY <2>3, <2>5, <2>8, <3>1, <3>2
  <2>10. CASE after # <<>>
    <3>1. jobs = PlanJobs(p, c.id, c.start) /\ c.id # "api"
      BY <2>3, <2>5, <2>8, <2>10
    <3>2. after = <<KeyJob(StartKey(p), c.start)>> /\ asSet'.config[PlanKey(p)] = c.id
      BY <2>4, <3>1
    <3>3. x \in SettingPlanOf(p)'
      BY <2>7, <3>2
    <3> QED BY <1>3, <2>2, <3>1, <3>2, <3>3
  <2> QED BY <2>9, <2>10
<1>11. CASE x \notin SettingPlanOf(p)
  <2>1. \A j \in DOMAIN jobs : ~IsOfPlan(jobs[j], p)
    BY <1>1, <1>11 DEF SettingPlanOf
  <2>2. x \notin SettingPlanOf(p)'
    BY <1>5, <1>12, <2>1
  <2>3. \A y : y \in SettingPlanOf(p)' <=> y \in SettingPlanOf(p)
    BY <1>3, <1>11, <2>2, SettersAre
  <2>4. SettingPlanOf(p)' = SettingPlanOf(p)
    BY <2>3
  <2>5. \A y \in SettingPlanOf(p) : proc'[y].jobs = proc[y].jobs
    BY <1>3, <1>11 DEF SettingPlanOf
  <2>6. Job(x).file = "config" => Job(x).key # PlanKey(p) /\ Job(x).key # StartKey(p)
    BY <1>6, <2>1 DEF IsOfPlan
  <2>7. /\ asSet'.config[PlanKey(p)] = asSet.config[PlanKey(p)]
        /\ asSet'.config[StartKey(p)] = asSet.config[StartKey(p)]
    BY <1>7, <1>8, <2>6
  <2> QED BY <1>0, <2>4, <2>5, <2>7, ChosenStays
<1> QED BY <1>10, <1>11

LEMMA WriteKeeps ==
  ASSUME SettingsInv, NEW x \in Process, Write(x)
  PROVE  SettingsInv'
<1>1. FilesInv'
  BY WriteKeepsFiles DEF SettingsInv
<1>2. PickersTyped'
  BY DEF SettingsInv, PickersTyped, Write
<1> QED BY <1>1, <1>2, WriteKeepsChosen DEF SettingsInv

LEMMA ReadAndTruncateKeep ==
  ASSUME SettingsInv, NEW x \in Process, Read(x) \/ Truncate(x)
  PROVE  SettingsInv'
<1>1. FilesInv'
  BY ReadKeepsFiles, TruncateKeepsFiles DEF SettingsInv
<1>2. PickersTyped'
  BY DEF SettingsInv, PickersTyped, Read, Truncate
<1>3. ChosenInv'
  <2>1. PICK at, lines : Goes(x, at, proc[x].jobs, lines)
    BY DEF Read, Truncate
  <2>2. UNCHANGED <<asSet, chosen>>
    BY DEF Read, Truncate
  <2> QED BY <2>1, <2>2, SameJobsKeepChosen DEF SettingsInv, FilesInv
<1> QED BY <1>1, <1>2, <1>3 DEF SettingsInv

LEMMA GiveUpKeeps ==
  ASSUME SettingsInv, NEW x \in Process, GiveUp(x)
  PROVE  SettingsInv'
<1>1. FilesInv'
  BY GiveUpKeepsFiles DEF SettingsInv
<1>2. /\ UNCHANGED <<picker, asSet>> /\ Goes(x, "idle", <<>>, <<>>)
      /\ chosen' = [p \in Owner |-> IF x \in SettingPlanOf(p) THEN {} ELSE chosen[p]]
  BY DEF GiveUp
<1>3. PickersTyped'
  BY <1>2 DEF SettingsInv, PickersTyped
<1>4. ChosenInv'
  <2>1. proc'[x].jobs = <<>> /\ \A y \in Process \ {x} : proc'[y] = proc[y]
    BY <1>2, GoesOn DEF SettingsInv, FilesInv
  <2>2. \A p : x \notin SettingPlanOf(p)'
    BY <2>1, NoJobs, SettersAre
  <2> SUFFICES ASSUME NEW p \in Owner, NEW c \in chosen'[p]
               PROVE  /\ \A y \in SettingPlanOf(p)' :
                           /\ \A z \in SettingPlanOf(p)' : z = y
                           /\ \/ proc'[y].jobs = PlanJobs(p, c.id, c.start)
                              \/ /\ c.id # "api" /\ proc'[y].jobs = <<KeyJob(StartKey(p), c.start)>>
                                 /\ asSet'.config[PlanKey(p)] = c.id
                      /\ SettingPlanOf(p)' = {} =>
                           /\ asSet'.config[PlanKey(p)] = c.id
                           /\ c.id # "api" => asSet'.config[StartKey(p)] = c.start
    BY DEF ChosenInv
  <2>3. x \notin SettingPlanOf(p) /\ c \in chosen[p]
    BY <1>2
  <2>4. \A y : y \in SettingPlanOf(p)' <=> y \in SettingPlanOf(p)
    BY <2>1, <2>2, <2>3, SettersAre
  <2>5. SettingPlanOf(p)' = SettingPlanOf(p)
    BY <2>4
  <2>6. \A y \in SettingPlanOf(p) : proc'[y].jobs = proc[y].jobs
    BY <2>1, <2>3 DEF SettingPlanOf
  <2> QED BY <1>2, <2>3, <2>5, <2>6, ChosenStays DEF SettingsInv
<1> QED BY <1>1, <1>3, <1>4 DEF SettingsInv

LEMMA InitHolds ==
  ASSUME Init
  PROVE  SettingsInv
<1>1. PICK c \in ConfigFiles, r \in RepoFiles : disk = [config |-> c, repo |-> r]
  BY DEF Init
<1>2. disk.config = c /\ disk.repo = r
  BY <1>1
<1>3. IsLines(c) /\ IsLines(r) /\ Clean(c) /\ Tidy(r)
  BY FilesAssumption DEF IsLines, Clean, Tidy
<1>4. \A x \in Process : proc[x].pc = "idle" /\ proc[x].jobs = <<>> /\ proc[x].lines = <<>>
  BY DEF Init, Resting
<1>5. \A f : Busy(f) = {} /\ Writing(f) = {}
  BY <1>4 DEF Busy, Writing
<1>6. /\ asSet = [ config |-> Parsed(c), repo |-> [k \in Others |-> Lookup(r, k)],
                   trailers |-> LoadTrailers(r) ]
      /\ sets = 0 /\ last = {} /\ chosen = [p \in Owner |-> {}]
      /\ picker = [x \in Explorers |-> Closed]
  BY <1>2 DEF Init
<1>7. /\ asSet.config = Parsed(c) /\ asSet.repo = [k \in Others |-> Lookup(r, k)]
      /\ asSet.trailers = LoadTrailers(r)
      /\ asSet = [config |-> asSet.config, repo |-> asSet.repo, trailers |-> asSet.trailers]
  BY <1>6
<1>8. FilesTyped
  <2>1. Parsed(c) = [k \in Keys |-> Parsed(c)[k]]
    BY DEF Parsed
  <2>2. disk = [config |-> disk.config, repo |-> disk.repo]
    BY <1>1, <1>2
  <2> QED BY <1>2, <1>3, <1>6, <1>7, <2>1, <2>2 DEF FilesTyped
<1>9. ProcTyped
  BY <1>4, EmptyIsLines DEF ProcTyped, Init, Resting
<1>10. OneWrites /\ OneCopies
  BY <1>5 DEF OneWrites, OneCopies
<1>11. ConfigWhole /\ ConfigAsSet
  BY <1>2, <1>3, <1>5, <1>6, <1>7 DEF ConfigWhole, ConfigAsSet
<1>12. RepoWhole /\ RepoAsSet
  BY <1>2, <1>3, <1>5, <1>7 DEF RepoWhole, RepoAsSet, SaysRepo
<1>13. PickersTyped
  BY <1>6, ClosedIsOK DEF PickersTyped
<1>14. ChosenInv
  BY <1>6 DEF ChosenInv
<1> QED BY <1>8, <1>9, <1>10, <1>11, <1>12, <1>13, <1>14 DEF FilesInv, SettingsInv

LEMMA StepHolds ==
  ASSUME SettingsInv, [Next]_vars
  PROVE  SettingsInv'
<1>1. ASSUME NEW x \in Explorers,
             \/ OpenPicker(x) \/ MoveProvider(x) \/ ChooseProvider(x)
             \/ MovePlan(x) \/ ChoosePlan(x) \/ MoveDate(x) \/ Back(x) \/ Cancel(x)
      PROVE  SettingsInv'
  BY <1>1, PickerKeeps
<1>2. ASSUME NEW x \in Explorers, Confirm(x) PROVE SettingsInv'
  BY <1>2, ConfirmKeeps
<1>3. ASSUME NEW x \in Explorers, SetTrailers(x) PROVE SettingsInv'
  <2>1. PICK t \in TrailerSettings : Begin(x, <<TrailersJob(t)>>)
    BY <1>3 DEF SetTrailers
  <2>2. UNCHANGED <<picker, chosen>>
    BY <1>3 DEF SetTrailers
  <2>3. TrailersJob(t) \in AnyJob /\ \A p : ~IsOfPlan(TrailersJob(t), p)
    BY OfPlan DEF AnyJob
  <2> QED BY <2>1, <2>2, <2>3, OtherSetKeeps DEF Process
<1>4. ASSUME NEW x \in Process, SetBudget(x) PROVE SettingsInv'
  <2>1. PICK c \in Ceilings : Begin(x, <<KeyJob(BudgetKey, c)>>)
    BY <1>4 DEF SetBudget
  <2>2. UNCHANGED <<picker, chosen>>
    BY <1>4 DEF SetBudget
  <2>3. KeyJob(BudgetKey, c) \in AnyJob /\ \A p : ~IsOfPlan(KeyJob(BudgetKey, c), p)
    BY OfPlan DEF AnyJob, KeyJobs, Keys, Value
  <2> QED BY <2>1, <2>2, <2>3, OtherSetKeeps
<1>5. ASSUME NEW x \in Process, Read(x) \/ Truncate(x) PROVE SettingsInv'
  BY <1>5, ReadAndTruncateKeep
<1>6. ASSUME NEW x \in Process, Write(x) PROVE SettingsInv'
  BY <1>6, WriteKeeps
<1>7. ASSUME NEW x \in Process, GiveUp(x) PROVE SettingsInv'
  BY <1>7, GiveUpKeeps
<1>8. CASE UNCHANGED vars
  <2>1. FilesInv'
    BY <1>8, FilesUntouched DEF vars, SettingsInv, FilesInv, FilesTyped
  <2>2. PickersTyped'
    BY <1>8 DEF vars, SettingsInv, PickersTyped
  <2>3. \A p : SettingPlanOf(p)' = SettingPlanOf(p)
    BY <1>8 DEF vars, SettingPlanOf
  <2>4. ChosenInv'
    BY <1>8, <2>3 DEF vars, SettingsInv, ChosenInv
  <2> QED BY <2>1, <2>2, <2>4 DEF SettingsInv
<1> QED BY <1>1, <1>2, <1>3, <1>4, <1>5, <1>6, <1>7, <1>8 DEF Next

LEMMA SettingsInvariant == Spec => []SettingsInv
BY InitHolds, StepHolds, PTL DEF Spec

\* As long as the sets of config.toml do not overlap and none dies writing, what a
\* launch loads from it is what was last set or what was there at first, however many
\* processes set however many keys.  (internal/config/config.go:315, setConfigKey;
\* parseTOML; LoadPlanSet)
THEOREM SettingsStayAsSet == Spec => []SettingsAreAsSet
<1>1. SettingsInv => SettingsAreAsSet
  BY DEF SettingsInv, FilesInv, ConfigWhole, ConfigAsSet, Clean, SettingsAreAsSet, Settled
<1> QED BY <1>1, SettingsInvariant, PTL

\* Of two sets from copies of the same file one may undo the other, but the last has
\* its value.  (internal/config/config.go:315, setConfigKey)
THEOREM TheLastSetSticks == Spec => []LastSetSticks
<1>1. SettingsInv => LastSetSticks
  BY DEF SettingsInv, FilesInv, ConfigWhole, LastSetSticks, Settled
<1> QED BY <1>1, SettingsInvariant, PTL

\* What a plan, its fee and its start come to once they are those of a choice.
LEMMA ChoiceIsPlan ==
  ASSUME NEW m, NEW p \in Owner, NEW c \in [id : Range(Plans), start : Dates],
         m[PlanKey(p)] = c.id, m[FeeKey(p)] = NoValue,
         c.id # "api" => m[StartKey(p)] = c.start
  PROVE  LET plan == PlanFor(m, p)
         IN IF c.id = "api" THEN plan.kind = "api" /\ plan.fee = 0
            ELSE /\ plan.kind = "subscription" /\ plan.name = c.id /\ plan.fee = Fee[c.id]
                 /\ plan.start = c.start
<1>1. PlanFor(m, p) = ResolvePlan(c.id, NoValue, m[StartKey(p)])
  BY SettingsAssumption DEF PlanFor, PlanOf
<1>2. CASE c.id = "api"
  <2>1. ResolvePlan(c.id, NoValue, m[StartKey(p)]) =
           [name |-> c.id, fee |-> 0, start |-> m[StartKey(p)], kind |-> "api"]
    BY <1>2, SettingsAssumption DEF ResolvePlan
  <2> QED BY <1>1, <1>2, <2>1
<1>3. CASE c.id # "api"
  <2>1. c.id \in DOMAIN Fee /\ Fee[c.id] \in Nat \ {0}
    BY <1>3, SettingsAssumption
  <2>2. ResolvePlan(c.id, NoValue, m[StartKey(p)]) =
           [name |-> c.id, fee |-> Fee[c.id], start |-> c.start, kind |-> "subscription"]
    BY <1>3, <2>1 DEF ResolvePlan
  <2> QED BY <1>1, <1>3, <2>2
<1> QED BY <1>2, <1>3

\* Whatever the order of the keys' writes, of other sets and of a kill, a plan whose
\* set went through is billed as the picker showed it.
\* (internal/config/config.go:291, SetProviderPlan; resolvePlan)
THEOREM PlansAreAsChosen == Spec => []PlanIsAsChosen
<1>1. SettingsInv => PlanIsAsChosen
  <2> SUFFICES ASSUME SettingsInv, Settled("config"), "config" \notin stale,
                      NEW p \in Owner, NEW c \in chosen[p], SettingPlanOf(p) = {},
                      Lookup(disk.config, FeeKey(p)) = NoValue
               PROVE  LET plan == PlanFor(Parsed(disk.config), p)
                      IN IF c.id = "api" THEN plan.kind = "api" /\ plan.fee = 0
                         ELSE /\ plan.kind = "subscription" /\ plan.name = c.id
                              /\ plan.fee = Fee[c.id] /\ plan.start = c.start
    BY DEF PlanIsAsChosen
  <2>1. PICK m : m = Parsed(disk.config)
    OBVIOUS
  <2>2. m = asSet.config /\ ~Unreadable(disk.config)
    BY <2>1 DEF SettingsInv, FilesInv, ConfigWhole, ConfigAsSet, Clean, Settled
  <2>3. m[PlanKey(p)] = c.id /\ (c.id # "api" => m[StartKey(p)] = c.start)
    BY <2>2 DEF SettingsInv, ChosenInv
  <2>4. m[FeeKey(p)] = NoValue
    BY <2>1, <2>2, OwnersKeys DEF Parsed
  <2>5. c \in [id : Range(Plans), start : Dates]
    BY DEF SettingsInv, PickersTyped
  <2> QED BY <2>1, <2>3, <2>4, <2>5, ChoiceIsPlan
<1> QED BY <1>1, SettingsInvariant, PTL

\* The trailers saved last are those the next commit reads, wherever in the file their
\* sections were, and the repository's other settings are what they were.
\* (internal/config/trailers.go:71, SetTrailers; LoadTrailers)
THEOREM TrailersStayAsSaved == Spec => []TrailersAreAsSaved
<1>1. SettingsInv => TrailersAreAsSaved
  BY DEF SettingsInv, FilesInv, RepoAsSet, SaysRepo, TrailersAreAsSaved, Settled
<1> QED BY <1>1, SettingsInvariant, PTL

=============================================================================
