# aispend in TLA+

TLA+ modules for the parts of aispend whose correctness depends on the order in
which things happen: git hooks that meet aborted commits and rebases, processes
that share one ledger file, a terminal explorer that reloads in the background,
log lines that are read in any order and priced by whichever table is in force,
surfaces that must tell one story about one ledger, a menu bar whose refreshes
overlap, settings files that several processes rewrite.
TLC checks each module on a small instance, TLAPS proves the properties that
matter most for every value of the constants. `src/...` below is the program's
repository; `PROJECT.json` maps every definition to the lines it stands for.

Contents: [the system](#the-system), [modules](#modules),
[runs](#runs), [theorems](#theorems), [divergences](#divergences-found),
[what is not modelled](#what-is-not-modelled), [plan](#plan).

To check: `tlc -config MCTrailer.cfg MCTrailer` for a run (the table of runs
names module and configuration), `tlapm TrailerProofs.tla` for the proofs.

## The system

aispend reads the session logs of Claude Code and Codex, turns each response
into a row of a local ledger with its API-equivalent cost, and reports it:
on the command line, in a terminal explorer, in a menu bar, and as a trailer on
git commits. It is one binary; what runs concurrently are *processes* (a daemon,
commands, git hooks, an explorer) over shared files, and in the explorer
goroutines around one update loop.

| Part | State | Operations | Meets |
|---|---|---|---|
| Commit trailers (`trailer`, `cli/cli.go`) | watermark per branch in `.git/aispend-trailer`, one staged mark in `.git/aispend-trailer.pending` | prepare-commit-msg: scan, select usage after the watermark, stage a mark, add the trailer. post-commit: promote the staged mark | git (abort, amend, rebase, am, checkout), the ledger |
| Hook installation (`githook`) | hook files, `core.hooksPath` | install, uninstall, status | users, hook managers, worktrees |
| Scan (`scan`, `provider`) | checkpoint per provider, in the ledger file | read logs after the checkpoint, upsert, move the checkpoint; full scan; re-price | every other process that writes the ledger |
| Sync lock (`cli/synclock.go`) | `sync.lock` and its mtime | acquire with a TTL, release | daemon, `daemon --once`, `sync` |
| Ledger file (`store`) | `events.json`, `events.json.tmp`, a copy per process | open (read whole), persist (temp file, rename) | all processes |
| Normalization (`normalize`, `event`) | the Codex model carried from line to line | line to row, keep-max dedupe of streamed lines | scan, pricing |
| Pricing (`pricing`, `pricing/refresh`) | the fetched table and its age | look up, fetch, re-price the ledger; micro-dollar arithmetic, proration, allocation | scan, reports |
| Explorer (`tui`, `cli/tui.go`) | the model of the update loop, reload goroutines | keys, watch tick, reload results, plan picker, trailers editor | ledger, config files |
| Plan-limit gauges (`quota`, `quotaonline`, `cli/quota_online.go`) | last good answer and time of the last fetch, per provider | throttled fetch, fall-back to snapshot and rollouts, newest sample per window, forecast | network, logs, menu bar |
| Menu bar (`menubar`, `webui`, `cmd/aispend-bar`) | title and page on screen | refresh on a timer or a click | gauges, ledger |
| Budget (`budget`), reports (`cli`, `lines`, `chain`) | none | period, filter, group, sum, prorate, allocate, render | ledger, plans, rate table |
| Settings (`config`, `tui/plan_picker.go`) | `config.toml`, `.aispend.toml` | set a key, set a plan, replace the trailers' sections, read at launch | all of the above |
| platform, vcs, termtext | none | paths, git queries, text width | all of the above |

What is hard, and what makes each part correct:

* **Trailers.** Two hooks of one commit communicate through a file that outlives
  the commit. Nothing tells post-commit whether the mark it finds belongs to the
  commit it runs for, and the hooks are fail-open: one that dies between or inside its
  writes stops no commit. Correct means: a turn is charged to one commit, none is
  silently skipped, a watermark moves forward only, and what the failures cost is known.
* **Scan and ledger.** Opening reads the whole file, persisting replaces it, and
  only daemon and `sync` take the lock: any two other writers may overwrite each
  other. Correct means: what was lost is read again (the checkpoint is *honest*),
  a full scan holds what it promises, the file is one whole document wherever one
  process wrote it, and a writer that had the store to itself loses nothing.
* **Lock.** Stat, remove and create are separate system calls, a holder may die,
  hang or outlive the TTL, and failure to create the file lets the sync run
  anyway. Correct means: exclusion while the TTL is not exceeded, and recovery.
* **Explorer.** Timers and results land in every mode and every order; one flag
  is the only guard. Correct means: exactly one cadence, a guard that is never
  stuck, indices that stay in range, a screen that catches up.
* **Ingest.** Several lines describe one response, the same lines appear in
  several files, one scan sees a subset of them, and the table changes between
  scans. Correct means: true token totals, one price list, the right model.
* **Money.** Micro-unit sums in 64 bits, a fee that is prorated by day and handed
  out by largest remainder, a dozen surfaces that filter and sum the same turns
  each in its own way. Correct means: prices are exact, nothing is lost or counted
  twice in a breakdown, a fee is handed out once, and surfaces agree.
* **Gauges and menu bar.** Refreshes overlap; a fetch takes place outside the lock
  of the cache; local readings come from files in an order that is not theirs.
  Correct means: the newest reading is shown, a failed fetch blanks nothing that
  is still valid, the two halves of the bar agree in the end.
* **Settings.** Read, truncate and write are three steps and nobody takes a lock.
  Correct means: a set changes its key and no other, sticks, and is read back.
* **Hooks.** Other programs own the directory. Correct means: nobody else's hook
  is touched, a refusal changes nothing, an installed hook fires.

## Modules

Each component has a module with its constants, variables, one action per
operation, the specification and the properties; an `MC` module that gives the
constants small values; and, where something is proved, a `...Proofs` module.
Operators marked *Mutant* are plausible bugs kept beside the operator they
change: each property is known to fail when its mutant takes the operator's
place. SharedFilesProofs and DisplayProofs extend two components each, which is why
`LockInit`, `LockNext` and `LockSpec` of SyncLock and `BarInit`, `BarNext` and `BarSpec`
of MenuBar have names of their own.

```
Trailer      <- MCTrailer,   TrailerProofs      git hooks and watermarks
GitHook      <- MCGitHook,   GitHookProofs      installing those hooks
Scan         <- MCScan,      ScanProofs         processes over one ledger, writes atomic
SyncLock     <- MCSyncLock,  SharedFilesProofs  who may scan
FileStore    <- MCFileStore, FileStoreProofs    one write, down to temp file and rename
  AtomicLedger                                  what FileStore implements
Ingest       <- MCIngest,    IngestProofs       lines to rows to prices, one scan atomic
Tui          <- MCTui,       DisplayProofs      the explorer's loop and its reloads
Calendar <- Pricing <- Report <- MCReport, ReportProofs
                                                periods; micro-unit arithmetic; what
                                                the surfaces say about a ledger
Quota <- MenuBar <- MCMenuBar, DisplayProofs    readings, tracker, forecast; the cache,
                                                overlapping refreshes and the bar
Settings     <- MCSettings,  SharedFilesProofs  the settings files and who rewrites them
```

Scan, SyncLock and FileStore are three cuts through the same story. Scan takes a write
for one step; FileStore says how far that is right without any lock (it implements
AtomicLedger, in which only writers that overlap overwrite each other or spoil a file
both had open); SyncLock says when the lock excludes. Ingest takes a scan for one step,
which Scan refines.

### Trailer

`internal/trailer` with `trailerUsage`/`pendingUsage` of `cli/cli.go`, in one
checkout. A turn is an element of `Event` with a timestamp, a branch (or none) and a
provider in its log line; it moves from `logged` to `ledger` to `priced`. The branch
its row names, `tag`, is the line's, except for a turn logged on a detached HEAD: each
scan that reads its line, the hook's own included, gives it the branch HEAD names by
then (`Resolved`, from `EnrichVCS`), and a log that grew is read whole again
(`Reread`). `marks` and
`pending` are the two files, `head`/`rebasing`/`am` what the hooks ask git.
`BeginCommit` is prepare-commit-msg (scan included: `Import`), `CancelCommit` an
abort, `Land` the commit, `Consume` post-commit.

The hook writes the message and then stages the mark, two writes that can each fail or
be cut short while git goes on. `LeavesMessage` stands for no usage and for a message
whose write failed, `StampAndStage` for both writes, `StageLost` for a message that is
stamped and a mark that is not staged, so that an older pending entry stays, and
`StageTorn` for a pending file cut short: an empty line (`Torn`, which post-commit
removes, `DiscardTorn`) or one that lost digits and reads as an earlier time.
`ConsumeLost` is a post-commit that never ran, `ConsumeTorn` a crash inside
`writeMarks`, which truncates the file in place. A watermark file that exists is taken
to be readable. `editmsg` keeps the message of an aborted attempt, which the next one may
start from. Which turns a message carries stands for its text.

History variables are read by no guard: `stamped` is what each branch has in a commit,
`settled` the part whose post-commit moved the watermark and whose mark was not torn
since, `counted` what the staged mark was computed from, `abandoned` what an attempt
counted and did not stamp, `unstaged` tells of the message under way (or aborted last)
that its hook stamped it and did not finish staging. Left out: several repositories in
one ledger, and the provider, model and token detail of a trailer line.

### GitHook

`internal/githook`. A hook file is `none`, `ours` (has the marker), `foreign`,
`wired` (foreign, and calls aispend) or `cut` (left empty by a write that
stopped), with an executable bit; there are three directories: the clone's, the
one `resolve` computes in a linked worktree, and the one `core.hooksPath` names.
Reading, writing, chmod and removing are steps of their own, so that others may
act in between. A read that fails counts as *no hook* and the command goes on, as
`readFile` has it: in the pre-scan and in a removal (`Reads`), in a status or a managed
directory (`unread`), and for `core.hooksPath`, which counts as unset (`set`); a write,
chmod or removal that fails ends the command. `theirs` follows the hooks of
other people, found or placed while the command runs; `Doomed` is a file the command has
decided to write or remove. `Status` only reads and is one step. A manager's own
configuration file is modelled as the hook it installs; a relative
`core.hooksPath`, which differs between worktrees, as an absolute one.

### Scan

`scan.Run`, `incrementalScan`, `cmdScan`, `repriceStored`, `daemonLoop`. A log
only grows and is read whole, so what the ledger holds of a log is a number of
lines. A process opens the store (`Start`: `mem[p]` becomes the file), then for
each provider `Read`s the logs whose mtime is after the checkpoint *in its own
copy*, `Upsert`s (file becomes its copy) and `Mark`s (file becomes its copy with
the checkpoint at the present time). Each of the three can fail, and the process
can crash between them. `blind` collects the logs last written between a read and
the checkpoint that follows it, or in the same tick as a checkpoint; those are
exempt from the promises, since no code claims them.

### SyncLock

`acquireSyncLock`: `Stat`, `Steal` (remove the stale file), `Create` (O_EXCL),
`FailOpen`, and `Release`, which removes whatever file is there. Time is the age
of the lock file up to just past the TTL. A process that fails to create for any
reason but *exists* works without the lock.

### FileStore and AtomicLedger

`OpenFileStore` and `persist`. Directory entries and files are kept apart,
because a process writes through the file it opened whatever name that has by
then. A snapshot's document is a sequence of blocks; `Create` truncates the temp
file, `Write` overlays from offset 0, `ShortWrite` stops part-way, `Rename` moves
the name. Nobody takes a lock: any two processes may overlap anywhere, as scan, launch
scans, the trailer hook and the explorer do. Two history variables say what that costs:
`contested` has the files two processes had open at once or one renamed in place of
another's, until they are truncated afresh, and `crowded` the writers that were not
alone since they opened the store. AtomicLedger is the promise: read whole, replaced
whole, a writer that was alone loses no row, and only one that was not may overwrite
rows or garble the file.

### Ingest

`normalize`, `Dedupe`, `Pipeline`, `repriceStored`, the 24-hour cache. A line of a
transcript is a message and a token total; a row is keyed on the message and, within a
scan, the largest total wins, while across scans the last write wins. A rollout is a
sequence of model lines and usage lines; `CodexState` is the normalizer's state and
forgets the model at a new file. Each table fetched replaces the one before with the
models it lists itself (`Live[t]`), laid over the embedded table. `Refresh` stores a
table and re-prices, `RefreshCut` stores it only, `Expire` makes it older than a day.
`Resume` starts a transcript as a copy of another.

Left out: SHA and project attribution (branch: Trailer), churn, token classes, the reported
cost of a log line, and the key of lines without a message id.

### Tui

`Model.Update` with the callbacks of `cmdTui`. `job[s]` is a reload goroutine and its
stages: scan, read the plan, read the store, done; `ReloadDone` and `SyncDone` deliver
its result to the loop. `ticks` counts armed timers and undelivered ticks. A period is
its number of sessions and whether a plan covers it. A drill-down is one mode; a
reload's scan brings the store to the logs in one step (an explorer that is told not to
scan, lines a scan misses and other processes' overwrites are left to Scan); the plan
picker's own keys are in Settings; the reported lens, the clock heartbeat, the budget
editor, the commits view and rendering are left out.

### Calendar, Pricing, Report

Calendar has `period.go` and the month arithmetic of billing over an abstract year:
a list of month lengths, days of a few instants, an origin. Pricing has
`pricing.go` in an integer width `MaxInt64` that is a constant: Go's wrapping `+`
(`Wrap`) and truncating `/` (`Quot`), `Micros` and `AddSat` that saturate,
`SplitCacheWrite` (`OneHour`), `Components`, `ProratedFee`, `AmortizeSubscription`,
`Allocate`. A small width brings the ends of the range within TLC's reach; the
theorem is for any.

Report's state is a ledger, the clock, the plans and the rate table; its actions record
a turn, re-price, set a plan, let time pass. The surfaces change nothing, so they are
operators over a state: `AggregateReport` in every grouping and view, `RenderAllocated`,
`attachComponents`, `today` with its hours and headline, the provider cards, the trend,
the budget's pace, the explorer's rows and the subtotals of days. Time zones differ by
`Zone` where the code mixes UTC and local days. Sums over a report and the products of
`Allocate` (`pricing/pricing.go:387`) are unbounded; the code's wrap where a sum, or a
fee times a basis, passes 2^63. Left out: `top`, `chain`, churn, layout.

### Quota and MenuBar

Quota: what a JSON line, a snapshot or an answer becomes (`ParseCodex...`,
`ParseClaude...`), `Tracker.Observe`, `Active`, `Project`, `Classify`. A percentage
out of range is among the inputs, since Claude reports sentinels. Time is in whole
units; the code rounds a forecast's time to a second of a present that has fractions
(`lines/lines.go:106`), so it may pass the reset by less than half a second. A rollout
that cannot be read is skipped (`cli/today.go:349-352`); in the model all can be.

MenuBar: `doRefresh` is a goroutine that takes the time once, then per provider
looks into the cache under the mutex (`Serve`, or `Fetch` if a fetch is due), asks the
network outside it, remembers the time and any answer (`Answer`, `NoAnswer`,
`Remembered`), falls back to local files (`ReadLocal`), and sets title and
page in two steps. Agents append to rollouts and rewrite the snapshot, time passes.
`kept` remembers the providers whose last good reading had a live window when the
refresh asked: `Serve` judges at once, a fetch is judged where it begins (`standing`,
set by `Fetch`) and not where its answer is remembered, so that what other refreshes
remember in between counts. `Overtakes` is the one thing that ends it: an answer to
a refresh of an earlier instant, come late, whose windows are over by the
later refresh's. What a server answers has no window that is over when it answers (`Ahead`).

### Settings

A file is a sequence of lines: a section's header, an entry, a note, something
torn. `SetKey`, `DropSections`, `WithTrailers`, `Lookup` and `LookupIn` are
`setConfigKey`, `dropSections`, `SetTrailers`, `parseTOML` and `sectionedTOML` line
by line: a set replaces the *first* line of its key, a reader takes the *last*.
A set is `Read` (with the change made to the copy), `Truncate` (`os.WriteFile`
opens with `O_TRUNC`), `Write`; `GiveUp` is a failed write or a killed process in
any of them. `PlanJobs` are the two sets of `SetProviderPlan`. The plan picker is
modelled key by key, since it decides what the sets are given. `asSet` remembers
what the settings would be had each set been one step; `stale` and `mixed` name the
files where sets overlapped. `chosen` is the plan last confirmed for a provider; two
explorers that confirm plans of one provider at the same time may each win one of
the two keys, so a plan does not count as chosen when another set of it is under
way, nor when its own stops half-way. `FilesAssumption` says what the files may hold
when the program meets them: they parse, `config.toml` has no key twice (TOML forbids
it; see divergences for what the code does), and the repository's other keys are not
inside the trailers' sections, which a save replaces whole. Left out:
`scan_interval`, `currency`.

## Runs

Configurations set `CHECK_DEADLOCK FALSE` where the system may rest: users may stop
committing, agents may fall silent, bounds are used up. The menu bar's ticker never
stops, so that run checks for deadlock.

| Run | Instance | States | What it shows |
|---|---|---|---|
| `trailer` | 2 branches, 2 providers, 3 turns (two share a timestamp, one logged on a detached HEAD, one without a rate at first), 3 commits | 1,091,040 | no branch charges a turn twice, or skips it, but for the named causes, also when rows change branch and hooks stop half-way; a mark that was staged covers its message; watermarks go forward |
| `trailer_cancel` | as above, 2 commits | violated | usage of an aborted commit is skipped |
| `scan` | daemon and one command (scan, full or re-price), 2 logs of 1 line, 2 providers, 2 ticks, 1 fault | 618,918 | checkpoints are honest; a full scan covers; the ledger catches up |
| `synclock` | daemon and two syncs, TTL 1, overruns allowed, 2 runs each, 2 faults | 18,152 | exclusion while no lock is older than the TTL; the daemon always scans again |
| `filestore` | two writers and a reader without a lock, 2 rows and 3 files (each symmetric), 2 faults | 1,196,347 | the file is whole unless two processes shared it; refinement of AtomicLedger: a writer alone loses nothing |
| `githook` | clone and worktree, 3 changes by others, 1 fault | 1,826,090 | other people's hooks are spared, but for a failed read and a late arrival; refusal is atomic; installed means it fires; uninstalled means silent |
| `tui` | 2 windows of at most 2 sessions, 3 goroutines, 1 switch, 2 changes, 1 fault | 330,280 | one cadence, a guard that never sticks, settled single flight, coherent list, convergence |
| `ingest` | 2 responses, 2 transcripts (symmetric), 2 rollouts, totals up to 2, 4 lines, 2 tables that list different models | 539,344 | true totals, one price list, right Codex model, a price lasts as long as its table |
| `report` | 2 turns of 4 kinds, 2 tables, 2 plans, 4 instants, amounts up to 127 | 12,132 | breakdowns add up, prices are exact, a fee is handed out once, windows meet, surfaces agree |
| `month_fee` | the same, a plan that bills on the first | violated | a month that is a billing cycle bills a day less than the fee |
| `menubar` | ticker and a click, both providers, 2 instants, 1 local write | 595,478 | newest readings, no valid gauge blanked, sound forecasts, title and page agree again and again |
| `settings` | an explorer and a command, 3 sets, 2 providers, 3 plans, 2 dates, 2 trailer settings | 1,568,652 | what is set is what is read, and until when |

The type invariants of SyncLock, FileStore, Tui, GitHook, Ingest, MenuBar and Settings
(`LockTypeOK` in SyncLock, `BarTypeOK` in MenuBar) are defined but not among the runs'
properties; those of Tui, GitHook, FileStore, SyncLock and MenuBar are part of, or
weaker than, their inductive invariants.

**Why the bounds are enough.** Each property concerns at most two actors and one
thing they disagree on, and each bound leaves room for that and one more.
Trailer: an aborted attempt, one that stages nothing and one that lands need
three commits, as do an attempt that stages, one that is stamped and does not, and
one that charges again; two branches suffice for a mark to land on the wrong one and for
a row to change branch after it was charged. A hook may stop at each of its writes, in
every commit.
Scan: a stale writer, a second one and a log written before, between or after
their checkpoints need two processes and two ticks; the second provider is there
because a failure in the first leaves its rows in the copy the second persists.
SyncLock: three processes, so that a stealer can be stolen from. FileStore: two
writers suffice for every overlap, three files since at one moment there are the store,
the temp file and the renamed one somebody still writes to, and two rows, so that
documents of three lengths overlay. Files and rows are symmetric: both properties
speak of all of them alike, and neither is about liveness.
GitHook: two hooks, and changes before, between and after the look and the write.
Tui: the guard never lets a third reload start, and the third goroutine is there
to show it. Ingest: two lines of a message in two files, the second scan after the
first; two tables, so that a row may carry the price of an older one, and the second
lacks a model the first lists.
Report: two turns suffice to fall on two sides of any boundary, share or not share
each field, and compete for a remainder; the kinds include a model without a rate,
a turn over three files, and a log line whose counts overflow and are negative. Months
of 1 to 3 days make every clamp and every short cycle happen within two years.
MenuBar: a race needs two refreshes; two instants suffice for a window to end, a fetch
to become due and an older answer to land last; one of the answers has a window that
is over at the second instant. Settings: one set may overlap another
and a third follow; one file holds hand-written lines in an unusual order. The proofs
cover all bounds for the properties listed below.

**Fairness.** Specifications with liveness assume:
* Scan's `DaemonFairness`: the daemon's cycles start and their steps are taken.
  `daemonLoop` waits on a timer, runs each cycle to its end in the same goroutine
  and has no other exit than a signal. Nothing is assumed of other processes; they
  may stop half-way for ever. Crashes of the daemon are bounded by `MaxFaults`
  and it is assumed to be started again, by the user or the scheduler that
  `daemon.go:20` leaves this to.
* SyncLock: time passes, and the daemon's attempts and steps are taken. A hung
  holder may hang for ever.
* MenuBar: the ticker's refreshes begin again and the steps of a refresh are taken:
  goroutines are scheduled and a fetch has a time limit. `Scheduled` states weak
  fairness of a refresh's steps with their enabling condition written out, which
  TLC evaluates much faster. Clicks are never assumed.
* Tui: a timer fires and is delivered, a reload goroutine comes to its end. Keys
  are never assumed.

## Theorems

All for every value of the constants that satisfies the modules' assumptions.

| Module | Theorem | Property |
|---|---|---|
| TrailerProofs | TypeCorrect, ChargedAtMostOnce, MessageCovered, NothingSkippedSilently, WatermarksForward | TypeOK, AtMostOnce, StagedCoversMessage, NoSilentSkip, WatermarkForward |
| GitHookProofs | OthersAreSpared, RefusalsAreAtomic, InstalledHooksFire, UninstallIsComplete | SparesOthers, RefusalIsAtomic, InstallFires, UninstallSilences |
| ScanProofs | ScanTypeCorrect, CheckpointsHonest, FullScanKeepsItsPromise | TypeOK, HonestCheckpoint, FullScanCovers |
| SharedFilesProofs | LockExcludes | ExclusiveWhileFresh, with LockTypeOK |
| SharedFilesProofs | SettingsStayAsSet, TheLastSetSticks, PlansAreAsChosen, TrailersStayAsSaved | SettingsAreAsSet, LastSetSticks, PlanIsAsChosen, TrailersAreAsSaved |
| FileStoreProofs | StoreStaysWhole, StoreRefinesLedger | AlwaysWhole, RefinesLedger, with no lock |
| IngestProofs | TrueSizeCounted, RowsShareOnePriceList, CodexModelsAreTheFilesOwn, PricesAreKept | WholeCopiesCountedAtTrueSize, OnePriceList, CodexModelIsItsOwn, PriceLastsWithItsTable |
| ReportProofs | ReportTypeCorrect, PricesAreExact, ReportsAddUp, FeesHandedOutOnce, SurfacesTellOneStory, WindowsThatMeet | TypeOK, PriceIsExactWhenItFits, RowsAddUp, FeeHandedOutOnce, SurfacesAgree, AdjacentWindowsAddUp |
| DisplayProofs | GaugesStayTheLatest, GaugesStayUp, ForecastsAreSound | GaugesAreTheLatest, NoGaugeIsBlanked, ForecastIsSound |
| DisplayProofs | CadenceHasOneOwner, GuardNeverSticks, FlightsSettle, ListStaysCoherent | OneCadence, GuardMeansReload, SingleFlightOnceSettled, ListIsCoherent |

The inductive invariants, called `IInv` where no other name is given, and why they are
needed:

* **Trailer.** That no message carries a settled turn is not inductive: the message may
  have been written before, and restored. So every turn of the message being edited, and
  of the aborted one, is after the watermark of its branch and not after the staged
  mark, which is for the same branch (`Open`), while what is settled is behind its
  watermark (`Charged`); of a message whose hook did not finish staging, which the
  history marks `unstaged`, nothing is said of the mark. A row that changes branch does
  not disturb `Open`, because it changes to HEAD's, and a message lives no longer than
  HEAD stays (`ImportKeepsHead`). `NoSilentSkip` needs to know where the turns counted
  by the staged mark are: in a commit, abandoned, or in the message (`Accounted`).
  Assumptions: times and tags are well typed, any usage has a latest turn, the sentinels
  are no values.
* **GitHook.** Whose a hook is when it is written follows from what was seen before:
  no file the command has decided on is among those known to be somebody else's
  (`LookedFirst`), through the look at one hook, the loop over both and what others do
  meanwhile. That an undisturbed command is in the
  directory git uses, and has completed the first hook, carries `InstallFires`
  and `UninstallSilences` through the loops.
* **Scan.** Honesty of the file alone is not inductive: a process writes its own
  copy over it. So every live copy must be honest, and so must the copy a process is
  about to write with a later checkpoint: a run that has read but not marked
  holds all that was in reach of its read. For full scans the copies must also
  hold what the process has read so far.
* **SyncLock** (`LockInv`). Whoever is about to remove a lock has seen one past the TTL.
* **Settings** (`SettingsInv`). The properties speak of a file that nobody is writing;
  what it will hold then is in the memory of a process before. As long as no write cut
  into another's or was cut short (`mixed`), one process writes a file at a time and
  the file is empty meanwhile (`OneWrites`); as long as no copy was overtaken (`stale`),
  one process has a copy at a time, and it is the file with its key set (`OneCopies`).
  Every copy parses, has no key twice and has the key that is being set
  (`ConfigWhole`), which is all that `LastSetSticks` needs; the copy about to be written
  is what the settings would be (`ConfigAsSet`, `RepoAsSet`). A plan that counts as
  chosen has one process at most at its set, which has done none, one or both of
  its two writes (`ChosenInv`). Under this lie two facts about text. That a set of a
  key replaces the first line and a reader takes the last: the same line, if no key is
  there twice, and no other key's (`KeyIsSet`). And that sections dropped anywhere and
  written at the end read back as saved, and every line that stays is in the section
  it was in (`SectionsAreDropped`, `TrailersAreRead`): the kept lines are counted
  one by one (`Rank`), since they are what a filter leaves.
  Assumptions: `FilesAssumption` above, and sentinels that are no values.
* **FileStore.** A file that is not contested has one process that has it open, keeps the
  temp name until that process renames it, holds nothing from its truncation to its write
  and the whole document from then on (`OwnsFile`): so what is renamed to the store is
  whole, or contested. A writer that is not crowded is the only one at work and its file
  is not contested (`Alone`), and its copy includes the ledger it read
  (`CopyHoldsLedger`). There is no hypothesis on locks.
* **Ingest.** What the ledger holds of a message is the largest total among a set of
  files that includes every holder not changed since, which `ReadUpToNow` states
  for all agreeing copies; that a set of totals has a largest is proved from
  the well-foundedness of the naturals. For Codex (`RecordsInv`) a row is of a
  usage line and has the model shown there, and a price is of a table that was
  fetched and rates the model. The first rests on two folds, over the files of a scan
  and over their records: after any number of records the normalizer knows
  what the file of the last one has shown (`SeenRight`). It follows that a row read
  again keeps its model, without which `PriceLastsWithItsTable` would be false:
  another model could be one that the table does not rate. Rollouts only grow, so a
  record keeps its model (`WriteRolloutPreservesRecords`), and none outgrows the keys of the
  ledger (`RoomForALine`).
  Assumptions: finitely many files, and sentinels that are no values.
* **Report.** The invariant (`Typed`) is what a turn is: a moment that was, counts that
  are integers, a cost that is an int64 or none. What the properties say is then true
  of any set of such turns, and is a matter of arithmetic and of sums over sets:
  an exact cost that fits bounds each of its summands, so that no multiplication
  saturates and no addition wraps; a sum over turns is a sum over the groups
  they fall in, over the hours of a day, over the days of a window; a division's
  quotients and the remainders handed out one by one add up to the dividend; a month
  begins where the one before it ends. A sum of the library is the choice of a
  function, so that the first part proves that there is one and that it adds up as
  one expects, by induction over the subsets of a finite set in the form of a smallest
  counterexample (`SmallestSubset`).
  Assumptions: fields of a turn are integers, a turn names a file once
  (`normalize.go`), rates and fees are not negative, a plan starts at a midnight, and
  the calendar holds the year before every moment. The budget is compared with what was
  spent only where a limit is set, as `OverPace` does (`budget/budget.go:64`).
* **Tui.** Which goroutines are in flight, which of them re-arms the timer, and what
  guard and header say of them, in one conjunction (`Flights`).
* **MenuBar** (`BarInv`). A lookup asks the providers in their order, each once, so what
  it has seen is of providers asked before (`AsksInOrder`); readings of one provider
  never displace another's in the tracker (`TrackerJoined`), so a provider seen stays
  seen (`KeptAreSeen`), and a fetch asked for while the reading was valid finds it valid
  until it is overtaken (`StandingIsValid`). An answer's readings are all of one
  instant, so its last is kept (`AnswerIsShown`), while an empty answer leaves the
  reading it was judged by. That gauges are the latest needs no more than types, but it
  needs what the model's recursion over the rollouts amounts to: each rollout has a
  place of its own among the newest, and each place a rollout (`NewestIs`), and what is
  read up to a place is exactly what the rollouts up to there hold
  (`NewestRolloutsHold`). The forecast is integer arithmetic: a rounded-down projection
  reaches the limit just when the exact one does, and a time rounded to the nearest
  minute does not pass a reset on a whole one (`ProjectIsSound`). Assumptions: each
  provider is asked once, raw readings hold numbers or nothing, the rollouts found hold
  readings of Codex and none from the future.

What an induction over data needs is proved without the library's induction theorems,
which take an operator as a parameter: the counterexamples form a set, a set of
numbers has a least one (`LeastNumber`) and a set of finite sets a smallest
(`SmallestSet`), and the step contradicts it. Folds and sums, which the library defines by
the choice of a function on subsets, are thus followed element by element.

Model-checked only: liveness (`Converges`, `SelfHeals`, `ScreenConverges`), which
needs ENABLED and fairness, as does `BarAgrees`. Every other property of a passing run
is a theorem.

## Divergences found

Each is what the code does against what a line of the repository says. Two have a
run that TLC refutes:

* **A cancelled commit's usage can be lost** (`trailer_cancel`;
  `trailer/state.go:166` against `:18-20`). The aborted attempt leaves its staged
  mark; a later commit that stages nothing promotes it.
* **A full month bills a day less than the fee** (`month_fee`;
  `pricing/pricing.go:317` against `pricing/pricing_test.go:281`). A completed period
  ends at its last instant (`cli/period.go:143`) and `dayCount` truncates.

Three more are stated by a property in the module that no run checks; it takes one
line in a configuration to see the trace:

* **Overwritten rows may stay lost** (`LostRowsReimported` in Scan;
  `scan/scan.go:148` against `cli/daemon.go:25-29`). The overwriting process also
  writes a checkpoint past the log's mtime.
* **Hooks installed from a linked worktree never run** (`InstalledFires` in GitHook;
  `githook/githook.go:240` against `:4-5`, `:10-11`).
* **The trailers editor reopens on the settings of the launch** (`EditorStartsFromFile`
  in Tui; `tui/tui.go:890` against `:983`), and a second save writes them back.

Seen on the way and not given a property of their own, since a passing one already
states what does hold and names these as its exceptions:

* The store is not always replaced atomically, nor does a writer see what others wrote
  (`store/file_store.go:77` against `:24`, `:71`): all processes share one temp name, and
  scan, launch scans, the trailer hook and the explorer write without the lock, which for
  the others fails open. `AlwaysWhole` therefore excepts the files two processes shared,
  `RefinesLedger` the writers that were not alone.
* A commit that is stamped and not staged (the hook dies between `trailer/state.go:52` and
  `:60`, or cannot open the pending file) is charged again by the next, even when an
  older pending mark moves the watermark meanwhile. A pending line cut in its digits
  moves the watermark back. `AtMostOnce`, `StagedCoversMessage` and `WatermarkForward`
  name these causes.
* "We never overwrite a prepare-commit-msg / post-commit we didn't author"
  (`githook/githook.go:12-13`): a foreign hook whose
  read fails for any reason is taken for none (`:377-383`) and overwritten, and so is one
  placed after the pre-scan. A failed read of `core.hooksPath` counts as unset, and the
  hooks then installed never run. `SparesOthers` and `calm` name these.
* A turn read again under a newer table that does not list its model loses its price,
  which the re-pricing after the fetch had left; `PriceLastsWithItsTable` therefore speaks
  of the table in force.
* Two refreshes, the first of an earlier instant: its answer comes after the second asked,
  its windows are counted from its own instant and over by the second's, and it replaces a
  reading that was valid; the second's fetch fails and its gauge is gone, though
  `cli/quota_online.go:26-28` says a failed fetch "can't blank a gauge the menu bar just
  showed". `NoGaugeIsBlanked` names this as its one exception.
* A line written between the read of the logs and the checkpoint is skipped until its log
  grows (`scan/scan.go:148`); `blind` excepts it from what Scan promises.
* Two processes that find the same stale lock: the slower one removes the lock the
  faster has just created, though `cli/synclock.go:10-12` says "a live sync is never
  pre-empted". `ExclusiveWhileFresh` is therefore about runs in which no lock was
  past its TTL.
* `Init` starts a reload without raising the guard, so an early sync key starts a
  second writer, though `tui/tui.go:640-642` says "at most one reload is ever in
  flight". `SingleFlightOnceSettled` therefore starts at the first quiet moment.
* A copy of a transcript taken in the middle of a response and read alone in a later
  scan puts the placeholder total back in place of the final one
  (`README.md:640`). `WholeCopiesCountedAtTrueSize` therefore asks that copies agree.
* A refresh that stores its table and is stopped before the re-pricing is not
  repeated for a day. `OnePriceList` therefore excludes `halfway`.
* `wiringDetected` is satisfied by one of the two lines, so a manager that runs only
  one hook counts as wired (`README.md:527`). `Status` reports hooks that have lost
  their executable bit as installed. An installation cut short in `WriteFile` leaves
  an empty hook that every later installation takes for somebody else's. Hooks
  installed before `core.hooksPath` was set are out of `uninstall`'s sight and fire
  again when it is unset.
* A turn logged on a detached HEAD may be charged once on every branch its row is given,
  or on none, when it moves to a branch whose watermark is past it; `AtMostOnce`
  therefore counts by branch. A turn that names no branch is charged on each.
* Reports: `report --by file --view amortized` groups by model under a "by file" header;
  the explorer's all-time amortization needs a plan's start while the report prorates a
  flat month; the explorer hands a fee out among turns with a session, the report
  includes those without; a model no table rates any more keeps its cost in the rows
  and has no token classes (`RowsAddUp` therefore asks for rows of the table in force);
  today's headline is "not computable" by the table while its sum is the ledger's
  (`cli/today.go:197`); a doubled input rate can wrap (`PriceIsExactWhenItFits` asks
  that it fit).
* Gauges: two refreshes may both fetch (`cli/quota_online.go:30`), though `:18-23` says
  "at most this often per provider"; an older answer that lands last moves the cache
  back; an answer with some windows drops the others; "older rollouts can't be fresher"
  (`cli/today.go:355`) does not hold, so `GaugesAreTheLatest` speaks of a rollout and the
  newer ones; a clock set back stops fetching until it catches up; the weekly-sonnet
  window has no length and never a forecast.
* Menu bar: title and page of different refreshes until the next tick
  (`cmd/aispend-bar/main.go:64`).
* Settings: a set made from a copy read earlier undoes another's; a launch that meets
  the truncated file takes the defaults, and so fetches although told not to; two
  writes at once may leave a line that does not parse, and then no set repairs the file;
  of two lines with one key the first is replaced and the last is read; stopped between
  the two writes of `SetProviderPlan` the new plan has the old start; "api" under a
  `monthly_fee_usd` that overrides it stays a subscription (`config/config.go:291`
  says it "clears the subscription"); the picker opens on the plan of the launch.

## What is not modelled

* **Trailers**: a second checkout or repository over the same ledger: `pendingUsage`
  ignores the repository, so each charges the turns of a branch of the same name
  (`cli/cli.go:867`). Turns imported behind the watermark are in the model, and are
  never charged (`trailer/state.go:56`); no property claims otherwise.
* **Power loss.** No file is synced to disk before its rename; the order in which a
  file system persists them is outside the model.
* **Attribution** of rows to projects and commits, and churn. Prices a process writes
  back from an older copy.
* **Reports**: `top`, the chain view, churn, JSON and text layout.
* **Menu bar, web page**: layout, and the launch scan inside a refresh.
* **SQLite store**: behind a build tag that no command uses. **sqlcgen**: generated.
* **Platform, vcs, termtext**: paths, read-only git queries, text width.
* **Settings**: a launch as a process of its own that reads while others write; its
  defaults then follow from `Parsed`.
* **pricesync, cmd/pricing-sync**: a maintainer's tool that writes the embedded table.

## Plan

Order so far: what could charge money twice first (Trailer), then what could lose
rows (Scan, SyncLock, FileStore), then what shows them (Tui), then what computes
them (Ingest), then what puts the hooks in place (GitHook), then what is said about
them (Report, MenuBar), then what all of them are told (Settings).

Next, in this order:

1. **Proofs.** That Scan implements the scan Ingest takes for one step, and the type
   invariants of the modules whose inductive invariant does not contain them.
2. **Attribution.** SHA and project of a row given anew at each read; a second
   repository over the same ledger.
3. **Composition.** SyncLock with Scan and FileStore: which overlaps the lock leaves
   (a process outside it, an overrun) and that honesty survives them.
4. **Explorer, second part.** Drill-downs with their own cursors, commits view.
