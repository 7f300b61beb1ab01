------------------------------ MODULE Settings ------------------------------
(***************************************************************************)
(* The settings files: ~/.aispend/config.toml (internal/config/config.go)   *)
(* and a repository's .aispend.toml (trailers.go).  Explorers and commands  *)
(* set a key, or the trailers' sections, by reading the file, truncating it *)
(* and writing it anew, without a lock; every launch reads them.            *)
(*                                                                          *)
(* A file is a sequence of lines: the header of a section, an entry, a note *)
(* (a comment or blank) or what is torn off a line and does not parse.  An  *)
(* absent file reads like an empty one.  What shows in a trailer is one     *)
(* value, its keys are written together.                                    *)
(***************************************************************************)
EXTENDS Integers, FiniteSets, Sequences, Functions

CONSTANTS Explorers, Commands,    \* processes
          Providers,              \* a sequence: those with usage, sorted
          Plans,                \* a sequence: the plans of the picker, "api" last
          Fee,                    \* [plan of the catalog -> its monthly fee]
          Ceilings,               \* budgets somebody sets; 0 clears
          Dates, Today,
          TrailerSettings,        \* what the trailers editor may save
          ConfigFiles, RepoFiles, \* what the files may hold at first
          NoValue,
          MaxSets                 \* bound: sets begun

ASSUME SettingsAssumption ==
    /\ Explorers \cap Commands = {}
    /\ Range(Plans) = DOMAIN Fee \cup {"api"} /\ "api" \notin DOMAIN Fee
    /\ \A id \in DOMAIN Fee : Fee[id] \in Nat \ {0}
    /\ Providers \in Seq(Range(Providers)) /\ Plans \in Seq(Range(Plans))
    /\ NoValue \notin Nat \cup Range(Plans)
    /\ Ceilings \subseteq Nat /\ Dates \subseteq Nat /\ Today \in Dates
    /\ MaxSets \in Nat

VARIABLES disk,     \* [file -> lines]
          proc,     \* [process -> the writes it is at]
          picker,   \* [explorer -> its plan picker]
          known,    \* [explorer -> the plans it read at launch]
          sets,     \* how many sets were begun
          asSet,    \* history: [file -> [key -> value]]: as if each write had been one step
          stale,    \* history: the files written from a copy that was not the latest
          mixed,    \* history: the files two processes wrote at once, or one died writing
          last,     \* history: the key and value written last to config.toml
          chosen    \* history: [owner -> the plan last confirmed for it, as the picker showed it,
                    \* unless its set stopped half-way or another was not done yet]

vars == <<disk, proc, picker, known, sets, asSet, stale, mixed, last, chosen>>

Process == Explorers \cup Commands
File == {"config", "repo"}
Default == "default"
Owner == Range(Providers) \cup {Default}

----------------------------------------------------------------------------
(* Lines.                                                                   *)

Header(section) == [kind |-> "header", name |-> section, value |-> NoValue]
Entry(key, value) == [kind |-> "entry", name |-> key, value |-> value]
Note == [kind |-> "note", name |-> NoValue, value |-> NoValue]
Torn == [kind |-> "torn", name |-> NoValue, value |-> NoValue]

PlanKey(p) == <<p, "plan">>
StartKey(p) == <<p, "plan_start">>
FeeKey(p) == <<p, "monthly_fee_usd">>
BudgetKey == <<Default, "budget_usd">>
RefreshKey == <<Default, "refresh_on_launch">>
ScanKey == <<Default, "scan_on_launch">>

Keys == {BudgetKey, RefreshKey, ScanKey}
          \cup UNION {{PlanKey(p), StartKey(p), FeeKey(p)} : p \in Owner}

At(lines, key) == {i \in DOMAIN lines : lines[i].kind = "entry" /\ lines[i].name = key}

Least(S) == CHOOSE i \in S : \A j \in S : i <= j
Greatest(S) == CHOOSE i \in S : \A j \in S : i >= j

\* Mutant: the first line that begins like the key is replaced.
SetKeyByPrefix(lines, key, value) ==
    LET begins(name) == name = key \/ (name = StartKey(key[1]) /\ key = PlanKey(key[1]))
        hit == {i \in DOMAIN lines : lines[i].kind = "entry" /\ begins(lines[i].name)}
    IN IF hit = {} THEN Append(lines, Entry(key, value))
       ELSE [lines EXCEPT ![Least(hit)] = Entry(key, value)]

\* Mutant: an entry that is there stays.
SetKeyOnce(lines, key, value) ==
    IF At(lines, key) = {} THEN Append(lines, Entry(key, value)) ELSE lines

\* setConfigKey: in place if the key is there, the first such line; else at the end.
SetKey(lines, key, value) ==
    IF At(lines, key) = {} THEN Append(lines, Entry(key, value))
    ELSE [lines EXCEPT ![Least(At(lines, key))] = Entry(key, value)]

Unreadable(lines) == \E i \in DOMAIN lines : lines[i].kind = "torn"

Lookup(lines, key) ==
    IF At(lines, key) = {} THEN NoValue ELSE lines[Greatest(At(lines, key))].value

\* parseTOML: the last entry of a key counts, whatever its section.  A file that does
\* not parse is an error, which every reader takes for a file that sets nothing.
Parsed(lines) == [k \in Keys |-> IF Unreadable(lines) THEN NoValue ELSE Lookup(lines, k)]

Top == ""

\* The section a line is in, its own if it is a header.
SectionOf(lines, i) ==
    LET heads == {j \in 1 .. i : lines[j].kind = "header"}
    IN IF heads = {} THEN Top ELSE lines[Greatest(heads)].name

LookupIn(lines, section, key) ==
    LET hit == {i \in At(lines, key) : SectionOf(lines, i) = section}
    IN IF hit = {} THEN NoValue ELSE lines[Greatest(hit)].value

\* The lines at some places, in their order.
Rank(places, i) == Cardinality({j \in places : j <= i})

Nth(places, n) == CHOOSE i \in places : Rank(places, i) = n

LinesAt(lines, places) == [n \in 1 .. Cardinality(places) |-> lines[Nth(places, n)]]

DropSections(lines, sections) ==
    LinesAt(lines, {i \in DOMAIN lines : SectionOf(lines, i) \notin sections})

----------------------------------------------------------------------------
(* What is read.                                                            *)

\* resolvePlan: an override of the fee counts before the catalog.
ResolvePlan(name, fee, start) ==
    LET own    == IF fee = NoValue THEN 0 ELSE fee
        seeded == IF own = 0 /\ name \in DOMAIN Fee THEN Fee[name] ELSE own
    IN [ name  |-> name, fee |-> seeded, start |-> start,
         kind  |-> IF seeded > 0 \/ name \notin {NoValue, "api"} THEN "subscription" ELSE "api" ]

PlanOf(m, p) == ResolvePlan(m[PlanKey(p)], m[FeeKey(p)], m[StartKey(p)])

\* LoadPlanSet and PlanSet.For: a provider without a plan of its own has the default.
PlanFor(m, p) == IF m[PlanKey(p)] = NoValue THEN PlanOf(m, Default) ELSE PlanOf(m, p)

LoadBudget(m) == IF m[BudgetKey] = NoValue THEN 0 ELSE m[BudgetKey]

\* LoadScanOnLaunch, LoadRefreshOnLaunch: on unless the file says off.
LoadSwitch(m, key) == m[key] # "off"

\* What a launch takes from config.toml.
Load(m) == [ plans   |-> [p \in Range(Providers) |-> PlanFor(m, p)],
             budget  |-> LoadBudget(m),
             refresh |-> LoadSwitch(m, RefreshKey),
             scan    |-> LoadSwitch(m, ScanKey) ]

DefaultTrailers == [enabled |-> "true", shows |-> "cost", precision |-> 2, name |-> "AI-Cost"]

\* LoadTrailers: what is not a value of its key leaves the default.
LoadTrailers(lines) ==
    LET get(key) == LookupIn(lines, "trailers", key)
        name     == LookupIn(lines, "trailers.rename", "cost")
        digits   == get("precision")
    IN IF Unreadable(lines) THEN DefaultTrailers
       ELSE [ enabled   |-> IF get("enabled") \in {"true", "false"} THEN get("enabled") ELSE "true",
              shows     |-> IF get("shows") = NoValue THEN "cost" ELSE get("shows"),
              precision |-> IF digits = NoValue THEN 2 ELSE IF digits > 8 THEN 8 ELSE digits,
              name      |-> IF name = NoValue THEN "AI-Cost" ELSE name ]

----------------------------------------------------------------------------
(* What is written.                                                         *)

\* Mutant: the section with the name is forgotten.
WithTrailersOverName(lines, t) ==
    DropSections(lines, {"trailers"})
      \o << Header("trailers"), Entry("enabled", t.enabled), Entry("shows", t.shows),
            Entry("precision", t.precision) >>
      \o (IF t.name = "AI-Cost" THEN <<>>
          ELSE <<Header("trailers.rename"), Entry("cost", t.name)>>)

Sections == {"trailers", "trailers.rename"}

\* SetTrailers: the sections are dropped wherever they are and written at the end.
WithTrailers(lines, t) ==
    DropSections(lines, Sections)
      \o << Header("trailers"), Entry("enabled", t.enabled), Entry("shows", t.shows),
            Entry("precision", t.precision) >>
      \o (IF t.name = "AI-Cost" THEN <<>>
          ELSE <<Header("trailers.rename"), Entry("cost", t.name)>>)

KeyJob(key, value) == [file |-> "config", key |-> key, value |-> value]
TrailersJob(t) == [file |-> "repo", key |-> "trailers", value |-> t]

Apply(job, lines) == IF job.file = "repo" THEN WithTrailers(lines, job.value)
                     ELSE SetKey(lines, job.key, job.value)

\* Mutant: the start is forgotten.
PlanJobsUndated(p, id, start) == <<KeyJob(PlanKey(p), id)>>

\* SetProviderPlan: the start is a write of its own, and only of a real plan.
PlanJobs(p, id, start) ==
    <<KeyJob(PlanKey(p), id)>>
      \o (IF id = "api" THEN <<>> ELSE <<KeyJob(StartKey(p), start)>>)

Resting == [pc |-> "idle", jobs |-> <<>>, lines |-> <<>>]

Closed == [phase |-> "closed", pcursor |-> 1, cursor |-> 1, chosen |-> NoValue, start |-> Today]

\* The plan the picker marks for a provider: that of the launch.
Current(lines, p) == LET plan == PlanFor(Parsed(lines), p)
                     IN IF plan.kind = "subscription" THEN plan.name ELSE NoValue

AllCurrent(lines) == [p \in Range(Providers) |-> Current(lines, p)]

Others == {"project", "cost_tag"}

\* The files parse, config.toml has no key twice, the other keys of .aispend.toml are
\* not in the trailers' sections; the editor's values are those LoadTrailers knows.
ASSUME FilesAssumption ==
    /\ \A lines \in ConfigFiles \cup RepoFiles : lines \in Seq(Range(lines)) /\ ~Unreadable(lines)
    /\ \A lines \in ConfigFiles : \A i, j \in DOMAIN lines :
          lines[i].kind = "entry" /\ lines[j].kind = "entry" /\ lines[i].name = lines[j].name => i = j
    /\ \A lines \in RepoFiles : \A k \in Others : \A i \in At(lines, k) : SectionOf(lines, i) \notin Sections
    /\ \A t \in TrailerSettings :
          /\ t \in [enabled : {"true", "false"}, shows : {t.shows}, precision : 0 .. 8, name : {t.name}]
          /\ NoValue \notin {t.shows, t.name}

Init == /\ disk \in {[config |-> c, repo |-> r] : c \in ConfigFiles, r \in RepoFiles}
        /\ proc = [x \in Process |-> Resting]
        /\ picker = [x \in Explorers |-> Closed]
        /\ known = [x \in Explorers |-> AllCurrent(disk.config)]
        /\ sets = 0
        /\ asSet = [ config   |-> Parsed(disk.config),
                     repo     |-> [k \in Others |-> Lookup(disk.repo, k)],
                     trailers |-> LoadTrailers(disk.repo) ]
        /\ stale = {} /\ mixed = {}
        /\ last = {}
        /\ chosen = [p \in Owner |-> {}]

----------------------------------------------------------------------------
(* The plan picker, on an explorer's own loop.                              *)

Target(x) == IF Providers = <<>> THEN Default ELSE Providers[picker[x].pcursor]

CursorFor(id) == LET hit == {i \in DOMAIN Plans : Plans[i] = id}
                 IN IF hit = {} THEN 1 ELSE Least(hit)

AtProvider(x, pk) == [pk EXCEPT !.phase = "plan",
                                !.cursor = IF Providers = <<>> THEN 1
                                           ELSE CursorFor(known[x][Providers[pk.pcursor]])]

Free(x) == proc[x].pc = "idle"

Shows(x, phase) == Free(x) /\ picker[x].phase = phase

Turns(x, next) == /\ picker' = [picker EXCEPT ![x] = next]
                  /\ UNCHANGED <<disk, proc, known, sets, asSet, stale, mixed, last, chosen>>

OpenPicker(x) == /\ Shows(x, "closed") /\ sets < MaxSets
                 /\ Turns(x, IF Len(Providers) > 1 THEN [Closed EXCEPT !.phase = "provider"]
                             ELSE AtProvider(x, Closed))

MoveProvider(x) == /\ Shows(x, "provider")
                   /\ \E i \in {picker[x].pcursor - 1, picker[x].pcursor + 1} \cap DOMAIN Providers :
                         Turns(x, [picker[x] EXCEPT !.pcursor = i])

ChooseProvider(x) == Shows(x, "provider") /\ Turns(x, AtProvider(x, picker[x]))

MovePlan(x) == /\ Shows(x, "plan")
               /\ \E i \in {picker[x].cursor - 1, picker[x].cursor + 1} \cap DOMAIN Plans :
                     Turns(x, [picker[x] EXCEPT !.cursor = i])

ChoosePlan(x) == /\ Shows(x, "plan") /\ Plans[picker[x].cursor] # "api"
                 /\ Turns(x, [picker[x] EXCEPT !.phase = "date", !.chosen = Plans[picker[x].cursor]])

\* The arrows take the start to any date.
MoveDate(x) == /\ Shows(x, "date")
               /\ \E d \in Dates : Turns(x, [picker[x] EXCEPT !.start = d])

Back(x) == \/ Shows(x, "date") /\ Turns(x, [picker[x] EXCEPT !.phase = "plan"])
           \/ /\ Shows(x, "plan") /\ Len(Providers) > 1
              /\ Turns(x, [picker[x] EXCEPT !.phase = "provider"])

\* Esc where the picker began, or ctrl+c.
Cancel(x) == Free(x) /\ picker[x].phase # "closed" /\ Turns(x, Closed)

----------------------------------------------------------------------------
(* A set: read, truncate and write, for each of its keys.                   *)

Goes(x, pc, jobs, lines) == proc' = [proc EXCEPT ![x] = [pc |-> pc, jobs |-> jobs, lines |-> lines]]

Begin(x, jobs) ==
    /\ Free(x) /\ sets < MaxSets
    /\ Goes(x, "read", jobs, <<>>)
    /\ sets' = sets + 1
    /\ UNCHANGED <<disk, known, asSet, stale, mixed, last>>

IsOfPlan(job, p) == job.file = "config" /\ job.key \in {PlanKey(p), StartKey(p)}

\* Those with a plan of that owner, or its start, still to write.
SettingPlanOf(p) == {x \in Process : \E i \in DOMAIN proc[x].jobs : IsOfPlan(proc[x].jobs[i], p)}

\* The picker ends with a plan and a date on its screen, or with "api".
Confirm(x) ==
    /\ \/ Shows(x, "date")
       \/ Shows(x, "plan") /\ Plans[picker[x].cursor] = "api"
    /\ LET shown == [id |-> Plans[picker[x].cursor], start |-> picker[x].start]
           id    == IF picker[x].phase = "date" THEN picker[x].chosen ELSE shown.id
       IN /\ Begin(x, PlanJobs(Target(x), id, picker[x].start))
          /\ chosen' = [chosen EXCEPT ![Target(x)] =
                           IF SettingPlanOf(Target(x)) = {} THEN {shown} ELSE {}]
    /\ picker' = [picker EXCEPT ![x] = Closed]

\* aispend budget set and clear; the explorer's editor, which takes no zero.
SetBudget(x) ==
    /\ x \in Explorers => picker[x].phase = "closed"
    /\ \E c \in Ceilings : (x \in Explorers => c > 0) /\ Begin(x, <<KeyJob(BudgetKey, c)>>)
    /\ UNCHANGED <<picker, chosen>>

\* The explorer's trailers editor.
SetTrailers(x) == /\ picker[x].phase = "closed"
                  /\ \E t \in TrailerSettings : Begin(x, <<TrailersJob(t)>>)
                  /\ UNCHANGED <<picker, chosen>>

Job(x) == Head(proc[x].jobs)

\* The other processes that have read the file and not yet written it.
Under(x, f) == {y \in Process \ {x} : proc[y].pc \in {"truncate", "write"} /\ Job(y).file = f}

Writing(f) == {y \in Process : proc[y].pc = "write" /\ Job(y).file = f}

Read(x) == /\ proc[x].pc = "read"
           /\ Goes(x, "truncate", proc[x].jobs, Apply(Job(x), disk[Job(x).file]))
           /\ stale' = IF Under(x, Job(x).file) = {} THEN stale ELSE stale \cup {Job(x).file}
           /\ UNCHANGED <<disk, picker, known, sets, asSet, mixed, last, chosen>>

\* os.WriteFile opens with O_TRUNC.
Truncate(x) == LET f == Job(x).file
               IN /\ proc[x].pc = "truncate"
                  /\ disk' = [disk EXCEPT ![f] = <<>>]
                  /\ mixed' = IF Writing(f) = {} THEN mixed ELSE mixed \cup {f}
                  /\ Goes(x, "write", proc[x].jobs, proc[x].lines)
                  /\ UNCHANGED <<picker, known, sets, asSet, stale, last, chosen>>

\* Over what another wrote meanwhile the end of the longer text stays: nothing, a line
\* that says nothing or one that does not parse stands for it.
Written(x) == {proc[x].lines}
                \cup (IF disk[Job(x).file] = <<>> THEN {}
                      ELSE {Append(proc[x].lines, Note), Append(proc[x].lines, Torn)})

Remember(x) ==
    IF Job(x).file = "repo" THEN [asSet EXCEPT !.trailers = Job(x).value]
    ELSE [asSet EXCEPT !.config[Job(x).key] = Job(x).value]

Write(x) == LET more == Len(proc[x].jobs) > 1
            IN /\ proc[x].pc = "write"
               /\ \E lines \in Written(x) : disk' = [disk EXCEPT ![Job(x).file] = lines]
               /\ asSet' = Remember(x)
               /\ last' = IF Job(x).file = "config" THEN {Job(x)} ELSE last
               /\ IF more THEN Goes(x, "read", Tail(proc[x].jobs), <<>>) ELSE Goes(x, "idle", <<>>, <<>>)
               /\ UNCHANGED <<picker, known, sets, stale, mixed, chosen>>

\* A write fails, or the process is killed and started anew: the file stays as it is
\* by then.
GiveUp(x) == /\ proc[x].pc # "idle"
             /\ Goes(x, "idle", <<>>, <<>>)
             /\ mixed' = IF proc[x].pc = "write" THEN mixed \cup {Job(x).file} ELSE mixed
             /\ known' \in {known, [y \in Explorers |->
                                   IF y = x THEN AllCurrent(disk.config) ELSE known[y]]}
             /\ chosen' = [p \in Owner |-> IF x \in SettingPlanOf(p) THEN {} ELSE chosen[p]]
             /\ UNCHANGED <<disk, picker, sets, asSet, stale, last>>

Next == \/ \E x \in Explorers :
              \/ OpenPicker(x) \/ MoveProvider(x) \/ ChooseProvider(x)
              \/ MovePlan(x) \/ ChoosePlan(x) \/ MoveDate(x) \/ Back(x) \/ Cancel(x)
              \/ Confirm(x) \/ SetTrailers(x)
        \/ \E x \in Process :
              SetBudget(x) \/ Read(x) \/ Truncate(x) \/ Write(x) \/ GiveUp(x)

Spec == Init /\ [][Next]_vars

----------------------------------------------------------------------------
(* Properties.                                                              *)

TypeOK == /\ \A x \in Process : proc[x].pc \in {"idle", "read", "truncate", "write"}
          /\ \A x \in Explorers :
                /\ picker[x].phase \in {"closed", "provider", "plan", "date"}
                /\ picker[x].cursor \in DOMAIN Plans /\ picker[x].start \in Dates
          /\ sets \in 0 .. MaxSets
          /\ stale \subseteq File /\ mixed \subseteq File

\* A file nobody is writing.
Settled(f) == Writing(f) = {} /\ f \notin mixed

\* While sets do not overlap and none dies writing, a launch takes from config.toml
\* what was last set, or what the file held at first: a set changes its key and no
\* other, and no budget, plan or switch is taken for unset.
\* (internal/config/config.go:315, setConfigKey; parseTOML; LoadPlanSet)
SettingsAreAsSet ==
    Settled("config") /\ "config" \notin stale =>
        ~Unreadable(disk.config) /\ Load(Parsed(disk.config)) = Load(asSet.config)

\* A set made from a stale copy may undo another's, but what was set last has its
\* value as long as no two processes write at the same moment.
\* (internal/config/config.go:315, setConfigKey)
LastSetSticks ==
    Settled("config") => \A job \in last : Lookup(disk.config, job.key) = job.value

\* A plan whose set went through is the one billed: the kind, the fee and the
\* start on the picker's screen when it was confirmed, unless the file overrides
\* the fee.  (internal/config/config.go:291, SetProviderPlan; resolvePlan;
\* internal/tui/plan_picker.go: step)
PlanIsAsChosen ==
    Settled("config") /\ "config" \notin stale =>
        \A p \in Owner : \A c \in chosen[p] :
          SettingPlanOf(p) = {} /\ Lookup(disk.config, FeeKey(p)) = NoValue =>
            LET plan == PlanFor(Parsed(disk.config), p)
            IN IF c.id = "api" THEN plan.kind = "api" /\ plan.fee = 0
               ELSE /\ plan.kind = "subscription" /\ plan.name = c.id /\ plan.fee = Fee[c.id]
                    /\ plan.start = c.start

\* What the trailers editor saves is what the next commit reads, wherever in the
\* file the sections were, and the repository's other settings stay.
\* (internal/config/trailers.go:71, SetTrailers; LoadTrailers)
TrailersAreAsSaved ==
    Settled("repo") /\ "repo" \notin stale =>
        /\ LoadTrailers(disk.repo) = asSet.trailers
        /\ \A k \in Others : Lookup(disk.repo, k) = asSet.repo[k]

==============================================================================
