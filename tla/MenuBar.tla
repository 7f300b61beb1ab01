------------------------------- MODULE MenuBar -------------------------------
(***************************************************************************)
(* The menu bar: a ticker and manual refreshes, each a goroutine of its own, *)
(* look up the plan limits and publish a title and a popover.  The lookups   *)
(* share a cache behind a mutex and fetch outside of it; the two halves of   *)
(* the bar are set one after the other.                                     *)
(*                                                                          *)
(* Where a provider's usage API gives nothing, its local readings serve:     *)
(* Codex's newest rollouts, Claude's snapshot file.                         *)
(***************************************************************************)
EXTENDS Quota

CONSTANTS Ticker, Clicks,       \* refreshing goroutines: one that repeats, the others once
          Order,                \* the providers, in the order they are looked up
          Answers,              \* [provider -> raw usage answers]
          LogLines, Snapshots,  \* raw local readings of Codex and Claude
          Session, Logs,        \* Codex rollouts, numbers, and what they may hold at first
          MaxQuotaScanFiles,
          Interval,             \* quotaRefreshInterval
          Never,                \* an instant before any other
          MaxTime, MaxWrites    \* bounds: instants, writes of local readings

Provider == Range(Order)

ASSUME MenuBarAssumption ==
    /\ Ticker \notin Clicks
    /\ Interval \in Nat \ {0} /\ MaxTime \in Nat /\ MaxWrites \in Nat
    /\ MaxQuotaScanFiles \in Nat \ {0} /\ Never \in Int /\ Never < 0
    /\ Session \subseteq Nat /\ IsFiniteSet(Session)

\* Each provider is looked up once.
ASSUME OrderAssumption ==
    /\ Order \in Seq({"claude", "codex"}) /\ Order # <<>>
    /\ IsInjective(Order)

ASSUME ReadingsAssumption ==
    /\ "codex" \in Provider => \A raw \in Answers["codex"] : IsCodexRaw(raw)
    /\ "claude" \in Provider => \A raw \in Answers["claude"] : IsClaudeRaw(raw)
    /\ \A raw \in LogLines : IsCodexRaw(raw)
    /\ \A raw \in Snapshots : IsClaudeRaw(raw)
    /\ Logs \subseteq [Session -> [mtime : Never .. 0, samples : Seq(Samples("codex"))]]

VARIABLES now,
          fetchedAt,  \* [provider -> time or Never]
          cache,      \* [provider -> samples]: the last good reading
          rollouts,   \* [Session -> [mtime, samples]]: a line is what it parses to
          snapshot,   \* [mtime, raw], or NoFile
          refresh,    \* [goroutine -> where it is]
          bar,        \* [title, popover]: the last set of each
          writes,     \* how many local readings were written
          \* History, read by no action's guard, as is refresh's kept:
          standing    \* fetches asked for while the last good reading was valid

barVars == <<now, fetchedAt, cache, rollouts, snapshot, refresh, bar, writes, standing>>

Refresher == {Ticker} \cup Clicks
NoFile == [mtime |-> Never, raw |-> <<>>]

Idle == [pc |-> "idle", at |-> Never, next |-> 1, seen |-> <<>>, kept |-> {}]
Nothing == [at |-> Never, gauges |-> {}]

BarInit == /\ now = 0
           /\ fetchedAt = [p \in Provider |-> Never]
           /\ cache = [p \in Provider |-> <<>>]
           /\ rollouts \in Logs
           /\ snapshot = NoFile
           /\ refresh = [r \in Refresher |-> Idle]
           /\ bar = [title |-> [at |-> Never, warns |-> {}], popover |-> Nothing]
           /\ writes = 0 /\ standing = {}

----------------------------------------------------------------------------
(* The world.                                                               *)

ClockTick == /\ now < MaxTime /\ now' = now + 1
             /\ UNCHANGED <<fetchedAt, cache, rollouts, snapshot, refresh, bar, writes, standing>>

\* Codex writes a line to a rollout, with or without limits in it.
WriteLog == /\ writes < MaxWrites
            /\ \E s \in Session, limits \in LogLines :
                  rollouts' = [rollouts EXCEPT ![s] =
                      [ mtime   |-> now,
                        samples |-> @.samples \o ParseCodex([ts |-> now, limits |-> limits]) ]]
            /\ writes' = writes + 1
            /\ UNCHANGED <<now, fetchedAt, cache, snapshot, refresh, bar, standing>>

WriteSnapshot == /\ writes < MaxWrites
                 /\ \E raw \in Snapshots : snapshot' = [mtime |-> now, raw |-> raw]
                 /\ writes' = writes + 1
                 /\ UNCHANGED <<now, fetchedAt, cache, rollouts, refresh, bar, standing>>

----------------------------------------------------------------------------
(* Local readings.                                                          *)

Files == {s \in Session : rollouts[s].mtime # Never}

\* Newest first; the sort leaves equals in any order, here by number.
Newer(s, t) == \/ rollouts[s].mtime > rollouts[t].mtime
               \/ rollouts[s].mtime = rollouts[t].mtime /\ s < t

\* What the n newest rollouts hold, in the order it is read.
NewestRollouts ==
    LET newest(n) == CHOOSE s \in Files : Cardinality({t \in Files : Newer(t, s)}) = n - 1
        read[n \in 0 .. Cardinality(Files)] ==
            IF n = 0 THEN <<>> ELSE read[n - 1] \o rollouts[newest(n)].samples
    IN read

\* One more rollout at a time, until some window of them is live.
CodexRolloutSamples(at) ==
    LET live(n) == Active(Tracker(NewestRollouts[n]), at)
        most    == IF Cardinality(Files) < MaxQuotaScanFiles THEN Cardinality(Files)
                                                             ELSE MaxQuotaScanFiles
        enough  == {n \in 0 .. most : n = most \/ live(n) # {}}
    IN SetToSeq(live(CHOOSE n \in enough : \A m \in enough : n <= m))

ClaudeSnapshotSamples ==
    IF snapshot = NoFile THEN <<>>
    ELSE ParseClaudeRateLimits(snapshot.raw, snapshot.mtime)

Local(p, at) == IF p = "codex" THEN CodexRolloutSamples(at) ELSE ClaudeSnapshotSamples

----------------------------------------------------------------------------
(* A refresh.                                                               *)

\* doRefresh takes the time once.  The ticker starts again and again, a click
\* starts a goroutine of its own.
Begin(r) == /\ refresh[r].pc = "idle"
            /\ refresh' = [refresh EXCEPT ![r] = [Idle EXCEPT !.pc = "look", !.at = now]]
            /\ UNCHANGED <<now, fetchedAt, cache, rollouts, snapshot, bar, writes, standing>>

Asked(r) == Order[refresh[r].next]

Fresh(p, at) == fetchedAt[p] # Never /\ at - fetchedAt[p] < Interval

\* The samples of the provider asked are in: on to the next, or to the bar.
Collected(lookup, samples) ==
    LET last == lookup.next = Len(Order)
    IN [lookup EXCEPT !.pc   = IF last THEN "title" ELSE "look",
                      !.next = IF last THEN @ ELSE @ + 1,
                      !.seen = @ \o samples]

\* The last good reading of a provider has a window that is not over.
Valid(p, at) == Active(Tracker(cache[p]), at) # {}

\* Its usage API gave these, or last did; without any its local readings serve.
Online(r, p, live, valid) ==
    LET told == [refresh[r] EXCEPT !.kept = IF valid THEN @ \cup {p} ELSE @]
    IN refresh' = [refresh EXCEPT ![r] =
          IF live = <<>> THEN [told EXCEPT !.pc = "disk"] ELSE Collected(told, live)]

\* cachedQuota: within the interval the last good reading serves.
Serve(r) == LET p == Asked(r)
            IN /\ refresh[r].pc = "look"
               /\ Fresh(p, refresh[r].at)
               /\ UNCHANGED <<now, fetchedAt, cache, rollouts, snapshot, bar, writes, standing>>
               /\ Online(r, p, cache[p], Valid(p, refresh[r].at))

\* Otherwise a fetch is due, begun after the mutex is let go.
Fetch(r) == LET p == Asked(r)
            IN /\ refresh[r].pc = "look"
               /\ ~Fresh(p, refresh[r].at)
               /\ refresh' = [refresh EXCEPT ![r].pc = "fetch"]
               /\ standing' = IF Valid(p, refresh[r].at) THEN standing \cup {r} ELSE standing
               /\ UNCHANGED <<now, fetchedAt, cache, rollouts, snapshot, bar, writes>>

Parsed(p, raw, at) == IF p = "codex" THEN ParseCodexUsageAPI(raw, at)
                                     ELSE ParseClaudeUsageAPI(raw, at)

\* Mutant: an empty answer is remembered like any other.
RememberedAsIs(p, got) == got

\* rememberQuota: an empty answer leaves the last good reading.
Remembered(p, got) == IF got # <<>> THEN got ELSE cache[p]

\* The server reports no window that is over.
Ahead(raw) == \A w \in DOMAIN raw : /\ raw[w].at # NoValue => raw[w].at >= now
                                    /\ raw[w].after # NoValue => raw[w].after >= 0

\* What is remembered of provider p at r's instant is over by q's, which is later.
Overtakes(r, q, got) ==
    /\ Asked(q) = Asked(r) /\ refresh[r].at < refresh[q].at
    /\ got # <<>> /\ Active(Tracker(got), refresh[q].at) = {}

Answered(r, got) ==
    LET p == Asked(r)
    IN /\ refresh[r].pc = "fetch"
       /\ fetchedAt' = [fetchedAt EXCEPT ![p] = refresh[r].at]
       /\ cache' = [cache EXCEPT ![p] = Remembered(p, got)]
       /\ standing' = {q \in standing \ {r} : ~Overtakes(r, q, got)}
       /\ UNCHANGED <<now, rollouts, snapshot, bar, writes>>
       /\ Online(r, p, Remembered(p, got), r \in standing)

\* No credential, no network, an error.
NoAnswer(r) == Answered(r, <<>>)

Answer(r) == \E raw \in {a \in Answers[Asked(r)] : Ahead(a)} :
                 Answered(r, Parsed(Asked(r), raw, refresh[r].at))

ReadLocal(r) == /\ refresh[r].pc = "disk"
                /\ refresh' = [refresh EXCEPT ![r] =
                       Collected(@, Local(Asked(r), refresh[r].at))]
                /\ UNCHANGED <<now, fetchedAt, cache, rollouts, snapshot, bar, writes, standing>>

Shown(r) == Active(Tracker(refresh[r].seen), refresh[r].at)

Reading(r) == [at |-> refresh[r].at, gauges |-> {Gauge(s, refresh[r].at) : s \in Shown(r)}]

\* The title warns of the worst gauge, the first in order among equals.
TitleOf(reading) ==
    LET place(g) == CHOOSE i \in 1 .. Len(Order) : Order[i] = g.provider
        worst == {g \in reading.gauges : \A h \in reading.gauges : ~Worse(h, g)}
    IN [at |-> reading.at,
        warns |-> {<<g.provider, g.used>> : g \in {g \in worst :
                       \A h \in worst : place(g) <= place(h)}}]

SetTitle(r) == /\ refresh[r].pc = "title"
               /\ refresh' = [refresh EXCEPT ![r].pc = "popover"]
               /\ UNCHANGED <<now, fetchedAt, cache, rollouts, snapshot, writes, standing>>
               /\ bar' = [bar EXCEPT !.title = TitleOf(Reading(r))]

Rest(r) == [Idle EXCEPT !.pc = IF r = Ticker THEN "idle" ELSE "done"]

\* Mutant: the popover is left alone when it has something to show.
PopoverOnce(r) == /\ refresh[r].pc = "popover"
                  /\ bar' = [bar EXCEPT !.popover = IF @.gauges = {} THEN Reading(r) ELSE @]
                  /\ refresh' = [refresh EXCEPT ![r] = Rest(r)]
                  /\ UNCHANGED <<now, fetchedAt, cache, rollouts, snapshot, writes, standing>>

SetPopover(r) == /\ refresh[r].pc = "popover"
                 /\ refresh' = [refresh EXCEPT ![r] = Rest(r)]
                 /\ UNCHANGED <<now, fetchedAt, cache, rollouts, snapshot, writes, standing>>
                 /\ bar' = [bar EXCEPT !.popover = Reading(r)]

Step(r) == \/ Serve(r) \/ Fetch(r) \/ NoAnswer(r) \/ Answer(r) \/ ReadLocal(r)
           \/ SetTitle(r) \/ SetPopover(r)

BarNext == \/ ClockTick \/ WriteLog \/ WriteSnapshot
           \/ \E r \in Refresher : Begin(r) \/ Step(r)

Busy(r) == refresh[r].pc \notin {"idle", "done"}

\* WF_barVars(Step(r)), with what enables a step written out: a busy refresh has one.
Scheduled(r) == []<>(~Busy(r)) \/ []<><<Step(r)>>_barVars

\* A fetch has a time limit, goroutines are scheduled, the ticker ticks.
Fairness == /\ \A r \in Refresher : Scheduled(r)
            /\ WF_barVars(Begin(Ticker))

BarSpec == BarInit /\ [][BarNext]_barVars /\ Fairness

----------------------------------------------------------------------------
(* Properties.                                                              *)

\* Where a refresh can be, by a certain time.
Lookup(time) ==
    [ pc   : {"idle", "look", "fetch", "disk", "title", "popover", "done"},
      at   : Never .. time,
      next : 1 .. Len(Order),
      seen : Seq(Samples("claude") \cup Samples("codex")),
      kept : SUBSET Provider ]

BarTypeOK ==
    /\ now \in 0 .. MaxTime
    /\ fetchedAt \in [Provider -> Never .. now]
    /\ DOMAIN cache = Provider
    /\ \A p \in Provider : cache[p] \in Seq(Samples(p))
    /\ rollouts \in [Session -> [mtime : Never .. now, samples : Seq(Samples("codex"))]]
    /\ snapshot.mtime \in Never .. now /\ IsClaudeRaw(snapshot.raw)
    /\ refresh \in [Refresher -> Lookup(now)]
    /\ DOMAIN bar = {"title", "popover"}
    /\ bar.title.at \in Never .. now /\ bar.popover.at \in Never .. now
    /\ standing \subseteq Refresher

Holds(s, f) == s \in Range(rollouts[f].samples)

\* A gauge read from the rollouts is a reading some rollout holds, and neither
\* that rollout nor a newer one has a later reading of the window: lines and
\* files are read in an order that is not the readings' own.
\* (internal/quota/quota.go: Observe; internal/cli/today.go: codexQuotaSamples)
GaugesAreTheLatest ==
    \A s \in Range(CodexRolloutSamples(now)) :
        \E f \in Session :
            /\ Holds(s, f)
            /\ \A g \in Session : g = f \/ rollouts[g].mtime > rollouts[f].mtime =>
                  \A t \in Range(rollouts[g].samples) :
                      t.window = s.window => t.observed <= s.observed

\* A provider whose last good reading is valid when a refresh asks for it has a
\* gauge in what the refresh shows, whatever its fetch gives and whatever the
\* others remember before it comes back; but for one thing the code does let
\* happen: an answer to a refresh of an earlier instant, asked first and come
\* late, replaces that reading with windows counted from then and over by now.
\* (internal/cli/quota_online.go:46, rememberQuota)
NoGaugeIsBlanked ==
    \A r \in Refresher : refresh[r].pc \in {"title", "popover"} =>
        \A p \in refresh[r].kept : \E s \in Shown(r) : s.provider = p

\* A forecast says a window runs out exactly when the pace reaches the limit by
\* its reset, it then names a time no later than the reset, and the gauge warns.
\* What Claude answers out of range is a sentinel and makes no gauge.
\* (internal/lines/lines.go: Project; severity.go: Classify)
ForecastIsSound ==
    \A r \in Refresher : refresh[r].pc = "title" =>
        \A g \in Reading(r).gauges :
            LET f == g.projection
            IN /\ f.breaches <=> (f.projected >= Limit)
               /\ f.breaches => f.eta <= g.resets - refresh[r].at /\ g.severity >= SevWarn
               /\ g.used >= CritAt => g.severity = SevCrit
               /\ g.provider = "claude" => g.used \in 0 .. Limit

\* Title and popover are set one after the other, so two refreshes can leave the
\* bar with the halves of each; the ticker makes them agree again and again.
\* (cmd/aispend-bar/main.go:64, doRefresh)
BarAgrees == []<>(bar.title = TitleOf(bar.popover))

==============================================================================
