-------------------------------- MODULE Report --------------------------------
(***************************************************************************)
(* What the surfaces say about one ledger.  Turns are recorded and priced,  *)
(* the clock runs, plans are chosen, the rate table changes under the       *)
(* ledger; `report`, `today`, `budget`, the menu bar and the explorer each  *)
(* read the ledger on their own and must tell the same story.  Reading      *)
(* changes nothing, so the surfaces are operators over a state.             *)
(*                                                                          *)
(* Providers, models, sessions, repositories and files are numbers, in the  *)
(* order of their names.                                                    *)
(***************************************************************************)
EXTENDS Pricing

CONSTANTS Provider,
          Unknown,            \* no session, no repository, no file named
          Shape,              \* what a turn may be: every field but id and ts
          Rates,              \* rates of each table: [table -> [model -> rate]]
          Plan,               \* the plans a provider may have
          Moments,            \* when the clock is read
          WorkAt,             \* bound: when turns are recorded
          MaxTurns,           \* bound
          BudgetLimit, Hour, Zone, TrendDays

ASSUME ReportAssumption ==
    /\ Moments \subseteq Nat /\ WorkAt \subseteq Moments
    /\ MaxTurns \in Nat /\ BudgetLimit \in Nat /\ Zone \in Nat
    /\ Hour \in Nat \ {0} /\ TrendDays \in Nat \ {0}
    /\ Provider \subseteq Int /\ IsFiniteSet(Provider) /\ Unknown \in Int
    \* The calendar holds the year before every moment.
    /\ \A t \in Moments : t < EndOfTime /\ MonthOf(t) > MonthsPerYear
    \* normalize.go names each file of a turn once.
    /\ \A shape \in Shape :
          /\ shape.provider \in Provider
          /\ shape.model \in Int /\ shape.session \in Int /\ shape.repo \in Int
          /\ shape.files \in Seq(Int) /\ IsInjective(shape.files)
          /\ shape.tokens \in [Class -> Int]
          /\ shape.reported \in Int \cup {NoCost}
    /\ \A pl \in Plan :
          /\ pl.fee \in Nat
          /\ pl.start \in {ZeroTime} \cup {d \in 0 .. EndOfTime - 1 : d % Day = 0}
    /\ \A t \in DOMAIN Rates : \A m \in DOMAIN Rates[t] :
          Rates[t][m] \in [RateClass -> Nat]

VARIABLES ledger,   \* set of turns, each with an id
          now,
          plan,     \* [Provider -> Plan]: config.toml, read anew each time
          table     \* the rate table a surface would load

vars == <<ledger, now, plan, table>>

Turn(id, shape) ==
    [ id |-> id, ts |-> now, provider |-> shape.provider, model |-> shape.model,
      session |-> shape.session, repo |-> shape.repo, files |-> shape.files,
      tokens |-> shape.tokens, reported |-> shape.reported,
      api |-> NoCost, method |-> "inferred" ]

Init == /\ ledger = {}
        /\ now \in Moments
        /\ plan = [p \in Provider |-> ApiPlan]
        /\ table \in DOMAIN Rates

\* A scan imports a turn and prices it with the table in force.
Work == /\ Cardinality(ledger) < MaxTurns
        /\ now \in WorkAt
        /\ \E shape \in Shape :
              ledger' = ledger \cup {Price(Turn(Cardinality(ledger) + 1, shape), Rates[table])}
        /\ UNCHANGED <<now, plan, table>>

Pass == /\ \E t \in Moments : now < t /\ now' = t
        /\ UNCHANGED <<ledger, plan, table>>

ChoosePlan == /\ \E p \in Provider, pl \in Plan : plan' = [plan EXCEPT ![p] = pl]
              /\ UNCHANGED <<ledger, now, table>>

\* A fetched table is cached and every stored turn priced again ...
Refresh == /\ \E t \in DOMAIN Rates \ {table} :
                 /\ table' = t
                 /\ ledger' = {Price(e, Rates[t]) : e \in ledger}
           /\ UNCHANGED <<now, plan>>

\* ... or the process ends between the two.
RefreshCut == /\ \E t \in DOMAIN Rates \ {table} : table' = t
              /\ UNCHANGED <<ledger, now, plan>>

Next == Work \/ Pass \/ ChoosePlan \/ Refresh \/ RefreshCut

Spec == Init /\ [][Next]_vars

----------------------------------------------------------------------------
(* Views and sums.                                                          *)

View == {"api_equivalent", "estimated", "reported"}

PickView(e, view) == IF view = "reported" THEN e.reported ELSE e.api

Priced(events, view) == {e \in events : PickView(e, view) # NoCost}

Cost(events, view) == MapThenSumSet(LAMBDA e : PickView(e, view), Priced(events, view))

Query(win) == {e \in ledger : InWindow(e.ts, win)}

----------------------------------------------------------------------------
(* `report`: group, add up, explain.                                        *)

By == {"model", "provider", "repo", "session", "file"}

GroupKey(e, by) == CASE by = "provider" -> e.provider
                     [] by = "repo"     -> e.repo
                     [] by = "session"  -> e.session
                     [] OTHER           -> e.model

\* One group and the whole cost, except by file: the cost split among the
\* files the turn touched, the remainder on the first.
Groups(e, by) == IF by # "file" THEN {GroupKey(e, by)}
                 ELSE IF e.files = <<>> THEN {Unknown} ELSE Range(e.files)

\* Mutant: every file an equal share, the remainder to none.
EvenContribution(e, by, micros, key) ==
    IF by # "file" \/ e.files = <<>> THEN micros ELSE Quot(micros, Len(e.files))

Contribution(e, by, micros, key) ==
    IF by # "file" \/ e.files = <<>> THEN micros
    ELSE LET base == Quot(micros, Len(e.files))
         IN IF key = e.files[1] THEN base + micros - base * Len(e.files) ELSE base

Keys(events, by) == UNION {Groups(e, by) : e \in events}

Rows(events, by, view) ==
    [key \in Keys(Priced(events, view), by) |->
        MapThenSumSet(LAMBDA e : Contribution(e, by, PickView(e, view), key),
                      {e \in Priced(events, view) : key \in Groups(e, by)})]

AggregateReport(events, by, view) ==
    [ rows    |-> Rows(events, by, view),
      total   |-> Cost(events, view),
      n       |-> Cardinality(Priced(events, view)),
      skipped |-> Cardinality(events \ Priced(events, view)) ]

\* The breakdown is worked out anew, from the table in force now.
Rated(events) == {e \in events : e.model \in DOMAIN Rates[table]}

Breakdown(events) ==
    [c \in Class |->
        MapThenSumSet(LAMBDA e : Components(Rates[table][e.model], e.tokens)[c],
                      Rated(events))]

TotalComponents(events) == Breakdown(events)

\* No row of files has a breakdown, and no row whose breakdown is worth nothing.
RowComponents(events, by) ==
    [key \in IF by = "file" THEN {} ELSE Keys(Rated(events), by) |->
        Breakdown({e \in events : key \in Groups(e, by)})]

----------------------------------------------------------------------------
(* `report --view amortized` and the explorer's amortized lens.             *)

Times(events) == {e.ts : e \in events}

SpanStart(events) == IF events = {} THEN ZeroTime ELSE Min(Times(events))
SpanDays(events)  == IF events = {} THEN 1
                     ELSE DayCount(Min(Times(events)), Max(Times(events))) + 1

LegacyDays(events, win) ==
    IF win.since = ZeroTime THEN SpanDays(events) ELSE Max({0, DayCount(win.since, win.until)})

WinSince(events, win) == IF win.since = ZeroTime THEN SpanStart(events) ELSE win.since

\* By file, too, the groups of this view are the models.
Basis(events, prov, by) ==
    LET own == {e \in Priced(events, "api_equivalent") : e.provider = prov}
    IN [g \in {GroupKey(e, by) : e \in own} |->
           Cost({e \in own : GroupKey(e, by) = g}, "api_equivalent")]

ProviderFee(events, win, prov) ==
    ProratePlan(plan[prov], WinSince(events, win), win.until, LegacyDays(events, win))

\* Providers whose fee is handed out: a plan that charges the window and
\* something to hand it out by; their groups get their shares.
HandOut(fee, basis) ==
    LET covered == {p \in Provider : fee[p] # NoFee /\ SumFunction(basis[p]) > 0}
        share   == [p \in covered |-> Allocate(fee[p], basis[p])]
    IN [ total |-> MapThenSumSet(LAMBDA p : fee[p], covered),
         rows  |-> [g \in UNION {DOMAIN basis[p] : p \in Provider} |->
                       MapThenSumSet(LAMBDA p : share[p][g],
                                     {p \in covered : g \in DOMAIN basis[p]})] ]

AllocatedRows(events, win, by) ==
    HandOut([p \in Provider |-> ProviderFee(events, win, p)],
            [p \in Provider |-> Basis(events, p, by)])

\* The explorer's rows: a session, cut at midnight.  A row's number orders as
\* its key does, by session and then by day.
SessionRow(e) == e.session * EndOfTime + StartOfDay(e.ts)
RowDay(row) == row % EndOfTime
SessionRows(events) == {SessionRow(e) : e \in {x \in events : x.session # Unknown}}
TurnsOf(events, row) == {e \in events : e.session # Unknown /\ SessionRow(e) = row}
RowProvider(events, row) ==
    (CHOOSE e \in TurnsOf(events, row) :
        \A x \in TurnsOf(events, row) :
            e.ts < x.ts \/ (e.ts = x.ts /\ e.id <= x.id)).provider

DaySubtotal(events, day, view) ==
    MapThenSumSet(LAMBDA row : Cost(TurnsOf(events, row), view),
                  {row \in SessionRows(events) : RowDay(row) = day})

Charging(fee) == Restrict(fee, {p \in DOMAIN fee : fee[p] \notin {NoFee, 0}})

\* All time needs a billing anchor here, where the report would prorate flat.
AmortizedByProvider(events, win) ==
    LET anchored(p) == win.since # ZeroTime \/ plan[p].start # ZeroTime
    IN Charging([p \in {p \in {e.provider : e \in events} : anchored(p)} |->
                    ProviderFee(events, win, p)])

ExplorerRows(events, amortized) ==
    LET basis(p) == [r \in {r \in SessionRows(events) : RowProvider(events, r) = p} |->
                        Cost(TurnsOf(events, r), "api_equivalent")]
        share    == [p \in DOMAIN amortized |-> Allocate(amortized[p], basis(p))]
    IN [r \in SessionRows(events) |->
           LET p == RowProvider(events, r)
           IN IF p \in DOMAIN amortized THEN share[p][r] ELSE 0]

----------------------------------------------------------------------------
(* `budget`, `today` and the menu bar.                                      *)

\* The run rate to the end of the month, rounded to a micro.
ComputePace(limit, spent, start, end) ==
    LET elapsed == now - start
    IN [ spent     |-> spent,
         limit     |-> limit,
         projected |-> IF elapsed <= 0 THEN spent
                       ELSE Quot(2 * spent * (end - start) + elapsed, 2 * elapsed) ]

BudgetPace ==
    LET month == MonthBounds(now)
    IN ComputePace(BudgetLimit, Cost(Query(Window(month.start, now)), "api_equivalent"),
                   month.start, month.end)

OverPace(p) == p.limit > 0 /\ p.projected > p.limit

TodayTotal == Cost(Query(This("day", now)), "api_equivalent")

\* The bill as if nothing were cached, from the table in force now, beside a
\* spend from the ledger; a loss is not shown.
Without(events) ==
    MapThenSumSet(LAMBDA e : WithoutCache(Rates[table][e.model], e.tokens), Rated(events))

CacheSaved(without, spent) == IF without > 0 /\ without > spent THEN without - spent ELSE 0

\* Buckets by the local clock's hours, from the hour of UTC midnight to now's.
TruncHour(t) == Hour * ((t + Zone) \div Hour) - Zone

HourlyBuckets(events) ==
    LET start == TruncHour(StartOfDay(now))
        n     == (TruncHour(now) - start) \div Hour + 1
    IN [i \in 1 .. n |->
           Cost({e \in events : (TruncHour(e.ts) - start) \div Hour = i - 1}, "api_equivalent")]

\* Mutant: one day too many.
TrendSinceTheDayBefore == StartOfDay(now) - TrendDays * Day

\* The menu bar's last days, oldest first, and its figure for today.
TrendSince == StartOfDay(now) - (TrendDays - 1) * Day

Trend(prov) ==
    LET own   == {e \in Query(Window(TrendSince, now)) : e.provider = prov}
        day(e) == Min({TrendDays - 1, Max({0, DayCount(TrendSince, StartOfDay(e.ts))})})
    IN [i \in 1 .. TrendDays |->
           Cost({e \in own : day(e) = i - 1}, "api_equivalent")]

TurnsToday(prov) ==
    {e \in Query(Window(TrendSince, now)) : e.provider = prov /\ e.ts >= StartOfDay(now)}

SpendToday(prov) == Cost(TurnsToday(prov), "api_equivalent")

\* What each provider's card shows: nothing for one that spent nothing today.
Card(prov) ==
    [ saved |-> CacheSaved(Without(TurnsToday(prov)), SpendToday(prov)),
      trend |-> Trend(prov) ]

Cards == [p \in {p \in Provider : SpendToday(p) > 0} |-> Card(p)]

----------------------------------------------------------------------------
(* Properties.                                                              *)

Windows == {This(u, now) : u \in Unit} \cup {Last(u, now) : u \in Unit}
             \cup {LastDays(2, now), AllTime(now),
                   Between(StartOfDay(now) - Day, StartOfDay(now))}

TypeOK == /\ now \in Moments
          /\ plan \in [Provider -> Plan \cup {ApiPlan}]
          /\ table \in DOMAIN Rates
          /\ Cardinality(ledger) <= MaxTurns
          /\ \A e \in ledger : /\ e.ts \in WorkAt /\ e.ts <= now
                               /\ e.api \in -(MaxInt64 + 1) .. MaxInt64 \cup {NoCost}

\* The table in force rates the turn, or never was there a table that did, and
\* its cost is the table's.
PricedNow(e) == /\ e = Price(e, Rates[table])
                /\ e.api # NoCost => e.model \in DOMAIN Rates[table]

\* Every grouping of every window accounts for its whole total, files with
\* their remainders included, and turns without a cost are counted apart; the
\* breakdown by token class reconciles with total and rows whenever the ledger
\* was priced with the table the breakdown is worked out from.
\* (internal/cli/report.go: aggregateReport, groupContributions, attachComponents)
RowsAddUp ==
    \A events \in {Query(win) : win \in Windows}, by \in By, view \in View :
        LET agg == AggregateReport(events, by, view)
        IN /\ SumFunction(agg.rows) = agg.total
           /\ agg.n + agg.skipped = Cardinality(events)
           /\ (\A e \in events : PricedNow(e)) /\ view # "reported"
              => /\ Wrap(SumFunction(TotalComponents(events))) = Wrap(agg.total)
                 /\ \A key \in DOMAIN RowComponents(events, by) :
                       Wrap(SumFunction(RowComponents(events, by)[key])) = Wrap(agg.rows[key])

\* The cost in integers without an end, for comparison.
Exact(tokens, rate) == IF tokens <= 0 \/ rate <= 0 THEN 0 ELSE (tokens * rate) \div Million

ExactCost(r, tk) ==
    LET dearer == OneHour(tk)
    IN Exact(tk.input, r.input) + Exact(tk.output, r.output)
         + Exact(tk.cacheRead, r.cacheRead)
         + Exact(tk.cacheWrite - dearer, r.cacheWrite) + Exact(dearer, 2 * r.input)

\* The price of a turn is the true cost whenever that fits an int64 (and the rate
\* of the dearer tier does), and its components add up to it; the two tiers of a
\* cache write are a split of what was written, neither of them negative.
\* (internal/pricing/pricing.go: Price, Components, micros, splitCacheWrite)
PriceIsExactWhenItFits ==
    \A e \in ledger :
        /\ e.model \in DOMAIN Rates[table] =>
              LET r == Rates[table][e.model]
              IN ExactCost(r, e.tokens) <= MaxInt64 /\ 2 * r.input <= MaxInt64
                 => /\ ApiEquivalent(r, e.tokens) = ExactCost(r, e.tokens)
                    /\ ComponentsTotal(Components(r, e.tokens)) = ExactCost(r, e.tokens)
        /\ e.tokens.cacheWrite >= 0 =>
              OneHour(e.tokens) >= 0 /\ OneHour(e.tokens) <= e.tokens.cacheWrite

SharesOfReport(view) == SumFunction(view.rows) = view.total

SharesOfExplorer(events, amortized, rows) ==
    \A p \in DOMAIN amortized :
        LET own   == {r \in DOMAIN rows : RowProvider(events, r) = p}
            basis == Cost(UNION {TurnsOf(events, r) : r \in own}, "api_equivalent")
        IN SumFunctionOnSet(rows, own) = (IF basis > 0 THEN amortized[p] ELSE 0)

\* A window's fee is handed out once and whole: the rows of the amortized view
\* add up to the fees of the covered providers, and the explorer's sessions of a
\* provider to its fee, as long as they cost something: zero bases, ties and
\* wrapped negative costs included.
\* (internal/cli/cli.go: renderAllocated; internal/tui/tui.go: buildRows;
\* internal/pricing/pricing.go: Allocate)
FeeHandedOutOnce ==
    \A win \in Windows : \A events \in {Query(win)} \ {{}} :
        /\ \A by \in By \ {"file"} : SharesOfReport(AllocatedRows(events, win, by))
        /\ \A amortized \in {AmortizedByProvider(events, win)} :
              SharesOfExplorer(events, amortized, ExplorerRows(events, amortized))

OrZero(fee) == IF fee = NoFee THEN 0 ELSE fee

FeeIn(pl, win) == OrZero(AmortizeSubscription(pl, win.since, win.until))

Meet(last, this, both) ==
    /\ \A view \in View : Cost(Query(last), view) + Cost(Query(this), view)
                              = Cost(Query(both), view)
    /\ \A pl \in Range(plan) :
          \A parts \in {FeeIn(pl, last) + FeeIn(pl, this)},
             whole \in {FeeIn(pl, both)} :
                parts <= whole /\ whole <= parts + pl.fee \div Min(Range(MonthLen)) + 4

\* The last unit and this one meet without a gap or an overlap: what each
\* reports adds up to what a window over both does; and the fees of the two are
\* never more than the fee of both, nor less by more than a day's share.
\* (internal/cli/period.go: parsePeriod; internal/pricing: AmortizeSubscription)
AdjacentWindowsAddUp ==
    \A u \in Unit : \A last \in {Last(u, now)} :
        Meet(last, This(u, now), SinceDay(last.since, now))

\* The surfaces agree: today's headline, its hours, the menu bar's figure and
\* the report of the day; the budget's spending and the report of the month (a
\* limit of 0 is no budget); the menu bar's trend and the report of its days; and
\* a day's subtotal in the explorer is the same in every window that holds the day.
\* (internal/cli/today.go, usage.go; internal/tui/session_list.go:94)
SurfacesAgree ==
    LET day   == AggregateReport(Query(This("day", now)), "provider", "api_equivalent")
        month == AggregateReport(Query(This("month", now)), "model", "api_equivalent")
        days  == AggregateReport(Query(LastDays(TrendDays, now)), "provider", "api_equivalent")
    IN /\ TodayTotal = day.total
       /\ SumFunction(HourlyBuckets(Query(This("day", now)))) = day.total
       /\ BudgetPace.spent = month.total
       /\ BudgetLimit > 0 /\ month.total > BudgetLimit => OverPace(BudgetPace)
       /\ (\A p \in DOMAIN Cards : Cards[p].saved > 0) /\ DOMAIN Cards = Provider
          => CacheSaved(Without(Query(This("day", now))), TodayTotal)
                = MapThenSumSet(LAMBDA p : Cards[p].saved, DOMAIN Cards)
       /\ \A p \in Provider :
             /\ SpendToday(p) = (IF p \in DOMAIN day.rows THEN day.rows[p] ELSE 0)
             /\ SumFunction(Trend(p)) = (IF p \in DOMAIN days.rows THEN days.rows[p] ELSE 0)
             /\ Trend(p)[TrendDays] = SpendToday(p)
       /\ \A d \in {StartOfDay(e.ts) : e \in ledger}, view \in View :
             \A w1, w2 \in {w \in Windows : w.since <= d /\ d + Day - 1 <= w.until} :
                 DaySubtotal(Query(w1), d, view) = DaySubtotal(Query(w2), d, view)

\* A test of the repository says that a full billing cycle bills the whole fee
\* (internal/pricing/pricing_test.go:284); `--period "last month"` of a plan
\* that bills on the first is one.
LastMonthBillsTheFee ==
    \A pl \in Range(plan) :
        LET win == Last("month", now)
        IN pl.start = win.since
              => AmortizeSubscription(pl, win.since, win.until) = pl.fee

==============================================================================
