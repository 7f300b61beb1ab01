------------------------------- MODULE Pricing -------------------------------
(***************************************************************************)
(* The money arithmetic of internal/pricing: integer micros of 64 bits,     *)
(* token counts priced class by class, a subscription fee spread over a     *)
(* window and handed out in proportion.  Nothing here has a state: Report   *)
(* runs these operators over a ledger.                                      *)
(*                                                                          *)
(* MaxInt64 and Million are constants, so that a small instance reaches the *)
(* ends of the range.                                                       *)
(***************************************************************************)
EXTENDS Calendar, Functions

CONSTANTS MaxInt64,     \* the largest amount and token count
          Million,      \* rates are prices of this many tokens
          NoCost,       \* a view that cannot be computed: never a zero
          NoFee         \* the fee functions' second result is false

ASSUME PricingAssumption ==
    /\ MaxInt64 \in Nat \ {0} /\ Million \in Nat \ {0}
    /\ NoCost \notin Int /\ NoFee \notin Int

\* Go's + on int64: two's complement.
Wrap(x) == ((x + MaxInt64 + 1) % (2 * (MaxInt64 + 1))) - (MaxInt64 + 1)

\* Go's / on int64: towards zero.
Quot(a, b) == IF a >= 0 THEN a \div b ELSE -((-a) \div b)

----------------------------------------------------------------------------
(* Tokens to micros.                                                        *)

Class == {"input", "output", "cacheRead", "cacheWrite", "cacheWrite1h"}

RateClass == Class \ {"cacheWrite1h"}      \* the dearer tier has none of its own

\* A negative count or rate is worth nothing, a product too large the maximum.
Micros(tokens, perMTok) ==
    IF tokens <= 0 \/ perMTok <= 0 THEN 0
    ELSE LET q == (tokens * perMTok) \div Million
         IN IF q > MaxInt64 THEN MaxInt64 ELSE q

AddSat(a, b) ==
    LET x == IF a < 0 THEN 0 ELSE a
        y == IF b < 0 THEN 0 ELSE b
    IN IF x > MaxInt64 - y THEN MaxInt64 ELSE x + y

\* The rate of the dearer tier: twice the input rate, as an int64.
OneHourRate(r) == Wrap(2 * r.input)

\* Mutant: the dearer tier is not clamped to what was written.
OneHourUnclamped(tk) == tk.cacheWrite1h

\* tk.cacheWrite counts both tiers, tk.cacheWrite1h the dearer one.
OneHour(tk) == LET h == IF tk.cacheWrite1h > tk.cacheWrite THEN tk.cacheWrite
                        ELSE tk.cacheWrite1h
               IN IF h < 0 THEN 0 ELSE h
FiveMin(tk) == tk.cacheWrite - OneHour(tk)

\* Mutant: the five terms are added in a wider type.
ApiEquivalentWide(r, tk) ==
    Micros(tk.input, r.input) + Micros(tk.output, r.output)
        + Micros(tk.cacheRead, r.cacheRead) + Micros(FiveMin(tk), r.cacheWrite)
        + Micros(OneHour(tk), OneHourRate(r))

\* The sum Price stores: five saturated terms, added as int64.
ApiEquivalent(r, tk) ==
    Wrap( Micros(tk.input, r.input) + Micros(tk.output, r.output)
        + Micros(tk.cacheRead, r.cacheRead) + Micros(FiveMin(tk), r.cacheWrite)
        + Micros(OneHour(tk), OneHourRate(r)) )

\* The same cost taken apart again, to explain it.
Components(r, tk) ==
    [ input        |-> Micros(tk.input, r.input),
      output       |-> Micros(tk.output, r.output),
      cacheRead    |-> Micros(tk.cacheRead, r.cacheRead),
      cacheWrite   |-> Micros(FiveMin(tk), r.cacheWrite),
      cacheWrite1h |-> Micros(OneHour(tk), OneHourRate(r)) ]

ComponentsTotal(c) ==
    Wrap(c.input + c.output + c.cacheRead + c.cacheWrite + c.cacheWrite1h)

WithoutCache(r, tk) ==
    Wrap( Micros(AddSat(AddSat(tk.input, tk.cacheRead), tk.cacheWrite), r.input)
        + Micros(tk.output, r.output) )

\* Price on a turn, with the rates of the table in force: an unrated model
\* leaves the views as they were, a positive cost the tool reported names the method.
Price(turn, rates) ==
    LET reported == turn.reported # NoCost /\ turn.reported > 0
        known    == turn.model \in DOMAIN rates
        total    == ApiEquivalent(rates[turn.model], turn.tokens)
    IN [turn EXCEPT !.api    = IF known THEN total ELSE @,
                    !.method = IF reported THEN "reported"
                               ELSE IF known THEN "token_priced" ELSE "inferred"]

----------------------------------------------------------------------------
(* A plan is [kind, fee, start]: start is a day's first tick, or ZeroTime   *)
(* when it is not known.                                                    *)

ApiPlan == [kind |-> "api", fee |-> 0, start |-> ZeroTime]

ProratedFee(plan, days) ==
    IF plan.kind # "subscription" \/ days <= 0 THEN NoFee
    ELSE (plan.fee * days) \div 30

Charge(fee, days, cycleLen) ==
    IF days > 0 /\ cycleLen > 0 THEN (fee * days) \div cycleLen ELSE 0

\* Each billing cycle the window meets charges its whole days of the window,
\* at the fee divided by the cycle's own length.
CycleCharge(plan, n, from, until) ==
    LET cs == AddMonthsClamped(plan.start, n)
        ce == AddMonthsClamped(plan.start, n + 1)
    IN Charge(plan.fee, DayCount(Max({cs, from}), Min({ce, until})), DayCount(cs, ce))

OrNoFee(total) == IF total = 0 THEN NoFee ELSE total

AmortizeSubscription(plan, since, until) ==
    LET from   == Max({since, plan.start})
        cycles == {n \in 0 .. CyclesAfter(plan.start) :
                      AddMonthsClamped(plan.start, n) < until}
    IN IF plan.kind # "subscription" \/ plan.start = ZeroTime \/ until <= from THEN NoFee
       ELSE OrNoFee(MapThenSumSet(LAMBDA n : CycleCharge(plan, n, from, until), cycles))

\* The flat share of an unknown start, the cycles of a known one.
ProratePlan(plan, since, until, legacyDays) ==
    IF plan.start # ZeroTime THEN AmortizeSubscription(plan, since, until)
    ELSE ProratedFee(plan, legacyDays)

\* Mutant: what rounding leaves over is lost.
AllocateRounded(total, basis) ==
    [k \in DOMAIN basis |-> IF SumFunction(basis) <= 0 THEN 0
                            ELSE Quot(total * basis[k], SumFunction(basis))]

\* Largest remainder in one step: what rounding left over goes to the largest
\* basis, the first key in order among equals (keys are numbers here).
Allocate(total, basis) ==
    LET sum     == SumFunction(basis)
        share   == [k \in DOMAIN basis |-> Quot(total * basis[k], sum)]
        largest == CHOOSE k \in DOMAIN basis :
                      \A j \in DOMAIN basis \ {k} :
                         \/ basis[j] < basis[k]
                         \/ basis[j] = basis[k] /\ k < j
    IN IF sum <= 0 THEN [k \in DOMAIN basis |-> 0]
       ELSE [share EXCEPT ![largest] = @ + total - SumFunction(share)]

==============================================================================
