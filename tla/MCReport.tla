------------------------------ MODULE MCReport -------------------------------
(***************************************************************************)
(* Two years of four short months, days of four instants, amounts up to     *)
(* 127: two rate tables, a model without a rate, turns over several files,  *)
(* and a log line with absurd token counts.                                 *)
(***************************************************************************)
EXTENDS Report, TLC

MCMonthLen == <<3, 1, 2, 2, 3, 1, 2, 2, 3>>
MCMoments == {32, 44, 47, 48}
MCWorkAt == {32, 47}
MCProvider == {1, 2}

Tokens(i, o, r, w, h) == [input |-> i, output |-> o, cacheRead |-> r,
                          cacheWrite |-> w, cacheWrite1h |-> h]

MCShape ==
    { [provider |-> 1, model |-> 1, session |-> 1, repo |-> 1, files |-> <<1, 2, 3>>,
       tokens |-> Tokens(3, 2, 5, 4, 1), reported |-> NoCost],
      [provider |-> 1, model |-> 2, session |-> 2, repo |-> 0, files |-> <<2>>,
       tokens |-> Tokens(1, 3, 0, 0, 0), reported |-> 7],
      [provider |-> 2, model |-> 3, session |-> 0, repo |-> 1, files |-> <<>>,
       tokens |-> Tokens(5, 5, 0, 1, 1), reported |-> NoCost],
      [provider |-> 2, model |-> 1, session |-> 3, repo |-> 2, files |-> <<1, 3>>,
       tokens |-> Tokens(120, -5, 0, 2, 9), reported |-> NoCost] }

MCRates == << 1 :> [input |-> 3, output |-> 5, cacheRead |-> 1, cacheWrite |-> 4]
                @@ 2 :> [input |-> 2, output |-> 4, cacheRead |-> 1, cacheWrite |-> 3],
              1 :> [input |-> 2, output |-> 9, cacheRead |-> 0, cacheWrite |-> 7]
                @@ 3 :> [input |-> 100, output |-> 0, cacheRead |-> 0, cacheWrite |-> 0] >>

MCPlan == {[kind |-> "subscription", fee |-> 40, start |-> s] : s \in {ZeroTime, 8}}

\* A plan that bills on the first of the month that is over at instant 44.
MCPlanOnTheFirst == {[kind |-> "subscription", fee |-> 40, start |-> 32]}

==============================================================================
