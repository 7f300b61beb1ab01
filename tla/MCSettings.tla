----------------------------- MODULE MCSettings -----------------------------
(***************************************************************************)
(* One explorer and one command, three sets: plans of two providers, a      *)
(* budget, the trailers.                                                    *)
(***************************************************************************)
EXTENDS Settings, TLC

MCProviders == <<"claude_code", "codex">>
MCPlans == <<"claude-max", "chatgpt-pro", "api">>
MCFee == "claude-max" :> 100 @@ "chatgpt-pro" :> 200

\* Written by hand: no plan of their own for the providers, but a fee and a start.
MCConfigFiles ==
    { << Entry(StartKey("codex"), 0), Note, Entry(PlanKey(Default), "claude-max"),
         Entry(RefreshKey, "off"), Entry(FeeKey("codex"), 20) >> }

MCRepoFiles ==
    { << Entry("project", "payments"), Header("trailers"), Entry("precision", 12),
         Header("trailers.rename"), Entry("cost", "Cost"), Header("labels"),
         Entry("cost_tag", "api") >> }

MCTrailerSettings ==
    { DefaultTrailers,
      [enabled |-> "false", shows |-> "tokens", precision |-> 0, name |-> "Spend"] }

==============================================================================
