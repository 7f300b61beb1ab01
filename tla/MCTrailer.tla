------------------------------ MODULE MCTrailer ------------------------------
(***************************************************************************)
(* A small repository for TLC: two branches, two providers, and turns that  *)
(* tie on a timestamp, name a branch or a detached HEAD, or have no rate    *)
(* yet.                                                                     *)
(***************************************************************************)
EXTENDS Trailer

MCEvent == 1 .. 3
MCBranch == {"main", "dev"}
MCProvider == {"claude_code", "codex"}
MCTS == <<1, 2, 2>>
MCBranchOf == <<"main", "main", "none">>
MCProviderOf == <<"claude_code", "codex", "claude_code">>
MCDetached == {3}
MCRated == {1, 3}

==============================================================================
