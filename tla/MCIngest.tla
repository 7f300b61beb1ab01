------------------------------ MODULE MCIngest -------------------------------
(***************************************************************************)
(* Two responses, two transcripts of which one may start as a copy of the   *)
(* other, two rollouts; one model the embedded table rates and one that the *)
(* first table fetched rates and the second does not list.                  *)
(***************************************************************************)
EXTENDS Ingest, TLC

CONSTANTS m1, m2

MCMsg == {m1, m2}
MCModel == {"known", "new"}
MCModelOf == [m \in MCMsg |-> IF m = m1 THEN "known" ELSE "new"]
MCLive == <<{"new"}, {"known"}>>

\* The transcripts differ only in what is written to them.
Transcripts == Permutations(ClaudeFile)

==============================================================================
