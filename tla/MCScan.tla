-------------------------------- MODULE MCScan -------------------------------
(***************************************************************************)
(* A daemon and one command at a time beside it, one log per provider.      *)
(***************************************************************************)
EXTENDS Scan

MCProc == {"daemon", "cli"}
MCDaemon == {"daemon"}
MCKindsOf == [p \in MCProc |-> IF p = "daemon" THEN {"incremental"} ELSE Kind \ {"incremental"}]
MCFile == {"session", "rollout"}
MCOrder == <<"claude_code", "codex">>
MCOwner == [f \in MCFile |-> IF f = "session" THEN "claude_code" ELSE "codex"]

==============================================================================
