----------------------------- MODULE MCSyncLock ------------------------------
(***************************************************************************)
(* A daemon and two sync commands.                                          *)
(***************************************************************************)
EXTENDS SyncLock

MCProc == {"daemon", "sync1", "sync2"}
MCDaemon == {"daemon"}

==============================================================================
