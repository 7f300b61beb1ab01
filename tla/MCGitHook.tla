------------------------------ MODULE MCGitHook -------------------------------
(***************************************************************************)
(* A clone and a linked worktree, three changes by others and one fault:    *)
(* room for an install, an update, a racing hook manager and an uninstall.  *)
(***************************************************************************)
EXTENDS GitHook
==============================================================================
