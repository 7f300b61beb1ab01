------------------------------- MODULE GitHook --------------------------------
(***************************************************************************)
(* `aispend git install | uninstall | status` (internal/githook) over the   *)
(* hook files of one clone and a linked worktree of it, with the user and   *)
(* hook managers changing hooks and core.hooksPath at any moment.  Each     *)
(* file operation is a step of its own, and may fail or be the last; a read *)
(* that fails is taken for "nothing there" and the command goes on.         *)
(*                                                                         *)
(* A hook is told apart by whose it is and whether it calls aispend.  What  *)
(* a manager runs from its own files is modelled as the hook it installs.   *)
(***************************************************************************)
EXTENDS Naturals

CONSTANTS
  MaxTouches,   \* bound: hooks and settings changed by others
  MaxFaults     \* bound: failed operations and commands killed

ASSUME HookBounds == MaxTouches \in Nat /\ MaxFaults \in Nat

VARIABLES
  hook,       \* what is in each hook file
  exec,       \* the hook files with their executable bit
  managed,    \* core.hooksPath is set
  cmd,        \* the command under way
  from,       \* the working tree it was started in
  dir,        \* the hooks directory it works on
  pc, at,     \* where it is, and at which of the two hooks
  removed,    \* hooks it has removed
  report,     \* the Kind the last command reported, or none
  touches, faults,
  \* History, read by no action's guard:
  found,      \* the hooks as they were when the command began
  theirs,     \* the hooks that were somebody else's when it read them, or still are to be read
  calm        \* nobody else changed anything and nothing failed since

fileVars == <<hook, exec>>
cmdVars == <<cmd, from, dir, pc, at, removed, report>>
countVars == <<touches, faults>>
historyVars == <<found, theirs, calm>>
vars == <<fileVars, managed, cmdVars, countVars, historyVars>>

-----------------------------------------------------------------------------
\* hookNames.
HookNames == <<"prepare-commit-msg", "post-commit">>
Name == {"prepare-commit-msg", "post-commit"}

\* The clone's .git/hooks, the hooks directory in a linked worktree's own git directory,
\* and the one core.hooksPath names.
Dir == {"common", "linked", "custom"}

\* ours carries the marker; wired is somebody else's and calls aispend; cut is what is
\* left of a write that stopped before the marker.
Content == {"none", "ours", "cut", "foreign", "wired"}
Foreign == {"foreign", "wired"}

Kind == {"none", "error", "installed", "managed", "wired", "refused", "uninstalled",
         "not_installed", "foreign"}

TypeOK ==
  /\ hook \in [Dir \X Name -> Content] /\ exec \subseteq Dir \X Name
  /\ managed \in BOOLEAN
  /\ cmd \in {"install", "uninstall", "status"} /\ from \in {"main", "linked"}
  /\ dir \in Dir /\ pc \in {"idle", "scan", "write", "chmod", "remove", "unlink"}
  /\ at \in 1 .. 2 /\ removed \in 0 .. 2 /\ report \in Kind
  /\ touches \in Nat /\ faults \in Nat
  /\ found \in [Dir \X Name -> Content] /\ theirs \subseteq Dir \X Name
  /\ calm \in BOOLEAN
  /\ \A f \in exec : hook[f] # "none"

Init ==
  /\ hook = [f \in Dir \X Name |-> "none"] /\ exec = {}
  /\ managed = FALSE
  /\ cmd = "status" /\ from = "main" /\ dir = "common" /\ pc = "idle" /\ at = 1
  /\ removed = 0 /\ report = "none"
  /\ touches = 0 /\ faults = 0
  /\ found = hook /\ theirs = {} /\ calm = TRUE

-----------------------------------------------------------------------------
(* git, the user and hook managers. *)

\* The directory git runs hooks from, in every working tree of the clone.
Effective == IF managed THEN "custom" ELSE "common"

\* A commit reaches aispend through this hook.
Fires(n) == hook[<<Effective, n>>] \in {"ours", "wired"} /\ <<Effective, n>> \in exec

\* The command has decided to write or to remove this hook, and has not done so yet.
Doomed(f) ==
  \E i \in 1 .. 2 :
    /\ f = <<dir, HookNames[i]>>
    /\ \/ pc = "scan" /\ i < at
       \/ pc = "write" /\ i >= at
       \/ pc = "chmod" /\ i > at
       \/ pc = "unlink" /\ i = at

Touch == touches < MaxTouches /\ touches' = touches + 1 /\ calm' = FALSE

\* Somebody writes, replaces or deletes a hook. Nobody else looks into a linked worktree.
TouchHook(f, c) ==
  /\ Touch
  /\ f[1] # "linked" /\ c \in Foreign \cup {"none"} /\ c # hook[f]
  /\ hook' = [hook EXCEPT ![f] = c]
  /\ exec' = IF c = "none" THEN exec \ {f} ELSE exec \cup {f}
  /\ theirs' = IF c = "none" THEN theirs \ {f}
               ELSE IF Doomed(f) THEN theirs ELSE theirs \cup {f}
  /\ UNCHANGED <<managed, cmdVars, faults, found>>

\* A hook is switched off, or on again.
TouchMode(f) ==
  /\ Touch
  /\ hook[f] # "none"
  /\ exec' = IF f \in exec THEN exec \ {f} ELSE exec \cup {f}
  /\ UNCHANGED <<hook, managed, cmdVars, faults, found, theirs>>

TouchHooksPath ==
  /\ Touch
  /\ managed' = ~managed
  /\ UNCHANGED <<fileVars, cmdVars, faults, found, theirs>>

-----------------------------------------------------------------------------
(* The commands. *)

Fault == faults < MaxFaults /\ faults' = faults + 1 /\ calm' = FALSE

File == <<dir, HookNames[at]>>

\* resolve: core.hooksPath first, else hooks/ in the git directory of this working tree.
HooksDir(where, set) ==
  IF set THEN "custom" ELSE IF where = "main" THEN "common" ELSE "linked"

\* wiringDetected: any one of the manager's hooks it can read mentions aispend.
WiringDetected(d, unread) == \E n \in Name \ unread : hook[<<d, n>>] \in {"ours", "wired"}

ManagedKind(d, unread) == IF WiringDetected(d, unread) THEN "wired" ELSE "managed"

\* A core.hooksPath that git does not tell, and a hook that cannot be read, are taken for
\* unset and for absent.
Start(c, where, set, unread) ==
  /\ pc = "idle" /\ (set => managed)
  /\ IF set = managed /\ unread = {} THEN calm' = TRUE /\ UNCHANGED faults ELSE Fault
  /\ cmd' = c /\ from' = where /\ dir' = HooksDir(where, set)
  /\ at' = 1 /\ removed' = 0
  /\ found' = hook /\ theirs' = {f \in Dir \X Name : hook[f] \in Foreign}
  /\ UNCHANGED <<fileVars, managed, touches>>

Done(kind) == pc' = "idle" /\ report' = kind /\ at' = 1

\* Install writes nothing where git would not look.
Install(where, set, unread) ==
  /\ Start("install", where, set, unread)
  /\ IF set
       THEN pc' = "idle" /\ report' = ManagedKind(dir', unread)
       ELSE unread = {} /\ pc' = "scan" /\ report' = "none"

Uninstall(where, set) ==
  /\ Start("uninstall", where, set, {})
  /\ pc' = "remove" /\ report' = "none"

\* Status reads only: one step.
Status(where, set, unread) ==
  /\ Start("status", where, set, unread)
  /\ pc' = "idle"
  /\ report' =
       LET ours == {n \in Name \ unread : hook[<<dir', n>>] = "ours"}
           others == {n \in Name \ unread : hook[<<dir', n>>] \in Foreign \cup {"cut"}} IN
       IF set THEN ManagedKind(dir', unread)
       ELSE IF ours = Name THEN "installed"
       ELSE IF others # {} THEN "foreign" ELSE "not_installed"

\* What a step of the loops over hookNames leaves alone.
Rest == UNCHANGED <<managed, cmd, from, dir>>

\* The next hook, or the end of this loop.
NextHook(place, last) == IF at = 1 THEN at' = 2 /\ pc' = place /\ UNCHANGED report ELSE last

\* readFile: a hook that cannot be read is taken for none.
Reads(body) ==
  /\ \/ body = hook[File] /\ UNCHANGED <<faults, calm>>
     \/ body = "none" /\ hook[File] # "none" /\ Fault
  /\ UNCHANGED <<touches, found>>

\* A hook taken for none is not known to be anybody's.
Unread(body) == theirs' = IF body = hook[File] THEN theirs ELSE theirs \ {File}

\* Mutant: one loop, in which each hook is looked at and written.
ScanAndWrite ==
  /\ pc = "scan"
  /\ IF hook[File] \notin {"none", "ours"}
       THEN Done("refused") /\ UNCHANGED fileVars
       ELSE /\ hook' = [hook EXCEPT ![File] = "ours"] /\ exec' = exec \cup {File}
            /\ NextHook("scan", Done("installed"))
  /\ Rest /\ UNCHANGED <<removed, countVars, historyVars>>

\* Mutant: only prepare-commit-msg is looked at.
ScanFirst ==
  /\ pc = "scan"
  /\ IF at = 1 /\ hook[File] \notin {"none", "ours"}
       THEN Done("refused")
       ELSE NextHook("scan", at' = 1 /\ pc' = "write" /\ UNCHANGED report)
  /\ Rest /\ UNCHANGED <<fileVars, removed, countVars, historyVars>>

\* The pre-scan: a hook without the marker ends the installation.
Scan ==
  /\ pc = "scan"
  /\ \E body \in Content :
       /\ Reads(body) /\ Unread(body)
       /\ IF body \notin {"none", "ours"}
            THEN Done("refused")
            ELSE NextHook("scan", at' = 1 /\ pc' = "write" /\ UNCHANGED report)
  /\ Rest /\ UNCHANGED <<fileVars, removed>>

\* WriteFile replaces what is there by now; the umask decides on a new file's mode.
Mode(f) == IF hook[f] = "none" THEN exec' \in {exec, exec \cup {f}} ELSE UNCHANGED exec

Write ==
  /\ pc = "write"
  /\ hook' = [hook EXCEPT ![File] = "ours"] /\ Mode(File)
  /\ pc' = "chmod"
  /\ Rest /\ UNCHANGED <<at, removed, report, countVars, historyVars>>

\* Mutant: the mode given to WriteFile is relied on.
ChmodNothing ==
  /\ pc = "chmod"
  /\ NextHook("write", Done("installed"))
  /\ Rest /\ UNCHANGED <<fileVars, removed, countVars, historyVars>>

Chmod ==
  /\ pc = "chmod"
  /\ IF hook[File] = "none"
       THEN Done("error") /\ UNCHANGED exec
       ELSE exec' = exec \cup {File} /\ NextHook("write", Done("installed"))
  /\ Rest /\ UNCHANGED <<hook, removed, countVars, historyVars>>

\* An installation that stops in WriteFile may leave the file empty.
WriteStops ==
  /\ pc = "write" /\ Fault
  /\ hook' = [hook EXCEPT ![File] = "cut"] /\ Mode(File)
  /\ Done("error")
  /\ Rest /\ UNCHANGED <<removed, touches, found, theirs>>

\* A write, chmod or removal that fails ends the command with an error, a killed one with nothing: both
\* leave what was done before.
Stops ==
  /\ pc # "idle" /\ Fault
  /\ Done("error")
  /\ Rest /\ UNCHANGED <<fileVars, removed, touches, found, theirs>>

\* The end of Uninstall's loop.
Counted(n) == Done(IF n = 0 THEN "not_installed" ELSE "uninstalled")

\* Uninstall reads a hook, and goes on to remove it when it carries the marker.
Look ==
  /\ pc = "remove"
  /\ \E body \in Content :
       /\ Reads(body) /\ UNCHANGED theirs
       /\ IF body = "ours"
            THEN pc' = "unlink" /\ UNCHANGED <<at, report>>
            ELSE NextHook("remove", Counted(removed))
  /\ Rest /\ UNCHANGED <<fileVars, removed>>

\* Mutant: the loop ends with the first hook removed.
RemoveOne ==
  /\ pc = "unlink"
  /\ hook' = [hook EXCEPT ![File] = "none"] /\ exec' = exec \ {File}
  /\ removed' = removed + 1 /\ Done("uninstalled")
  /\ Rest /\ UNCHANGED <<countVars, historyVars>>

\* What is there by now is removed.
Remove ==
  /\ pc = "unlink"
  /\ hook' = [hook EXCEPT ![File] = "none"] /\ exec' = exec \ {File}
  /\ IF hook[File] = "none"
       THEN Done("error") /\ UNCHANGED removed
       ELSE removed' = removed + 1 /\ NextHook("remove", Counted(removed'))
  /\ Rest /\ UNCHANGED <<countVars, historyVars>>

Next ==
  \/ \E f \in Dir \X Name, c \in Content : TouchHook(f, c)
  \/ \E f \in Dir \X Name : TouchMode(f)
  \/ TouchHooksPath
  \/ \E where \in {"main", "linked"}, set \in BOOLEAN, unread \in SUBSET Name :
       Install(where, set, unread) \/ Status(where, set, unread)
  \/ \E where \in {"main", "linked"}, set \in BOOLEAN : Uninstall(where, set)
  \/ Scan \/ Write \/ Chmod \/ Look \/ Remove \/ WriteStops \/ Stops

Spec == Init /\ [][Next]_vars

-----------------------------------------------------------------------------
(* Properties. *)

\* A hook of somebody else's is never overwritten or removed, however the command runs,
\* fails or is raced (githook.go:13-16): one it found, and one placed while it runs.  The
\* exceptions are the code's own: a hook whose read failed was taken for none
\* (githook.go:377-383), and one placed after the command decided on that very file.
SparesOthers == \A f \in theirs : hook[f] \in Foreign

\* A refusal that nobody interfered with leaves every hook as it was: never one hook
\* written and the other refused.
RefusalIsAtomic == report = "refused" /\ calm => hook = found

Quiet(c) == cmd = c /\ pc = "idle" /\ calm

\* When install says so, in the main working tree, git runs both hooks and they reach
\* aispend: never a dead hook beside a core.hooksPath, never one without its mode.
InstallFires ==
  Quiet("install") /\ from = "main" /\ report = "installed" => \A n \in Name : Fires(n)

\* After an uninstall in the main working tree git runs no hook of aispend's, whatever
\* half-done installations came before it.
UninstallSilences ==
  Quiet("uninstall") /\ from = "main" => \A n \in Name : hook[<<Effective, n>>] # "ours"

\* The package promises to refuse a dead hook (githook.go:4-11): installed hooks fire,
\* wherever the installation was run.  The code does not keep it in a linked worktree:
\* no run checks it, README names the trace.
InstalledFires == Quiet("install") /\ report = "installed" => \A n \in Name : Fires(n)

==============================================================================
