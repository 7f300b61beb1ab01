---------------------------- MODULE GitHookProofs -----------------------------
(***************************************************************************)
(* What installation and removal promise, for any number of changes by      *)
(* others and of faults.                                                    *)
(***************************************************************************)
EXTENDS GitHook, TLAPS

First == <<dir, "prepare-commit-msg">>

\* TypeOK without the Boolean variables.
FilesAndPlaces ==
  /\ hook \in [Dir \X Name -> Content] /\ exec \subseteq Dir \X Name
  /\ cmd \in {"install", "uninstall", "status"} /\ from \in {"main", "linked"}
  /\ dir \in Dir /\ pc \in {"idle", "scan", "write", "chmod", "remove", "unlink"}
  /\ at \in 1 .. 2 /\ removed \in 0 .. 2 /\ report \in Kind
  /\ touches \in Nat /\ faults \in Nat
  /\ found \in [Dir \X Name -> Content] /\ theirs \subseteq Dir \X Name
  /\ \A f \in exec : hook[f] # "none"

LEMMA TypeSplit == TypeOK <=> FilesAndPlaces /\ managed \in BOOLEAN /\ calm \in BOOLEAN
  BY Zenon DEF TypeOK, FilesAndPlaces

LEMMA TypeSplitNext ==
  TypeOK' <=> FilesAndPlaces' /\ managed' \in BOOLEAN /\ calm' \in BOOLEAN
  BY Zenon DEF TypeOK, FilesAndPlaces

\* A command is in one of its own loops and has reported nothing yet.
InItsLoop ==
  /\ pc \in {"scan", "write", "chmod"} => cmd = "install"
  /\ pc \in {"remove", "unlink"} => cmd = "uninstall"
  /\ pc # "idle" => report = "none"
  /\ pc \in {"remove", "unlink"} => removed < at

\* What the command has decided to write or remove is nobody else's.
LookedFirst == \A f \in theirs : ~Doomed(f)

\* The pre-scan reads only.
ScanReads == pc = "scan" /\ calm => hook = found

\* An undisturbed installation is where git looks, and its first hook is complete.
InstallSoFar ==
  pc \in {"scan", "write", "chmod"} /\ calm /\ from = "main" =>
    /\ dir = Effective
    /\ pc # "scan" /\ at = 2 => hook[First] = "ours" /\ First \in exec
    /\ pc = "chmod" => hook[File] = "ours"

\* An undisturbed removal is where git looks, and its first hook is gone.
RemovalSoFar ==
  pc \in {"remove", "unlink"} /\ calm /\ from = "main" =>
    /\ dir = Effective
    /\ at = 2 => hook[First] # "ours"
    /\ pc = "unlink" => hook[File] = "ours"

IInv ==
  /\ TypeOK /\ InItsLoop
  /\ SparesOthers /\ LookedFirst
  /\ RefusalIsAtomic /\ ScanReads
  /\ InstallFires /\ InstallSoFar
  /\ UninstallSilences /\ RemovalSoFar

\* The two hooks.
LEMMA HooksAre ==
  /\ HookNames[1] = "prepare-commit-msg" /\ HookNames[2] = "post-commit"
  /\ \A i \in 1 .. 2 : HookNames[i] \in Name
  /\ \A n \in Name : n = HookNames[1] \/ n = HookNames[2]
  BY DEF HookNames, Name

LEMMA InitHolds == Init => IInv
<1>1. Init => TypeOK
  <2>1. Init => FilesAndPlaces
    BY DEF Init, FilesAndPlaces, Content, Dir, Kind
  <2>2. Init => managed \in BOOLEAN /\ calm \in BOOLEAN
    BY Zenon DEF Init
  <2> QED BY <2>1, <2>2, TypeSplit
<1>2. Init => InItsLoop /\ SparesOthers /\ LookedFirst /\ RefusalIsAtomic /\ ScanReads
  BY DEF Init, InItsLoop, SparesOthers, LookedFirst, RefusalIsAtomic, ScanReads
<1>3. Init => InstallFires /\ InstallSoFar /\ UninstallSilences /\ RemovalSoFar
  BY DEF Init, InstallFires, InstallSoFar, UninstallSilences, RemovalSoFar, Quiet
<1> QED BY <1>1, <1>2, <1>3 DEF IInv

\* What others do ends the calm, and a hook of theirs stays theirs or is given up.
LEMMA OthersKeepIt ==
  ASSUME IInv,
         \/ \E f \in Dir \X Name, c \in Content : TouchHook(f, c)
         \/ \E f \in Dir \X Name : TouchMode(f)
         \/ TouchHooksPath
  PROVE  IInv'
<1>1. CASE \E f \in Dir \X Name, c \in Content : TouchHook(f, c)
  <2>1. PICK f \in Dir \X Name, c \in Content : TouchHook(f, c)
    BY <1>1
  <2>2. TypeOK'
    <3>1. FilesAndPlaces'
      BY <2>1, TypeSplit DEF TouchHook, Touch, IInv, FilesAndPlaces, Foreign, cmdVars
    <3>2. managed' \in BOOLEAN /\ calm' \in BOOLEAN
      BY <2>1, Zenon DEF TouchHook, Touch, IInv, TypeOK
    <3> QED BY <3>1, <3>2, TypeSplitNext
  <2>2a. InItsLoop' /\ SparesOthers'
    BY <2>1 DEF TouchHook, Touch, IInv, TypeOK, InItsLoop, SparesOthers, Foreign, cmdVars
  <2>3. LookedFirst'
    BY <2>1 DEF TouchHook, Touch, IInv, LookedFirst, Doomed, cmdVars
  <2>4. calm' = FALSE
    BY <2>1 DEF TouchHook, Touch
  <2> QED
    BY <2>2, <2>2a, <2>3, <2>4 DEF IInv, RefusalIsAtomic, ScanReads, InstallFires, InstallSoFar,
                            UninstallSilences, RemovalSoFar, Quiet
<1>2. CASE (\E f \in Dir \X Name : TouchMode(f)) \/ TouchHooksPath
  <2>0. TypeOK'
    <3>1. FilesAndPlaces'
      BY <1>2, TypeSplit
      DEF TouchMode, TouchHooksPath, Touch, IInv, FilesAndPlaces, cmdVars, fileVars
    <3>2. managed' \in BOOLEAN /\ calm' \in BOOLEAN
      BY <1>2, Zenon DEF TouchMode, TouchHooksPath, Touch, IInv, TypeOK
    <3> QED BY <3>1, <3>2, TypeSplitNext
  <2>1. InItsLoop' /\ SparesOthers' /\ LookedFirst'
    BY <1>2 DEF TouchMode, TouchHooksPath, Touch, IInv, InItsLoop, SparesOthers,
                LookedFirst, Doomed, cmdVars, fileVars
  <2>2. calm' = FALSE
    BY <1>2 DEF TouchMode, TouchHooksPath, Touch
  <2> QED
    BY <2>0, <2>1, <2>2 DEF IInv, RefusalIsAtomic, ScanReads, InstallFires, InstallSoFar,
                      UninstallSilences, RemovalSoFar, Quiet
<1> QED BY <1>1, <1>2

\* A command that begins has the hooks, and whose they are, as it finds them.
LEMMA StartKeepsIt ==
  ASSUME IInv, NEW where \in {"main", "linked"}, NEW set \in BOOLEAN,
         NEW unread \in SUBSET Name,
         Install(where, set, unread) \/ Uninstall(where, set) \/ Status(where, set, unread)
  PROVE  IInv'
<1>1. /\ UNCHANGED <<fileVars, managed, touches>> /\ found' = hook
      /\ theirs' = {f \in Dir \X Name : hook[f] \in Foreign} /\ at' = 1 /\ removed' = 0
      /\ from' = where /\ dir' = HooksDir(where, set)
  BY DEF Install, Uninstall, Status, Start
<1>1a. /\ faults' \in Nat
       /\ set = managed \/ calm' = FALSE
  BY DEF Install, Uninstall, Status, Start, Fault, IInv, TypeOK
<1>1b. managed' \in BOOLEAN /\ calm' \in BOOLEAN
  BY <1>1, Zenon DEF Install, Uninstall, Status, Start, Fault, IInv, TypeOK
<1>2. SparesOthers' /\ RefusalIsAtomic' /\ ScanReads'
  BY <1>1 DEF SparesOthers, RefusalIsAtomic, ScanReads, fileVars
<1>3. dir' \in Dir /\ (where = "main" /\ calm' => dir' = Effective')
  BY <1>1, <1>1a DEF HooksDir, Effective, Dir
<1>4. ManagedKind(dir', unread) \in Kind \ {"installed"}
  BY DEF ManagedKind, Kind
<1>4a. ASSUME cmd' \in {"install", "uninstall", "status"},
              pc' \in {"idle", "scan", "write", "chmod", "remove", "unlink"}, report' \in Kind
       PROVE  TypeOK'
  <2>1. FilesAndPlaces'
    BY <1>1, <1>1a, <1>3, <1>4a, TypeSplit DEF FilesAndPlaces, IInv, fileVars
  <2> QED BY <2>1, <1>1b, TypeSplitNext
<1>4b. pc' \in {"idle", "scan", "remove"} => LookedFirst'
  BY <1>1 DEF LookedFirst, Doomed
<1>5. CASE Install(where, set, unread)
  <2>1. /\ cmd' = "install" /\ pc' \in {"idle", "scan"} /\ report' \in Kind \ {"installed"}
        /\ pc' # "idle" => report' = "none"
    BY <1>4, <1>5 DEF Install, Start, Kind
  <2>2. TypeOK' /\ LookedFirst'
    BY <1>4a, <1>4b, <2>1
  <2> QED
    BY <1>1, <1>2, <1>3, <2>1, <2>2
    DEF IInv, InItsLoop, InstallFires, InstallSoFar, UninstallSilences, RemovalSoFar, Quiet
<1>6. CASE Uninstall(where, set)
  <2>1. cmd' = "uninstall" /\ pc' = "remove" /\ report' = "none"
    BY <1>6 DEF Uninstall, Start
  <2>2. TypeOK' /\ LookedFirst'
    BY <1>4a, <1>4b, <2>1 DEF Kind
  <2> QED
    BY <1>1, <1>2, <1>3, <2>1, <2>2
    DEF IInv, InItsLoop, InstallFires, InstallSoFar, UninstallSilences, RemovalSoFar, Quiet
<1>7. CASE Status(where, set, unread)
  <2>1. cmd' = "status" /\ pc' = "idle" /\ report' \in Kind
    BY <1>4, <1>7 DEF Status, Start, Kind
  <2>2. TypeOK' /\ LookedFirst'
    BY <1>4a, <1>4b, <2>1
  <2> QED
    BY <1>1, <1>2, <1>3, <2>1, <2>2
    DEF IInv, InItsLoop, InstallFires, InstallSoFar, UninstallSilences, RemovalSoFar, Quiet
<1> QED BY <1>5, <1>6, <1>7

\* The pre-scan of a hook.
LEMMA ScanKeepsIt == ASSUME IInv, Scan PROVE IInv'
<1>1. /\ UNCHANGED <<fileVars, managed, cmd, from, dir, removed, touches, found>>
      /\ cmd = "install" /\ report = "none" /\ pc = "scan"
  BY DEF IInv, InItsLoop, Scan, Rest, Reads
<1>2. PICK body \in Content :
        /\ Reads(body) /\ Unread(body)
        /\ IF body \notin {"none", "ours"}
             THEN Done("refused")
             ELSE NextHook("scan", at' = 1 /\ pc' = "write" /\ UNCHANGED report)
  BY DEF Scan
<1>3. /\ faults' \in Nat /\ theirs' \subseteq theirs
      /\ calm' = FALSE \/ (body = hook[File] /\ UNCHANGED <<calm, theirs>>)
      /\ body \in {"none", "ours"} => File \notin theirs'
  BY <1>2 DEF IInv, TypeOK, Reads, Unread, Fault, SparesOthers, Foreign
<1>4. managed' \in BOOLEAN /\ calm' \in BOOLEAN
  BY <1>1, <1>2, Zenon DEF IInv, TypeOK, Reads, Fault
<1>5. \/ pc' = "idle" /\ report' = "refused" /\ at' = 1
      \/ /\ body \in {"none", "ours"} /\ report' = "none"
         /\ \/ at = 1 /\ at' = 2 /\ pc' = "scan"
            \/ at = 2 /\ at' = 1 /\ pc' = "write"
  BY <1>1, <1>2 DEF Done, NextHook, IInv, TypeOK
<1>6. TypeOK'
  <2>1. FilesAndPlaces'
    BY <1>1, <1>3, <1>5, TypeSplit DEF IInv, FilesAndPlaces, fileVars, Kind
  <2> QED BY <2>1, <1>4, TypeSplitNext
<1>7. LookedFirst'
  <2> SUFFICES ASSUME NEW f \in theirs', Doomed(f)' PROVE FALSE
    BY DEF LookedFirst
  <2>1. body \in {"none", "ours"} /\ f \in theirs /\ f # File
    BY <1>3, <1>5 DEF Doomed
  <2>2. \E i \in 1 .. 2 : f = <<dir, HookNames[i]>> /\ (pc' = "scan" => i < at')
    BY <1>1, <1>5 DEF Doomed
  <2>3. CASE pc' = "scan"
    BY <1>5, <2>1, <2>2, <2>3 DEF File
  <2>4. CASE pc' = "write"
    <3>1. at = 2 /\ f = <<dir, HookNames[1]>>
      BY <1>5, <2>1, <2>2, <2>4 DEF File
    <3> QED BY <1>1, <2>1, <3>1 DEF IInv, LookedFirst, Doomed
  <2> QED BY <1>5, <2>1, <2>3, <2>4 DEF Doomed
<1> QED
  BY <1>1, <1>3, <1>5, <1>6, <1>7
  DEF IInv, InItsLoop, SparesOthers, RefusalIsAtomic, ScanReads, InstallFires, InstallSoFar,
      UninstallSilences, RemovalSoFar, Quiet, Effective, fileVars

\* The file a loop is at; one about to be written is nobody else's.
LEMMA FileTypes ==
  ASSUME IInv, pc \in {"scan", "write", "chmod", "remove", "unlink"}
  PROVE  File \in Dir \X Name /\ (pc \in {"write", "unlink"} => File \notin theirs)
  BY HooksAre DEF File, IInv, TypeOK, LookedFirst, Doomed

LEMMA WriteKeepsIt == ASSUME IInv, Write PROVE IInv'
<1>1. /\ hook' = [hook EXCEPT ![File] = "ours"]
      /\ exec' \in {exec, exec \cup {File}}
      /\ pc = "write" /\ pc' = "chmod"
      /\ UNCHANGED <<managed, cmd, from, dir, at, removed, report, countVars, historyVars>>
  BY DEF Write, Mode, Rest
<1>2. File \in Dir \X Name /\ File \notin theirs
  BY FileTypes DEF Write
<1>3. TypeOK' /\ InItsLoop'
  BY <1>1, <1>2 DEF IInv, TypeOK, InItsLoop, Content, countVars, historyVars
<1>4. SparesOthers' /\ LookedFirst'
  BY <1>1, <1>2 DEF IInv, TypeOK, SparesOthers, LookedFirst, Doomed, historyVars
<1>5. InstallSoFar'
  <2>1. File' = File /\ First' = First /\ Effective' = Effective
    BY <1>1 DEF File, First, Effective
  <2>2. hook'[File] = "ours"
    BY <1>1, <1>2 DEF IInv, TypeOK
  <2>3. at = 2 => First # File
    BY HooksAre DEF First, File
  <2> QED
    BY <1>1, <1>2, <2>1, <2>2, <2>3
    DEF IInv, TypeOK, InstallSoFar, historyVars
<1> QED
  BY <1>1, <1>3, <1>4, <1>5
  DEF IInv, InItsLoop, RefusalIsAtomic, ScanReads, InstallFires, UninstallSilences,
      RemovalSoFar, Quiet, historyVars

LEMMA ChmodKeepsIt == ASSUME IInv, Chmod PROVE IInv'
<1>1. /\ hook' = hook /\ pc = "chmod" /\ cmd = "install" /\ report = "none"
      /\ UNCHANGED <<managed, cmd, from, dir, removed, countVars, historyVars>>
  BY DEF Chmod, Rest, IInv, InItsLoop
<1>2. File \in Dir \X Name
  BY FileTypes DEF Chmod
<1>3. CASE hook[File] = "none"
  <2>1. exec' = exec /\ pc' = "idle" /\ report' = "error" /\ at' = 1
    BY <1>3 DEF Chmod, Done
  <2> QED
    BY <1>1, <2>1
    DEF IInv, TypeOK, InItsLoop, SparesOthers, LookedFirst, Doomed, RefusalIsAtomic, ScanReads,
        InstallFires, InstallSoFar, UninstallSilences, RemovalSoFar, Quiet,
        countVars, historyVars, Kind
<1>4. CASE hook[File] # "none"
  <2>1. /\ exec' = exec \cup {File}
        /\ \/ at = 1 /\ at' = 2 /\ pc' = "write" /\ report' = "none"
           \/ at = 2 /\ at' = 1 /\ pc' = "idle" /\ report' = "installed"
    BY <1>1, <1>4 DEF Chmod, NextHook, Done, IInv, TypeOK
  <2>2. TypeOK' /\ InItsLoop' /\ SparesOthers' /\ LookedFirst'
    BY <1>1, <1>2, <1>4, <2>1
    DEF IInv, TypeOK, InItsLoop, SparesOthers, LookedFirst, Doomed, Kind, countVars,
        historyVars
  <2>3. at = 1 => InstallSoFar' /\ InstallFires'
    BY <1>1, <2>1, HooksAre
    DEF IInv, InstallSoFar, InstallFires, Quiet, First, File, Effective, historyVars
  <2>4. at = 2 => InstallSoFar' /\ InstallFires'
    BY <1>1, <2>1, HooksAre
    DEF IInv, InstallSoFar, InstallFires, Quiet, First, File, Effective, Fires, historyVars
  <2> QED
    BY <1>1, <2>1, <2>2, <2>3, <2>4
    DEF IInv, TypeOK, RefusalIsAtomic, ScanReads, UninstallSilences, RemovalSoFar, Quiet,
        historyVars
<1> QED BY <1>3, <1>4

LEMMA FaultsKeepIt == ASSUME IInv, WriteStops \/ Stops PROVE IInv'
<1>1. /\ UNCHANGED <<managed, cmd, from, dir, removed, touches, found, theirs>>
      /\ faults' = faults + 1 /\ calm' = FALSE /\ pc' = "idle" /\ report' = "error" /\ at' = 1
  BY DEF WriteStops, Stops, Fault, Done, Rest
<1>2. managed' \in BOOLEAN /\ calm' \in BOOLEAN
  BY <1>1, Zenon DEF IInv, TypeOK
<1>3. FilesAndPlaces' /\ SparesOthers'
  <2>1. CASE WriteStops
    <3>1. File \in Dir \X Name /\ File \notin theirs
      BY <2>1, FileTypes DEF WriteStops
    <3>2. hook' = [hook EXCEPT ![File] = "cut"] /\ exec' \in {exec, exec \cup {File}}
      BY <2>1 DEF WriteStops, Mode
    <3> QED
      BY <1>1, <3>1, <3>2, TypeSplit
      DEF IInv, FilesAndPlaces, SparesOthers, Content, Kind
  <2>2. CASE Stops
    BY <1>1, <2>2, TypeSplit
    DEF Stops, IInv, FilesAndPlaces, SparesOthers, Kind, fileVars
  <2> QED BY <2>1, <2>2
<1> QED
  BY <1>1, <1>2, <1>3, TypeSplitNext
  DEF IInv, InItsLoop, LookedFirst, Doomed, RefusalIsAtomic, ScanReads, InstallFires,
      InstallSoFar, UninstallSilences, RemovalSoFar, Quiet

\* The end of the loop of Uninstall, or its next hook.
LEMMA LookKeepsIt == ASSUME IInv, Look PROVE IInv'
<1>1. /\ UNCHANGED <<fileVars, managed, cmd, from, dir, removed, touches, found, theirs>>
      /\ pc = "remove" /\ cmd = "uninstall" /\ report = "none"
  BY DEF Look, Rest, Reads, IInv, InItsLoop
<1>2. PICK body \in Content :
        /\ Reads(body)
        /\ IF body = "ours"
             THEN pc' = "unlink" /\ UNCHANGED <<at, report>>
             ELSE NextHook("remove", Counted(removed))
  BY DEF Look
<1>3. /\ faults' \in Nat
      /\ calm' = FALSE \/ (body = hook[File] /\ calm' = calm)
      /\ body = "ours" => hook[File] = "ours"
  BY <1>2 DEF Reads, Fault, IInv, TypeOK
<1>4. managed' \in BOOLEAN /\ calm' \in BOOLEAN
  BY <1>1, <1>2, Zenon DEF IInv, TypeOK, Reads, Fault
<1>5. \/ body = "ours" /\ pc' = "unlink" /\ at' = at /\ report' = "none"
      \/ body # "ours" /\ at = 1 /\ at' = 2 /\ pc' = "remove" /\ report' = "none"
      \/ /\ body # "ours" /\ at = 2 /\ at' = 1 /\ pc' = "idle"
         /\ report' \in {"uninstalled", "not_installed"}
  BY <1>1, <1>2 DEF NextHook, Counted, Done, IInv, TypeOK
<1>6. TypeOK'
  <2>1. FilesAndPlaces'
    BY <1>1, <1>3, <1>5, TypeSplit DEF IInv, FilesAndPlaces, fileVars, Kind
  <2> QED BY <2>1, <1>4, TypeSplitNext
<1>7. InItsLoop' /\ SparesOthers'
  BY <1>1, <1>5 DEF IInv, TypeOK, InItsLoop, SparesOthers, fileVars
<1>8. LookedFirst'
  BY <1>1, <1>3, <1>5 DEF IInv, LookedFirst, SparesOthers, Foreign, File, Doomed
<1>9. RemovalSoFar' /\ UninstallSilences'
  BY <1>1, <1>3, <1>5, HooksAre
  DEF IInv, RemovalSoFar, UninstallSilences, Quiet, First, File, Effective, fileVars
<1> QED
  BY <1>1, <1>3, <1>5, <1>6, <1>7, <1>8, <1>9
  DEF IInv, RefusalIsAtomic, ScanReads, InstallFires, InstallSoFar, Quiet

LEMMA RemoveKeepsIt == ASSUME IInv, Remove PROVE IInv'
<1>1. /\ UNCHANGED <<managed, cmd, from, dir, countVars, historyVars>>
      /\ hook' = [hook EXCEPT ![File] = "none"] /\ exec' = exec \ {File}
      /\ pc = "unlink" /\ cmd = "uninstall" /\ report = "none"
  BY DEF Remove, Rest, IInv, InItsLoop
<1>2. File \in Dir \X Name /\ File \notin theirs /\ hook'[File] = "none"
  BY <1>1, FileTypes DEF IInv, TypeOK
<1>3. \/ /\ hook[File] = "none" /\ pc' = "idle" /\ report' = "error" /\ at' = 1
         /\ removed' = removed
      \/ at = 1 /\ at' = 2 /\ pc' = "remove" /\ report' = "none" /\ removed' = removed + 1
      \/ /\ at = 2 /\ at' = 1 /\ pc' = "idle" /\ removed' = removed + 1
         /\ report' \in {"uninstalled", "not_installed"}
  BY <1>1 DEF Remove, NextHook, Counted, Done, IInv, TypeOK
<1>4. TypeOK'
  BY <1>1, <1>2, <1>3 DEF IInv, TypeOK, InItsLoop, Kind, Content, countVars, historyVars
<1>4a. InItsLoop' /\ SparesOthers' /\ LookedFirst'
  BY <1>1, <1>2, <1>3
  DEF IInv, TypeOK, InItsLoop, SparesOthers, LookedFirst, Doomed, historyVars
<1>5. RemovalSoFar' /\ UninstallSilences'
  BY <1>1, <1>2, <1>3, HooksAre
  DEF IInv, TypeOK, RemovalSoFar, UninstallSilences, Quiet, First, File, Effective,
      historyVars
<1> QED
  BY <1>1, <1>3, <1>4, <1>4a, <1>5
  DEF IInv, RefusalIsAtomic, ScanReads, InstallFires, InstallSoFar, Quiet, historyVars

LEMMA StutterKeepsIt == ASSUME IInv, UNCHANGED vars PROVE IInv'
  BY DEF vars, fileVars, cmdVars, countVars, historyVars, IInv, TypeOK, InItsLoop,
         SparesOthers, LookedFirst, Doomed, RefusalIsAtomic, ScanReads, InstallFires,
         InstallSoFar, UninstallSilences, RemovalSoFar, Quiet, First, File, Effective, Fires

\* Each step keeps the invariant.
LEMMA NextKeepsIt == IInv /\ [Next]_vars => IInv'
  BY OthersKeepIt, StartKeepsIt, ScanKeepsIt, WriteKeepsIt, ChmodKeepsIt, LookKeepsIt,
     RemoveKeepsIt, FaultsKeepIt, StutterKeepsIt DEF Next

\* The inductive invariant holds throughout.
LEMMA Inductive == Spec => []IInv
  BY InitHolds, NextKeepsIt, PTL DEF Spec

\* A hook of somebody else's, found or placed meanwhile, is never overwritten or removed,
\* whatever races or fails, unless its own read failed or it was placed after the command
\* decided on that very file.
THEOREM OthersAreSpared == Spec => []SparesOthers
<1>1. IInv => SparesOthers BY DEF IInv
<1> QED BY <1>1, Inductive, PTL

\* A refusal leaves every hook as it was.
THEOREM RefusalsAreAtomic == Spec => []RefusalIsAtomic
<1>1. IInv => RefusalIsAtomic BY DEF IInv
<1> QED BY <1>1, Inductive, PTL

\* What install reports as installed in the main working tree fires.
THEOREM InstalledHooksFire == Spec => []InstallFires
<1>1. IInv => InstallFires BY DEF IInv
<1> QED BY <1>1, Inductive, PTL

\* What uninstall leaves in the main working tree does not call aispend.
THEOREM UninstallIsComplete == Spec => []UninstallSilences
<1>1. IInv => UninstallSilences BY DEF IInv
<1> QED BY <1>1, Inductive, PTL
==============================================================================
