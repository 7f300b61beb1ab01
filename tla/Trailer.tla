------------------------------- MODULE Trailer -------------------------------
(***************************************************************************)
(* The commit cost-trailer state machine of internal/trailer: the          *)
(* prepare-commit-msg hook stamps a message with the usage that is newer    *)
(* than the branch's watermark and stages the next watermark; the           *)
(* post-commit hook promotes whatever is staged.  The module models one     *)
(* checkout: its HEAD, its rebase and am directories, the two watermark     *)
(* files in its git directory, and the ledger the hook reads.               *)
(*                                                                         *)
(* A turn is a member of Event with a constant timestamp, branch and        *)
(* provider in its log line; what changes is whether it is in a session     *)
(* log, in the ledger, and priced, and, for one logged on a detached HEAD,   *)
(* the branch its row is given.  Every Event costs something once priced,   *)
(* so a non-empty usage always renders a trailer line.  git runs one commit  *)
(* at a time in a checkout: its hooks are children of the commit.           *)
(*                                                                         *)
(* The hooks are fail-open: a write that fails, and a hook that is killed,   *)
(* leave whatever is on disk and git goes on with the commit.  A watermark   *)
(* file that exists is taken to be readable by the user who wrote it.        *)
(***************************************************************************)
EXTENDS Naturals, FiniteSets

CONSTANTS
  Event,         \* the turns the agents will have run
  Branch,        \* the branches of the repository
  Provider,      \* the agents whose logs are scanned
  TS,            \* [Event -> Nat \ {0}]: when the turn ran
  BranchOf,      \* [Event -> Branch \cup {NoBranch}]: gitBranch of the log line
  Detached,      \* the turns whose line says "HEAD" and whose repository is known
  ProviderOf,    \* [Event -> Provider]
  Rated,         \* the turns whose model has a rate when they are imported
  NoBranch,      \* the "" and "HEAD" tags, and a detached HEAD
  NoMark,        \* no pending file
  Torn,          \* a pending file that does not parse
  NoAttempt,     \* no commit is being made
  MaxAttempts    \* bound: how many commits the user starts

ASSUME TimesAndTags ==
  /\ TS \in [Event -> Nat \ {0}]
  /\ BranchOf \in [Event -> Branch \cup {NoBranch}]
  /\ Detached \subseteq {e \in Event : BranchOf[e] = NoBranch}
  /\ ProviderOf \in [Event -> Provider]
  /\ Rated \subseteq Event
  /\ NoBranch \notin Branch
  /\ MaxAttempts \in Nat

\* The log is finite: any usage has a latest turn.
ASSUME UsageHasLatest ==
  \A S \in SUBSET Event : S # {} => \E e \in S : \A f \in S : TS[f] <= TS[e]

ASSUME Sentinels ==
  /\ NoMark \notin [branch : Branch, ts : Nat] \cup {Torn}
  /\ Torn \notin [branch : Branch, ts : Nat]
  /\ NoAttempt \notin [branch : Branch \cup {NoBranch}, carried : SUBSET Event]

VARIABLES
  logged,     \* turns written to the session logs
  ledger,     \* turns imported into the store
  priced,     \* ledger turns that have an api-equivalent cost
  tag,        \* the branch a turn's row names, or would if it were imported
  head,       \* the branch HEAD names; NoBranch when it is detached
  rebasing,   \* the branch being rebased (rebase-merge exists), or NoBranch
  am,         \* git am is stopped on a patch: rebase-apply exists, HEAD is attached
  enabled,    \* .aispend.toml [trailers] enabled
  marks,      \* .git/aispend-trailer: watermark per branch, 0 when absent
  pending,    \* .git/aispend-trailer.pending: one entry, Torn, or NoMark
  attempt,    \* the commit under way: its branch and the turns in its trailer
  editmsg,    \* COMMIT_EDITMSG of the attempt aborted last: branch, turns
  attempts,   \* commits started so far
  \* History, read by no action's guard:
  stamped,    \* <<branch, turn>>: a commit of the branch carries the turn
  settled,    \* those whose post-commit then moved the watermark, still kept
  counted,    \* the turns the pending entry was computed from
  abandoned,  \* turns counted by an attempt that did not stamp them
  unstaged    \* the message edited or aborted last was stamped by a hook that
              \* did not finish staging

repoVars == <<head, rebasing, am, enabled>>
ledgerVars == <<logged, ledger, priced, tag>>
markVars == <<marks, pending, counted>>
historyVars == <<stamped, settled, abandoned, unstaged>>
vars == <<ledgerVars, repoVars, markVars, attempt, editmsg, attempts, historyVars>>

-----------------------------------------------------------------------------
(* Types. *)

Ref == Branch \cup {NoBranch}
\* A line whose digits are cut parses as a time before every turn: ts is 0.
Mark == [branch : Branch, ts : Nat]
Attempt == [branch : Ref, carried : SUBSET Event]

TypeOK ==
  /\ logged \subseteq Event /\ ledger \subseteq logged /\ priced \subseteq ledger
  /\ tag \in [Event -> Ref]
  /\ head \in Ref /\ rebasing \in Ref /\ am \in BOOLEAN /\ enabled \in BOOLEAN
  /\ marks \in [Branch -> Nat]
  /\ pending \in Mark \cup {NoMark, Torn}
  /\ attempt \in Attempt \cup {NoAttempt}
  /\ editmsg \in Attempt
  /\ attempts \in Nat
  /\ stamped \subseteq Branch \X Event /\ settled \subseteq stamped
  /\ counted \subseteq Event /\ abandoned \subseteq Event /\ unstaged \in BOOLEAN

-----------------------------------------------------------------------------
(* Pure helpers. *)

\* The source hints git passes as $2: "plain" stands for none, message, template.
Sources == {"plain", "merge", "commit", "squash"}

\* modeForSource: merge and commit (-c, -C, --amend) are already stamped; squash
\* only folds the trailers the squashed messages carried.
Stamps(source) == source = "plain"

\* branchMatches: a turn belongs to the branch its row names; one that names none
\* belongs to whatever branch is committed.
Matches(tags, e, b) == tags[e] \in {b, NoBranch}

\* Mutant: a turn at the watermark counts again.
PendingFromWatermark(b, stored, tags) ==
  {e \in stored : Matches(tags, e, b) /\ TS[e] >= marks[b]}

\* pendingUsage: the priced turns of branch b strictly after the watermark.
PendingUsage(b, stored, tags) == {e \in stored : Matches(tags, e, b) /\ TS[e] > marks[b]}

MaxTS(S) == CHOOSE t \in {TS[e] : e \in S} : \A e \in S : TS[e] <= t

NoTrailer == [branch |-> NoBranch, carried |-> {}]

RebaseInProgress == rebasing # NoBranch \/ am

-----------------------------------------------------------------------------
(* The world around the hooks: agents, scans, pricing, git. *)

Init ==
  /\ logged = {} /\ ledger = {} /\ priced = {} /\ tag = BranchOf
  /\ head \in Branch /\ rebasing = NoBranch /\ am = FALSE /\ enabled = TRUE
  /\ marks = [b \in Branch |-> 0] /\ pending = NoMark
  /\ attempt = NoAttempt /\ editmsg = NoTrailer /\ attempts = 0
  /\ stamped = {} /\ settled = {}
  /\ counted = {} /\ abandoned = {} /\ unstaged = FALSE

\* An agent writes a turn to its session log.
LogTurn(e) ==
  /\ e \notin logged
  /\ logged' = logged \cup {e}
  /\ UNCHANGED <<ledger, priced, tag, repoVars, markVars, attempt, editmsg, attempts, historyVars>>

\* What an incremental scan imports when the providers in ok can be read; a
\* provider that fails is skipped and its turns wait for a later scan.
Scanned(ok) == ledger \cup {e \in logged : ProviderOf[e] \in ok}

\* A log that has grown is read whole again: the rows of the turns in again are
\* written anew.
Reread(ok, again) == {e \in ledger \cap again : ProviderOf[e] \in ok}

\* EnrichVCS: a line that says "HEAD" gets the branch HEAD names at the time it is
\* read, and keeps the placeholder while HEAD is detached.
Resolved(ok, again) ==
  [e \in Event |-> IF e \in Detached \cap ((Scanned(ok) \ ledger) \cup Reread(ok, again))
                   THEN head ELSE tag[e]]

\* A scan prices what it imports; a turn of an unknown model stays unpriced.
Import(ok, again) ==
  /\ ledger' = Scanned(ok)
  /\ priced' = priced \cup ((Scanned(ok) \ ledger) \cap Rated)
  /\ tag' = Resolved(ok, again)

\* Any scan outside the hook: scan, sync, daemon, or a read command at launch.
Scan(ok, again) ==
  /\ Import(ok, again)
  /\ ledger' # ledger \/ tag' # tag
  /\ UNCHANGED <<logged, repoVars, markVars, attempt, editmsg, attempts, historyVars>>

\* Mutant: turns still in the log are priced.
RepriceUnscanned ==
  /\ priced # logged
  /\ priced' = logged
  /\ UNCHANGED <<logged, ledger, tag, repoVars, markVars, attempt, editmsg, attempts, historyVars>>

\* A price refresh followed by repriceStored: unpriced turns get a cost.
Reprice ==
  /\ priced # ledger
  /\ priced' = ledger
  /\ UNCHANGED <<logged, ledger, tag, repoVars, markVars, attempt, editmsg, attempts, historyVars>>

\* git checkout of a branch or of a commit (detached), between commits. A user
\* who restores an aborted message does so on the branch it was written for.
Checkout(r) ==
  /\ attempt = NoAttempt /\ ~RebaseInProgress
  /\ head # r
  /\ head' = r
  /\ editmsg' = NoTrailer
  /\ UNCHANGED <<ledgerVars, rebasing, am, enabled, markVars, attempt, attempts, historyVars>>

\* git rebase detaches HEAD while it replays the branch.
StartRebase ==
  /\ attempt = NoAttempt /\ ~RebaseInProgress /\ head # NoBranch
  /\ rebasing' = head
  /\ head' = NoBranch
  /\ editmsg' = NoTrailer
  /\ UNCHANGED <<ledgerVars, am, enabled, markVars, attempt, attempts, historyVars>>

EndRebase ==
  /\ attempt = NoAttempt /\ rebasing # NoBranch
  /\ head' = rebasing
  /\ rebasing' = NoBranch
  /\ UNCHANGED <<ledgerVars, am, enabled, markVars, attempt, editmsg, attempts, historyVars>>

\* git am stops on a patch and later ends; HEAD stays on the branch.
ToggleAm ==
  /\ attempt = NoAttempt /\ rebasing = NoBranch /\ head # NoBranch
  /\ am' = ~am
  /\ UNCHANGED <<ledgerVars, head, rebasing, enabled, markVars, attempt, editmsg, attempts, historyVars>>

\* The repository's off switch, edited by hand or in the explorer.
ToggleEnabled ==
  /\ enabled' = ~enabled
  /\ UNCHANGED <<ledgerVars, head, rebasing, am, markVars, attempt, editmsg, attempts, historyVars>>

-----------------------------------------------------------------------------
(* prepare-commit-msg: cmdTrailer and Trailer. *)

\* The message git hands the hook: a fresh one, or the one of the aborted
\* attempt (git commit -e -F .git/COMMIT_EDITMSG), which keeps its trailer.
Messages == {{}, editmsg.carried}

\* Mutant: an amend stages what is pending though it stamps nothing.
PrepareSkipsStaging(source, msg) ==
  LET usage == PendingUsage(head, priced, tag) IN
  /\ source = "commit" /\ head # NoBranch /\ usage # {}
  /\ attempt' = [branch |-> head, carried |-> msg]
  /\ pending' = [branch |-> head, ts |-> MaxTS(usage)]
  /\ counted' = usage
  /\ UNCHANGED <<ledger, priced, tag, abandoned, unstaged>>

\* The message stays what git handed over, and nothing is staged.
LeavesMessage(msg) ==
  /\ attempt' = [branch |-> head, carried |-> msg]
  /\ unstaged' = (unstaged /\ msg # {})
  /\ UNCHANGED <<pending, counted, abandoned>>

\* The hook leaves everything alone: switched off, merge or commit source,
\* squash (fold only), or a detached HEAD. It may have scanned nothing.
PrepareSkips(source, msg) ==
  /\ ~enabled \/ ~Stamps(source) \/ head = NoBranch
  /\ LeavesMessage(msg)
  /\ UNCHANGED <<ledger, priced, tag>>

\* Mutant: the first turn's time instead of the last one's.
StagedFirst(b, usage) ==
  [branch |-> b, ts |-> CHOOSE t \in {TS[e] : e \in usage} : \A e \in usage : t <= TS[e]]

\* The watermark the hook stages for branch b after counting the turns in usage.
StagedMark(b, usage) == [branch |-> b, ts |-> MaxTS(usage)]

\* Apply is idempotent: a message that is stamped is left as it is.
Stamped(msg, usage) == [branch |-> head, carried |-> IF msg = {} THEN usage ELSE msg]

\* The message is written and the watermark staged.
StampAndStage(msg, usage) ==
  /\ attempt' = Stamped(msg, usage)
  /\ pending' = StagedMark(head, usage)
  /\ counted' = usage
  /\ abandoned' = abandoned \cup (usage \ attempt'.carried)
  /\ unstaged' = FALSE

\* The message is stamped, but the hook dies before stage, or stage cannot open its
\* file: an older pending entry stays as it is.
StageLost(msg, usage) ==
  /\ attempt' = Stamped(msg, usage)
  /\ unstaged' = (unstaged \/ msg = {})
  /\ UNCHANGED <<pending, counted, abandoned>>

\* stage is cut after it truncated the file: the line is empty, or has lost digits.
StageTorn(msg, usage) ==
  /\ attempt' = Stamped(msg, usage)
  /\ pending' \in {Torn, [branch |-> head, ts |-> 0]}
  /\ counted' = {}
  /\ unstaged' = TRUE
  /\ UNCHANGED abandoned

\* The hook scans, counts, stamps and stages, each as far as it gets. Without usage
\* there is nothing to stamp; a message whose write fails, or is cut before its
\* trailer, is left without one.
PrepareStamps(source, msg, ok, again) ==
  /\ enabled /\ Stamps(source) /\ head # NoBranch
  /\ Import(ok, again)
  /\ LET usage == PendingUsage(head, priced', tag') IN
     \/ LeavesMessage(msg)
     \/ /\ usage # {}
        /\ \/ StampAndStage(msg, usage)
           \/ StageLost(msg, usage)
           \/ StageTorn(msg, usage)

\* git commit: the hook runs, then the editor opens. Only a plain commit starts
\* from the aborted message.
BeginCommit(source, msg) ==
  /\ attempt = NoAttempt
  /\ attempts < MaxAttempts
  /\ attempts' = attempts + 1
  /\ msg # {} => Stamps(source)
  /\ \/ PrepareSkips(source, msg)
     \/ \E ok \in SUBSET Provider, again \in SUBSET Detached :
           PrepareStamps(source, msg, ok, again)
  /\ editmsg' = NoTrailer
  /\ UNCHANGED <<logged, repoVars, marks, stamped, settled>>

\* The user empties the message, or a later hook refuses: git aborts the commit
\* and runs no post-commit hook. The pending file stays.
CancelCommit ==
  /\ attempt # NoAttempt
  /\ editmsg' = attempt
  /\ attempt' = NoAttempt
  /\ abandoned' = abandoned \cup attempt.carried
  /\ UNCHANGED <<ledgerVars, repoVars, markVars, attempts, stamped, settled, unstaged>>

-----------------------------------------------------------------------------
(* The commit lands and post-commit runs: cmdConsume and Consume. *)

Carried == {attempt.branch} \X attempt.carried

\* The commit is in the history with its trailer.
Land ==
  /\ attempt # NoAttempt
  /\ attempt' = NoAttempt
  /\ stamped' = stamped \cup Carried
  /\ UNCHANGED <<ledgerVars, repoVars, editmsg, attempts, abandoned, unstaged>>

\* Consume stands down while a rebase or am directory exists, and has nothing
\* to do without a pending file.
ConsumeStandsDown == RebaseInProgress \/ pending = NoMark

StandDown ==
  /\ ConsumeStandsDown
  /\ Land
  /\ UNCHANGED <<markVars, settled>>

\* A pending file that does not parse is only removed.
DiscardTorn ==
  /\ ~ConsumeStandsDown /\ pending = Torn
  /\ Land
  /\ pending' = NoMark /\ counted' = {}
  /\ UNCHANGED <<marks, settled>>

\* Mutant: the other branches' lines are not read back.
PromotedAlone == [b \in Branch |-> IF b = pending.branch THEN pending.ts ELSE 0]

\* promote: fold the pending entry into the committed marks and clear it.
Promoted == [marks EXCEPT ![pending.branch] = pending.ts]

Promotes == ~ConsumeStandsDown /\ pending # Torn

\* What a promoted watermark settles: the turns of this commit if its own hook
\* staged them. A line whose digits were cut forgets what its branch had settled.
SettledNow ==
  LET kept == settled \cup (IF unstaged THEN {} ELSE Carried) IN
  IF pending.ts = 0 THEN {c \in kept : c[1] # pending.branch} ELSE kept

Consume ==
  /\ Promotes
  /\ Land
  /\ marks' = Promoted
  /\ pending' = NoMark /\ counted' = {}
  /\ settled' = SettledNow

\* The hook is killed, or aispend is missing: the hook is fail-open, the commit
\* stands, the pending file stays.
ConsumeLost ==
  /\ Land
  /\ UNCHANGED <<markVars, settled>>

\* The hook dies inside writeMarks, which truncates and rewrites the file in
\* place: only the lines already written survive, the pending file stays.
ConsumeTorn(kept) ==
  /\ Promotes
  /\ Land
  /\ marks' = [b \in Branch |-> IF b \in kept THEN Promoted[b] ELSE 0]
  /\ UNCHANGED <<pending, counted>>
  /\ settled' = {c \in SettledNow : c[1] \in kept}

-----------------------------------------------------------------------------
Git == \/ \E r \in Ref : Checkout(r)
       \/ StartRebase \/ EndRebase \/ ToggleAm \/ ToggleEnabled

Next ==
  \/ \E e \in Event : LogTurn(e)
  \/ \E ok \in SUBSET Provider, again \in SUBSET Detached : Scan(ok, again)
  \/ Reprice
  \/ Git
  \/ \E source \in Sources, msg \in Messages : BeginCommit(source, msg)
  \/ CancelCommit
  \/ StandDown \/ DiscardTorn \/ Consume \/ ConsumeLost
  \/ \E kept \in SUBSET Branch : ConsumeTorn(kept)

Spec == Init /\ [][Next]_vars

-----------------------------------------------------------------------------
(* Properties. *)

\* A branch charges a turn to one commit: no message carries a turn that is in a
\* commit of the branch already, unless that commit's hook stamped it without staging
\* the watermark (state.go:52-60: killed, or the second write failed), or its watermark
\* failed to move or was lost (a stand-down during am, a post-commit that did not run,
\* a torn watermark or pending file).  A turn whose log line names a branch is charged
\* on no other; one logged on a detached HEAD, whose row may move from branch to branch
\* as it is read again, at most once on each.  (state.go: Trailer, Consume; cli.go:
\* pendingUsage)
AtMostOnce ==
  /\ attempt # NoAttempt => Carried \cap settled = {}
  /\ \A c \in stamped : BranchOf[c[2]] \in {c[1], NoBranch}

\* While a message carries turns whose hook staged them, however often it was aborted
\* and restored since and whatever hooks failed on the way, the pending entry is this
\* branch's and covers all of them: the post-commit of this very commit settles what
\* it stamped.
StagedCoversMessage ==
  attempt # NoAttempt /\ ~unstaged =>
    \A e \in attempt.carried :
      /\ pending \in Mark
      /\ pending.branch = attempt.branch
      /\ TS[e] <= pending.ts
      /\ Matches(tag, e, attempt.branch)

\* A step that moves a watermark past a priced turn it was computed from leaves
\* that turn in a commit of the branch, unless the attempt that counted it was aborted or
\* restored an older message.
NoSilentSkip ==
  [][\A e \in priced \cap counted, b \in Branch :
        /\ Matches(tag, e, b) /\ marks[b] < TS[e] /\ TS[e] <= marks'[b]
        => <<b, e>> \in stamped' \/ e \in abandoned]_vars

\* The promoted line was cut in its digits and reads as an earlier time.
PromotesCutLine == Consume /\ pending.ts = 0

\* A watermark never moves back, stale pending entries included, except when its
\* file is torn or the line promoted to it was.
WatermarkForward ==
  [][\/ \A b \in Branch : marks[b] <= marks'[b]
     \/ PromotesCutLine
     \/ \E kept \in SUBSET Branch : ConsumeTorn(kept)]_vars

\* state.go:18-20, trailer_test.go:261: "a cancelled commit never reaches consume,
\* so its usage carries forward": what an aborted attempt counted is in a later
\* commit or still after the watermark.
CancelledCarriesForward ==
  \A e \in abandoned :
    BranchOf[e] \in Branch /\ <<BranchOf[e], e>> \notin stamped => TS[e] > marks[BranchOf[e]]

==============================================================================
