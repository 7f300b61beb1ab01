---------------------------- MODULE TrailerProofs ----------------------------
(***************************************************************************)
(* Proofs about Trailer.  AtMostOnce is not inductive: that a turn is       *)
(* charged once rests on its watermark being behind it while a message      *)
(* carries it, and on the staged mark covering the whole message if the hook *)
(* that stamped it finished staging.  IInv says so for the message being     *)
(* edited and for the aborted one that may still be restored.                *)
(***************************************************************************)
EXTENDS Trailer, TLAPS

\* A message whose turns are all after the committed watermark of its branch and, if
\* they were staged, none after the staged one.
Open(msg) ==
  \A e \in msg.carried :
    /\ msg.branch \in Branch
    /\ marks[msg.branch] < TS[e]
    /\ Matches(tag, e, msg.branch)
    /\ \/ unstaged
       \/ /\ pending \in Mark
          /\ pending.branch = msg.branch
          /\ TS[e] <= pending.ts

\* The watermark of a branch is past every turn it settled, and what a branch stamped
\* its log line names or leaves open.
Charged ==
  /\ \A c \in settled : TS[c[2]] <= marks[c[1]]
  /\ \A c \in stamped : BranchOf[c[2]] \in {c[1], NoBranch}

\* Only a turn logged on a detached HEAD has a row that names another branch.
TagsKept == \A e \in Event \ Detached : tag[e] = BranchOf[e]

IInv ==
  /\ TypeOK
  /\ rebasing # NoBranch => head = NoBranch
  /\ pending \in Mark /\ pending.ts # 0 => marks[pending.branch] <= pending.ts
  /\ attempt # NoAttempt => /\ Open(attempt)
                            /\ attempt.branch = head
                            /\ editmsg.carried = {}
  /\ Open(editmsg)
  /\ editmsg.carried \subseteq priced
  /\ attempt # NoAttempt => attempt.carried \subseteq priced
  /\ editmsg.carried # {} => editmsg.branch = head
  /\ Charged
  /\ TagsKept

-----------------------------------------------------------------------------

\* The staged time is the time of a counted turn, and none was later.
LEMMA MaxTSIsLatest ==
  ASSUME NEW S \in SUBSET Event, S # {}
  PROVE  /\ MaxTS(S) \in Nat \ {0}
         /\ \A e \in S : TS[e] <= MaxTS(S)
         /\ \E e \in S : TS[e] = MaxTS(S)
<1>1. PICK e \in S : \A f \in S : TS[f] <= TS[e]
  BY UsageHasLatest
<1>2. TS[e] \in {TS[f] : f \in S} /\ \A f \in S : TS[f] <= TS[e]
  BY <1>1
<1>3. /\ MaxTS(S) \in {TS[f] : f \in S}
      /\ \A f \in S : TS[f] <= MaxTS(S)
  BY <1>2 DEF MaxTS
<1>4. QED
  BY <1>3, TimesAndTags

\* A scan leaves every turn that belongs to HEAD's branch with it: a row that is
\* written anew gets that branch.
LEMMA ImportKeepsHead ==
  ASSUME TypeOK, TagsKept, NEW ok, NEW again, Import(ok, again)
  PROVE  /\ tag' \in [Event -> Ref] /\ TagsKept'
         /\ \A e \in Event : Matches(tag, e, head) => Matches(tag', e, head)
<1>1. /\ tag \in [Event -> Ref] /\ head \in Ref
      /\ tag' = [e \in Event |->
                   IF e \in Detached \cap ((Scanned(ok) \ ledger) \cup Reread(ok, again))
                   THEN head ELSE tag[e]]
  BY DEF TypeOK, Import, Resolved
<1>2. /\ tag' \in [Event -> Ref]
      /\ \A e \in Event : tag'[e] = tag[e] \/ (e \in Detached /\ tag'[e] = head)
  BY <1>1
<1>3. QED
  BY <1>2 DEF TagsKept, Matches

LEMMA InitEstablishesIInv == Init => IInv
<1> SUFFICES ASSUME Init PROVE IInv
  OBVIOUS
<1>1. NoTrailer.carried = {} /\ NoTrailer \in Attempt
  BY DEF NoTrailer, Attempt, Ref
<1>2. TypeOK
  BY <1>1, TimesAndTags DEF Init, TypeOK, Ref
<1>3. Open(editmsg) /\ Charged /\ TagsKept
  BY <1>1, TimesAndTags DEF Init, Open, Charged, TagsKept
<1>4. QED
  BY <1>1, <1>2, <1>3, Sentinels DEF Init, IInv, Mark

-----------------------------------------------------------------------------
(* Steps of the world around the hooks leave marks, messages and counters alone. *)

\* What Charged and Open depend on, besides the messages.
books == <<marks, pending, stamped, settled, unstaged>>

LEMMA WorldSteps ==
  ASSUME IInv,
         \/ \E e \in Event : LogTurn(e)
         \/ \E ok \in SUBSET Provider, again \in SUBSET Detached : Scan(ok, again)
         \/ Reprice \/ Git
  PROVE  IInv'
<1>1. TypeOK'
  <2>1. ASSUME NEW e \in Event, LogTurn(e) PROVE TypeOK'
    BY <2>1 DEF IInv, TypeOK, LogTurn, repoVars, markVars, historyVars
  <2>2. ASSUME NEW ok \in SUBSET Provider, NEW again \in SUBSET Detached, Scan(ok, again)
        PROVE  TypeOK'
    <3>1. tag' \in [Event -> Ref]
      BY <2>2, ImportKeepsHead DEF IInv, Scan
    <3>2. QED
      BY <2>2, <3>1 DEF IInv, TypeOK, Scan, Import, Scanned, repoVars, markVars, historyVars
  <2>3. CASE Reprice
    BY <2>3 DEF IInv, TypeOK, Reprice, repoVars, markVars, historyVars
  <2>4. CASE Git
    <3>1. NoTrailer \in Attempt
      BY DEF NoTrailer, Attempt, Ref
    <3>2. QED
      BY <2>4, <3>1 DEF IInv, TypeOK, Git, Checkout, StartRebase, EndRebase, ToggleAm,
         ToggleEnabled, Ref, ledgerVars, markVars, historyVars
  <2>5. QED
    BY <2>1, <2>2, <2>3, <2>4
<1>2. UNCHANGED <<books, attempt>>
  BY DEF books, LogTurn, Scan, Reprice, Git, Checkout, StartRebase, EndRebase, ToggleAm,
     ToggleEnabled, markVars, historyVars
<1>3. \/ UNCHANGED <<head, editmsg>>
      \/ attempt = NoAttempt /\ editmsg' = NoTrailer
      \/ attempt = NoAttempt /\ rebasing # NoBranch /\ EndRebase
  BY DEF LogTurn, Scan, Reprice, Git, Checkout, StartRebase, EndRebase, ToggleAm,
     ToggleEnabled, repoVars
<1>4. Charged' /\ (rebasing # NoBranch => head = NoBranch)' /\ TagsKept'
  <2>1. Charged'
    BY <1>2 DEF IInv, Charged, books
  <2>2. (rebasing # NoBranch => head = NoBranch)'
    BY DEF IInv, LogTurn, Scan, Reprice, Git, Checkout, StartRebase, EndRebase, ToggleAm,
       ToggleEnabled, RebaseInProgress, repoVars
  <2>3. TagsKept'
    <3>1. CASE UNCHANGED tag
      BY <3>1 DEF IInv, TagsKept
    <3>2. CASE ~UNCHANGED tag
      <4>1. PICK ok \in SUBSET Provider, again \in SUBSET Detached : Scan(ok, again)
        BY <3>2 DEF LogTurn, Reprice, Git, Checkout, StartRebase, EndRebase, ToggleAm,
           ToggleEnabled, ledgerVars
      <4>2. QED
        BY <4>1, ImportKeepsHead DEF IInv, Scan
    <3>3. QED
      BY <3>1, <3>2
  <2>4. QED
    BY <2>1, <2>2, <2>3
<1>5. priced \subseteq priced'
  BY DEF IInv, TypeOK, LogTurn, Scan, Import, Reprice, Git, Checkout, StartRebase, EndRebase,
     ToggleAm, ToggleEnabled, ledgerVars
<1>6. CASE UNCHANGED <<head, editmsg>>
  <2>1. \A e \in Event : Matches(tag, e, head) => Matches(tag', e, head)
    <3>1. CASE UNCHANGED tag
      BY <3>1
    <3>2. CASE ~UNCHANGED tag
      <4>1. PICK ok \in SUBSET Provider, again \in SUBSET Detached : Scan(ok, again)
        BY <3>2 DEF LogTurn, Reprice, Git, Checkout, StartRebase, EndRebase, ToggleAm,
           ToggleEnabled, ledgerVars
      <4>2. QED
        BY <4>1, ImportKeepsHead DEF IInv, Scan
    <3>3. QED
      BY <3>1, <3>2
  <2>2. editmsg.carried \subseteq Event
    BY DEF IInv, TypeOK, Attempt
  <2>3. Open(editmsg)'
    BY <1>2, <1>6, <2>1, <2>2 DEF IInv, Open, books
  <2>4. attempt # NoAttempt => Open(attempt)'
    <3> SUFFICES ASSUME attempt # NoAttempt PROVE Open(attempt)'
      OBVIOUS
    <3>1. attempt.carried \subseteq Event /\ attempt.branch = head /\ Open(attempt)
      BY DEF IInv, TypeOK, Attempt
    <3>2. QED
      BY <1>2, <1>6, <2>1, <3>1 DEF Open, books
  <2>5. QED
    BY <1>1, <1>2, <1>4, <1>6, <1>5, <2>3, <2>4 DEF IInv, books
<1>7. CASE attempt = NoAttempt /\ editmsg' = NoTrailer
  BY <1>1, <1>2, <1>4, <1>7, <1>5 DEF IInv, Open, books, NoTrailer
<1>8. CASE attempt = NoAttempt /\ rebasing # NoBranch /\ EndRebase
  <2>1. editmsg' = editmsg /\ tag' = tag
    BY <1>8 DEF EndRebase, ledgerVars
  <2>2. editmsg.carried = {}
    BY <1>8, TimesAndTags DEF IInv, Open, TypeOK, Mark
  <2>3. QED
    BY <1>1, <1>2, <1>4, <1>8, <1>5, <2>1, <2>2 DEF IInv, Open, books
<1>9. QED
  BY <1>3, <1>6, <1>7, <1>8

-----------------------------------------------------------------------------
(* The hooks. *)

\* prepare-commit-msg: what the new message carries is open and covered by the
\* staged mark, whether it was computed now or restored.
LEMMA BeginSteps ==
  ASSUME IInv,
         NEW source \in Sources, NEW msg \in Messages, BeginCommit(source, msg)
  PROVE  IInv'
<1>1. attempt = NoAttempt /\ UNCHANGED <<marks, stamped, settled, head, rebasing>>
  BY DEF BeginCommit, repoVars
<1>2. editmsg' = NoTrailer /\ editmsg'.carried = {} /\ NoTrailer \in Attempt
  BY DEF BeginCommit, NoTrailer, Attempt, Ref
<1>3. msg \subseteq editmsg.carried /\ editmsg.carried \subseteq Event
  BY DEF Messages, IInv, TypeOK, Attempt
<1>4. Open(editmsg)' /\ Charged' /\ (rebasing # NoBranch => head = NoBranch)'
  BY <1>1, <1>2 DEF IInv, Open, Charged
<1>5. ASSUME LeavesMessage(msg), tag' \in [Event -> Ref], TagsKept',
             ledger' \subseteq logged, priced' \subseteq ledger', priced \subseteq priced',
             \A e \in Event : Matches(tag, e, head) => Matches(tag', e, head)
      PROVE  IInv'
  <2>1. /\ UNCHANGED <<pending, counted, abandoned>>
        /\ unstaged' = (unstaged /\ msg # {}) /\ unstaged' \in BOOLEAN
    BY <1>5 DEF LeavesMessage, IInv, TypeOK
  <2>2. attempt' = [branch |-> head, carried |-> msg] /\ attempt' \in Attempt
    BY <1>3, <1>5 DEF LeavesMessage, IInv, TypeOK, Attempt, Ref
  <2>3. TypeOK'
    BY <1>2, <1>5, <2>1, <2>2 DEF BeginCommit, IInv, TypeOK, repoVars
  <2>4. Open(attempt)'
    <3> SUFFICES ASSUME NEW e \in msg
                 PROVE  /\ head \in Branch /\ marks[head] < TS[e] /\ Matches(tag', e, head)
                        /\ \/ unstaged'
                           \/ pending \in Mark /\ pending.branch = head /\ TS[e] <= pending.ts
      BY <1>1, <2>1, <2>2 DEF Open
    <3>1. editmsg.branch = head /\ e \in editmsg.carried /\ e \in Event
      BY <1>3 DEF IInv
    <3>2. QED
      BY <1>5, <2>1, <3>1 DEF IInv, Open
  <2>5. (attempt # NoAttempt => attempt.carried \subseteq priced)'
    BY <1>3, <1>5, <2>2 DEF IInv
  <2>6. QED
    BY <1>1, <1>2, <1>4, <1>5, <2>1, <2>2, <2>3, <2>4, <2>5 DEF IInv
<1>6. CASE PrepareSkips(source, msg)
  <2>1. LeavesMessage(msg) /\ UNCHANGED <<priced, ledger, tag, logged>>
    BY <1>6 DEF PrepareSkips, BeginCommit
  <2>2. /\ tag' \in [Event -> Ref] /\ TagsKept'
        /\ ledger' \subseteq logged /\ priced' \subseteq ledger' /\ priced \subseteq priced'
        /\ \A e \in Event : Matches(tag, e, head) => Matches(tag', e, head)
    BY <2>1 DEF IInv, TypeOK, TagsKept
  <2>3. QED
    BY <1>5, <2>1, <2>2
<1>7. ASSUME NEW ok \in SUBSET Provider, NEW again \in SUBSET Detached,
             PrepareStamps(source, msg, ok, again)
      PROVE  IInv'
  <2> DEFINE usage == PendingUsage(head, priced', tag')
  <2>0. /\ tag' \in [Event -> Ref] /\ TagsKept'
        /\ \A e \in Event : Matches(tag, e, head) => Matches(tag', e, head)
    BY <1>7, ImportKeepsHead DEF IInv, PrepareStamps
  <2>1. head \in Branch /\ marks \in [Branch -> Nat]
    BY <1>7 DEF PrepareStamps, IInv, TypeOK, Ref
  <2>2. /\ ledger' \subseteq logged /\ priced' \subseteq ledger'
        /\ priced \subseteq priced' /\ priced' \subseteq Event
    BY <1>7 DEF PrepareStamps, Import, Scanned, IInv, TypeOK
  <2>3. usage \subseteq Event
    BY <2>2 DEF PendingUsage
  <2>4. CASE LeavesMessage(msg)
    BY <1>5, <2>0, <2>2, <2>4
  <2>5. \A e \in usage : Matches(tag', e, head) /\ marks[head] < TS[e] /\ e \in priced'
    BY <2>1, <2>3, TimesAndTags DEF PendingUsage
  <2>6. \A e \in msg : editmsg.branch = head /\ e \in usage /\ marks[head] < TS[e]
    <3>1. TAKE e \in msg
    <3>2. editmsg.branch = head /\ e \in editmsg.carried /\ e \in Event /\ e \in priced
      BY <1>3 DEF IInv
    <3>3. Matches(tag', e, head) /\ marks[head] < TS[e]
      BY <2>0, <3>2 DEF IInv, Open
    <3>4. QED
      BY <2>2, <3>2, <3>3, TimesAndTags DEF PendingUsage
  <2>7. ASSUME attempt' = Stamped(msg, usage)
        PROVE  /\ attempt' \in Attempt /\ attempt'.branch = head
               /\ attempt'.carried \subseteq usage
               /\ attempt'.carried = (IF msg = {} THEN usage ELSE msg)
    BY <1>3, <2>1, <2>3, <2>6, <2>7 DEF Stamped, Attempt, Ref
  <2>8. ASSUME attempt' = Stamped(msg, usage), TypeOK',
               (pending \in Mark /\ pending.ts # 0 => marks[pending.branch] <= pending.ts)',
               \A e \in attempt'.carried :
                  \/ unstaged'
                  \/ pending' \in Mark /\ pending'.branch = head /\ TS[e] <= pending'.ts
        PROVE  IInv'
    <3>1. Open(attempt)'
      BY <1>1, <2>1, <2>5, <2>7, <2>8 DEF Open
    <3>2. attempt'.carried \subseteq priced' /\ attempt'.branch = head'
      BY <1>1, <2>5, <2>7, <2>8
    <3>3. QED
      BY <1>1, <1>2, <1>4, <2>0, <2>8, <3>1, <3>2 DEF IInv
  <2>9. CASE usage # {} /\ StampAndStage(msg, usage)
    <3>1. /\ attempt' = Stamped(msg, usage) /\ unstaged' = FALSE
          /\ pending' = [branch |-> head, ts |-> MaxTS(usage)]
          /\ counted' = usage
          /\ abandoned' = abandoned \cup (usage \ attempt'.carried)
      BY <2>9 DEF StampAndStage, StagedMark
    <3>2. MaxTS(usage) \in Nat \ {0} /\ \A e \in usage : TS[e] <= MaxTS(usage)
      BY <2>3, <2>9, MaxTSIsLatest
    <3>3. PICK e \in usage : TS[e] = MaxTS(usage)
      BY <2>3, <2>9, MaxTSIsLatest
    <3>4. pending' \in Mark
      BY <2>1, <3>1, <3>2 DEF Mark
    <3>5. marks'[pending'.branch] <= pending'.ts
      BY <1>1, <2>1, <2>3, <2>5, <3>1, <3>2, <3>3, TimesAndTags
    <3>6. TypeOK'
      <4>1. counted' \subseteq Event /\ abandoned' \subseteq Event /\ unstaged' \in BOOLEAN
        BY <2>3, <3>1 DEF IInv, TypeOK
      <4>2. QED
        BY <1>2, <2>0, <2>2, <2>7, <3>1, <3>4, <4>1 DEF BeginCommit, IInv, TypeOK, repoVars
    <3>7. \A f \in attempt'.carried : pending'.branch = head /\ TS[f] <= pending'.ts
      BY <2>7, <3>1, <3>2
    <3>8. QED
      BY <2>8, <3>1, <3>4, <3>5, <3>6, <3>7
  <2>10. CASE usage # {} /\ StageLost(msg, usage)
    <3>1. /\ attempt' = Stamped(msg, usage) /\ unstaged' = (unstaged \/ msg = {})
          /\ UNCHANGED <<pending, counted, abandoned>> /\ unstaged' \in BOOLEAN
      BY <2>10 DEF StageLost, IInv, TypeOK
    <3>2. TypeOK'
      BY <1>2, <2>0, <2>2, <2>7, <3>1 DEF BeginCommit, IInv, TypeOK, repoVars
    <3>3. ASSUME NEW e \in attempt'.carried
          PROVE  \/ unstaged'
                 \/ pending' \in Mark /\ pending'.branch = head /\ TS[e] <= pending'.ts
      <4>1. CASE msg = {}
        BY <3>1, <4>1
      <4>2. CASE msg # {}
        <5>1. e \in editmsg.carried /\ editmsg.branch = head
          BY <1>3, <2>6, <2>7, <3>1, <3>3, <4>2
        <5>2. QED
          BY <3>1, <5>1 DEF IInv, Open
      <4>3. QED
        BY <4>1, <4>2
    <3>4. (pending \in Mark /\ pending.ts # 0 => marks[pending.branch] <= pending.ts)'
      BY <1>1, <3>1 DEF IInv
    <3>5. QED
      BY <2>8, <3>1, <3>2, <3>3, <3>4
  <2>11. CASE usage # {} /\ StageTorn(msg, usage)
    <3>1. /\ attempt' = Stamped(msg, usage) /\ unstaged' = TRUE
          /\ pending' \in {Torn, [branch |-> head, ts |-> 0]}
          /\ counted' = {} /\ UNCHANGED abandoned
      BY <2>11 DEF StageTorn
    <3>2. pending' \in Mark \cup {NoMark, Torn} /\ ~(pending' \in Mark /\ pending'.ts # 0)
      BY <2>1, <3>1, Sentinels DEF Mark
    <3>3. TypeOK'
      BY <1>2, <2>0, <2>2, <2>7, <3>1, <3>2 DEF BeginCommit, IInv, TypeOK, repoVars
    <3>4. QED
      BY <2>8, <3>1, <3>2, <3>3
  <2>12. QED
    BY <1>7, <2>4, <2>9, <2>10, <2>11 DEF PrepareStamps
<1>8. QED
  BY <1>6, <1>7 DEF BeginCommit

LEMMA CancelStep == IInv /\ CancelCommit => IInv'
<1> SUFFICES ASSUME IInv, CancelCommit PROVE IInv'
  OBVIOUS
<1>1. /\ attempt # NoAttempt /\ attempt' = NoAttempt /\ editmsg' = attempt
      /\ UNCHANGED <<books, head, rebasing>>
  BY DEF CancelCommit, books, markVars, repoVars
<1>2. TypeOK'
  BY DEF CancelCommit, IInv, TypeOK, ledgerVars, repoVars, markVars, Attempt
<1>3. UNCHANGED priced /\ Charged' /\ Open(editmsg)' /\ TagsKept'
  BY <1>1 DEF CancelCommit, ledgerVars, IInv, Open, Charged, TagsKept, books
<1>4. QED
  BY <1>1, <1>2, <1>3 DEF IInv, books

\* Landing, whatever post-commit does next: the message is no longer edited, and its
\* branch has stamped exactly its turns.
LEMMA LandStamps ==
  ASSUME IInv, Land
  PROVE  /\ attempt # NoAttempt /\ attempt' = NoAttempt
         /\ editmsg' = editmsg /\ editmsg.carried = {}
         /\ UNCHANGED <<ledgerVars, repoVars, attempts, abandoned, unstaged>>
         /\ Carried \subseteq Branch \X Event
         /\ stamped' = stamped \cup Carried /\ stamped' \subseteq Branch \X Event
         /\ \A c \in stamped' : BranchOf[c[2]] \in {c[1], NoBranch}
<1>1. attempt # NoAttempt /\ attempt \in Attempt /\ Open(attempt)
  BY DEF Land, IInv, TypeOK
<1>2. attempt.carried \subseteq Event /\ attempt.branch \in Ref
  BY <1>1 DEF Attempt
<1>3. attempt.carried # {} => attempt.branch \in Branch
  BY <1>1 DEF Open
<1>4. ASSUME NEW e \in attempt.carried PROVE BranchOf[e] \in {attempt.branch, NoBranch}
  <2>1. tag[e] \in {attempt.branch, NoBranch} /\ (e \in Detached \/ tag[e] = BranchOf[e])
    BY <1>1, <1>2 DEF Open, Matches, IInv, TagsKept
  <2>2. QED
    BY <2>1, TimesAndTags
<1>5. Carried \subseteq Branch \X Event /\ \A c \in Carried : BranchOf[c[2]] \in {c[1], NoBranch}
  BY <1>2, <1>3, <1>4 DEF Carried
<1>6. QED
  BY <1>1, <1>5 DEF Land, IInv, TypeOK, Charged

\* A landing that leaves the watermarks alone settles nothing.
LEMMA LostSteps == IInv /\ (StandDown \/ DiscardTorn \/ ConsumeLost) => IInv'
<1> SUFFICES ASSUME IInv, StandDown \/ DiscardTorn \/ ConsumeLost PROVE IInv'
  OBVIOUS
<1>1. /\ Land /\ UNCHANGED <<marks, settled>>
      /\ \/ UNCHANGED <<pending, counted>>
         \/ pending = Torn /\ pending' = NoMark /\ counted' = {}
  BY DEF StandDown, DiscardTorn, ConsumeLost, markVars
<1>2. TypeOK'
  BY <1>1, LandStamps DEF IInv, TypeOK, ledgerVars, repoVars
<1>3. Charged' /\ TagsKept'
  BY <1>1, LandStamps DEF IInv, Charged, TagsKept, ledgerVars
<1>4. (pending \in Mark /\ pending.ts # 0 => marks[pending.branch] <= pending.ts)'
  BY <1>1, Sentinels DEF IInv, Mark
<1>5. QED
  BY <1>1, <1>2, <1>3, <1>4, LandStamps DEF IInv, Open, ledgerVars, repoVars

\* A landing that promotes: the entry is for the branch of the turns the commit staged,
\* and past them; what stays settled is settled by the marks as they then are.
LEMMA LandingIsCovered ==
  ASSUME IInv, Land, Promotes
  PROVE  /\ pending \in Mark
         /\ pending.ts # 0 => marks[pending.branch] <= pending.ts
         /\ Promoted \in [Branch -> Nat]
         /\ \A b \in Branch : Promoted[b] = IF b = pending.branch THEN pending.ts ELSE marks[b]
         /\ SettledNow \subseteq settled \cup Carried
         /\ \A c \in SettledNow : TS[c[2]] <= Promoted[c[1]]
<1>1. attempt \in Attempt /\ Open(attempt) /\ marks \in [Branch -> Nat]
  BY LandStamps DEF IInv, TypeOK
<1>2. pending \in Mark /\ (pending.ts # 0 => marks[pending.branch] <= pending.ts)
  BY DEF IInv, TypeOK, Promotes, ConsumeStandsDown
<1>3. /\ Promoted \in [Branch -> Nat]
      /\ \A b \in Branch : Promoted[b] = IF b = pending.branch THEN pending.ts ELSE marks[b]
  BY <1>1, <1>2 DEF Promoted, Mark
<1>4. SettledNow \subseteq settled \cup Carried
  BY DEF SettledNow
<1>5. ASSUME NEW c \in SettledNow PROVE TS[c[2]] <= Promoted[c[1]]
  <2>1. /\ c \in Branch \X Event /\ c[1] \in Branch /\ c[2] \in Event
        /\ TS[c[2]] \in Nat \ {0} /\ pending.ts \in Nat /\ marks[c[1]] \in Nat
    BY <1>1, <1>2, <1>4, LandStamps, TimesAndTags DEF IInv, TypeOK, Mark
  <2>2. c \in settled \/ (~unstaged /\ c \in Carried)
    BY DEF SettledNow
  <2>3. pending.ts = 0 => c[1] # pending.branch
    BY DEF SettledNow
  <2>4. CASE c \in settled
    <3>1. TS[c[2]] <= marks[c[1]]
      BY <2>4 DEF IInv, Charged
    <3>2. CASE c[1] # pending.branch
      BY <1>3, <2>1, <3>1, <3>2
    <3>3. CASE c[1] = pending.branch
      <4>1. marks[pending.branch] <= pending.ts /\ Promoted[c[1]] = pending.ts
        BY <1>2, <1>3, <2>1, <2>3, <3>3
      <4>2. QED
        BY <2>1, <3>1, <3>3, <4>1
    <3>4. QED
      BY <3>2, <3>3
  <2>5. CASE ~unstaged /\ c \in Carried
    <3>1. c[1] = attempt.branch /\ c[2] \in attempt.carried
      BY <2>5 DEF Carried
    <3>2. c[1] = pending.branch /\ TS[c[2]] <= pending.ts
      BY <1>1, <2>5, <3>1 DEF Open
    <3>3. QED
      BY <1>3, <2>1, <3>2
  <2>6. QED
    BY <2>2, <2>4, <2>5
<1>6. QED
  BY <1>2, <1>3, <1>4, <1>5

LEMMA ConsumeStep == IInv /\ Consume => IInv'
<1> SUFFICES ASSUME IInv, Consume PROVE IInv'
  OBVIOUS
<1>1. /\ Land /\ Promotes /\ marks' = Promoted /\ pending' = NoMark
      /\ counted' = {} /\ settled' = SettledNow
  BY DEF Consume
<1>2. TypeOK'
  BY <1>1, LandStamps, LandingIsCovered DEF IInv, TypeOK, ledgerVars, repoVars
<1>3. Charged' /\ TagsKept'
  BY <1>1, LandStamps, LandingIsCovered DEF IInv, Charged, TagsKept, ledgerVars
<1>4. pending' \notin Mark
  BY <1>1, Sentinels DEF Mark
<1>5. QED
  BY <1>1, <1>2, <1>3, <1>4, LandStamps DEF IInv, Open, ledgerVars, repoVars

\* A torn watermark file forgets branches, and what they had settled; the lines that
\* survive include at most the promoted one.
LEMMA TornStep ==
  ASSUME IInv, NEW kept \in SUBSET Branch, ConsumeTorn(kept)
  PROVE  IInv'
<1>1. /\ Land /\ Promotes /\ UNCHANGED <<pending, counted>>
      /\ marks' = [b \in Branch |-> IF b \in kept THEN Promoted[b] ELSE 0]
      /\ settled' = {c \in SettledNow : c[1] \in kept}
  BY DEF ConsumeTorn
<1>2. /\ marks' \in [Branch -> Nat]
      /\ \A b \in Branch :
           marks'[b] = IF b \notin kept THEN 0
                       ELSE IF b = pending.branch THEN pending.ts ELSE marks[b]
  BY <1>1, LandingIsCovered
<1>3. TypeOK'
  BY <1>1, <1>2, LandStamps, LandingIsCovered DEF IInv, TypeOK, ledgerVars, repoVars
<1>4. (pending \in Mark /\ pending.ts # 0 => marks[pending.branch] <= pending.ts)'
  BY <1>1, <1>2, LandingIsCovered DEF Mark
<1>5. Charged' /\ TagsKept'
  <2>1. ASSUME NEW c \in SettledNow, c[1] \in kept PROVE TS[c[2]] <= marks'[c[1]]
    <3>1. c[1] \in Branch /\ TS[c[2]] <= Promoted[c[1]]
      BY <1>1, LandingIsCovered, LandStamps DEF IInv, TypeOK
    <3>2. QED
      BY <1>1, <2>1, <3>1
  <2>2. QED
    BY <1>1, <2>1, LandStamps DEF IInv, Charged, TagsKept, ledgerVars
<1>6. QED
  BY <1>1, <1>3, <1>4, <1>5, LandStamps DEF IInv, Open, ledgerVars, repoVars

-----------------------------------------------------------------------------

LEMMA StepPreservesIInv == IInv /\ [Next]_vars => IInv'
<1>1. ASSUME IInv, UNCHANGED vars PROVE IInv'
  BY <1>1 DEF IInv, TypeOK, Open, Charged, TagsKept, Matches, vars, ledgerVars, repoVars,
     markVars, historyVars
<1>2. QED
  BY <1>1, WorldSteps, BeginSteps, CancelStep, LostSteps, ConsumeStep, TornStep DEF Next

\* What AtMostOnce and StagedCoversMessage need from IInv.
LEMMA IInvImplies == IInv => AtMostOnce /\ StagedCoversMessage
<1>1. IInv => AtMostOnce
  <2> SUFFICES ASSUME IInv, attempt # NoAttempt, NEW c \in Carried, c \in settled PROVE FALSE
    BY DEF IInv, Charged, AtMostOnce
  <2>1. /\ c[1] = attempt.branch /\ c[2] \in attempt.carried
        /\ c \in Branch \X Event
    BY DEF Carried, IInv, TypeOK
  <2>2. marks[c[1]] < TS[c[2]] /\ TS[c[2]] <= marks[c[1]]
    BY <2>1 DEF IInv, Open, Charged
  <2>3. marks[c[1]] \in Nat /\ TS[c[2]] \in Nat
    BY <2>1, TimesAndTags DEF IInv, TypeOK
  <2>4. QED
    BY <2>2, <2>3
<1>2. IInv => StagedCoversMessage
  BY DEF IInv, Open, StagedCoversMessage
<1>3. QED
  BY <1>1, <1>2

LEMMA IInvHolds == Spec => []IInv
BY InitEstablishesIInv, StepPreservesIInv, PTL DEF Spec

\* The variables of every checkout keep their types: the pending file never holds
\* a mark for a detached HEAD, and only imported turns are priced.
THEOREM TypeCorrect == Spec => []TypeOK
<1>1. IInv => TypeOK
  BY DEF IInv
<1>2. QED
  BY <1>1, IInvHolds, PTL

\* In any repository and for any order of scans, commits, aborts, checkouts,
\* rebases and lost hooks, no message carries a turn its branch has settled, though
\* rows move from branch to branch as they are read again.
THEOREM ChargedAtMostOnce == Spec => []AtMostOnce
BY IInvImplies, IInvHolds, PTL

\* The staged watermark always covers the message being edited.
THEOREM MessageCovered == Spec => []StagedCoversMessage
BY IInvImplies, IInvHolds, PTL

\* Watermarks only move forward, even when a stale pending entry is promoted.
THEOREM WatermarksForward == Spec => WatermarkForward
<1>1. ASSUME IInv, [Next]_vars
      PROVE  [\/ \A b \in Branch : marks[b] <= marks'[b]
              \/ PromotesCutLine
              \/ \E kept \in SUBSET Branch : ConsumeTorn(kept)]_vars
  <2>1. marks \in [Branch -> Nat]
    BY <1>1 DEF IInv, TypeOK
  <2>2. CASE Consume /\ pending.ts # 0
    <3>1. /\ pending \in Mark /\ marks[pending.branch] <= pending.ts /\ marks' = Promoted
          /\ \A b \in Branch : Promoted[b] = IF b = pending.branch THEN pending.ts ELSE marks[b]
      BY <1>1, <2>2, LandingIsCovered DEF Consume
    <3>2. QED
      BY <2>1, <3>1 DEF Mark
  <2>3. CASE Consume /\ pending.ts = 0
    BY <2>3 DEF PromotesCutLine
  <2>4. CASE ~Consume
    <3>1. \/ UNCHANGED marks
          \/ \E kept \in SUBSET Branch : ConsumeTorn(kept)
      BY <1>1, <2>4 DEF Next, LogTurn, Scan, Reprice, Git, Checkout, StartRebase, EndRebase,
         ToggleAm, ToggleEnabled, BeginCommit, CancelCommit, StandDown, DiscardTorn,
         ConsumeLost, markVars, vars
    <3>2. QED
      BY <2>1, <3>1
  <2>5. QED
    BY <2>2, <2>3, <2>4
<1>2. QED
  BY <1>1, IInvHolds, PTL DEF Spec, WatermarkForward

-----------------------------------------------------------------------------
(* Nothing is skipped silently. *)

\* Every turn the staged mark was computed from is in a commit of its branch, was
\* abandoned, or is in the message being edited.
Accounted ==
  \A e \in counted :
    \/ <<pending.branch, e>> \in stamped
    \/ e \in abandoned
    \/ attempt # NoAttempt /\ attempt.branch = pending.branch /\ e \in attempt.carried

\* A landing turns the message being edited into a commit.
LEMMA LandAccounts ==
  ASSUME Accounted, Land
  PROVE  \A e \in counted : <<pending.branch, e>> \in stamped' \/ e \in abandoned'
BY DEF Accounted, Land, Carried

LEMMA AccountedSteps == IInv /\ Accounted /\ [Next]_vars => Accounted'
<1> SUFFICES ASSUME IInv, Accounted, [Next]_vars PROVE Accounted'
  OBVIOUS
<1>1. ASSUME NEW source \in Sources, NEW msg \in Messages, BeginCommit(source, msg)
      PROVE  Accounted'
  <2>1. attempt = NoAttempt /\ stamped' = stamped
    BY <1>1 DEF BeginCommit
  <2>2. CASE UNCHANGED <<pending, counted, abandoned>>
    BY <2>1, <2>2 DEF Accounted
  <2>3. CASE counted' = {}
    BY <2>3 DEF Accounted
  <2>4. ASSUME NEW ok \in SUBSET Provider, NEW again \in SUBSET Detached,
               PrepareStamps(source, msg, ok, again),
               StampAndStage(msg, PendingUsage(head, priced', tag'))
        PROVE  Accounted'
    <3> DEFINE usage == PendingUsage(head, priced', tag')
    <3>1. /\ attempt' = [branch |-> head, carried |-> IF msg = {} THEN usage ELSE msg]
          /\ pending' = StagedMark(head, usage) /\ counted' = usage
          /\ abandoned' = abandoned \cup (usage \ attempt'.carried)
      BY <2>4 DEF StampAndStage, Stamped
    <3>2. attempt' \in Attempt
      <4>1. msg \subseteq Event /\ head \in Ref
        BY DEF Messages, IInv, TypeOK, Attempt
      <4>2. usage \subseteq Event
        BY <2>4 DEF PrepareStamps, Import, Scanned, PendingUsage, IInv, TypeOK
      <4>3. QED
        BY <3>1, <4>1, <4>2 DEF Attempt
    <3>3. attempt' # NoAttempt /\ attempt'.branch = pending'.branch
      BY <3>1, <3>2, Sentinels DEF Attempt, Ref, StagedMark
    <3>4. QED
      BY <3>1, <3>3 DEF Accounted
  <2>5. QED
    BY <1>1, <2>2, <2>3, <2>4 DEF BeginCommit, PrepareSkips, PrepareStamps, LeavesMessage,
       StageLost, StageTorn
<1>2. CASE CancelCommit
  BY <1>2 DEF CancelCommit, Accounted, markVars
<1>3. CASE StandDown \/ ConsumeLost
  BY <1>3, LandAccounts DEF StandDown, ConsumeLost, Accounted, markVars
<1>4. CASE Consume \/ DiscardTorn
  BY <1>4 DEF Consume, DiscardTorn, Accounted
<1>5. ASSUME NEW kept \in SUBSET Branch, ConsumeTorn(kept) PROVE Accounted'
  BY <1>5, LandAccounts DEF ConsumeTorn, Accounted
<1>6. CASE UNCHANGED <<pending, counted, stamped, abandoned, attempt>>
  BY <1>6 DEF Accounted
<1>7. QED
  BY <1>1, <1>2, <1>3, <1>4, <1>5, <1>6 DEF Next, LogTurn, Scan, Reprice, Git, Checkout,
     StartRebase, EndRebase, ToggleAm, ToggleEnabled, markVars, historyVars, vars

LEMMA AccountedHolds == Spec => []Accounted
<1>1. Init => Accounted
  BY DEF Init, Accounted
<1>2. QED
  BY <1>1, AccountedSteps, IInvHolds, PTL DEF Spec

\* A watermark that moves past a turn it was computed from leaves it in a commit of
\* the branch, or an attempt had abandoned it: whichever commit promotes the entry.
THEOREM NothingSkippedSilently == Spec => NoSilentSkip
<1>1. ASSUME IInv, Accounted, [Next]_vars
      PROVE  [\A e \in priced \cap counted, b \in Branch :
                /\ Matches(tag, e, b) /\ marks[b] < TS[e] /\ TS[e] <= marks'[b]
                => <<b, e>> \in stamped' \/ e \in abandoned]_vars
  <2> SUFFICES ASSUME NEW e \in priced \cap counted, NEW b \in Branch,
                      marks[b] < TS[e], TS[e] <= marks'[b]
               PROVE  <<b, e>> \in stamped' \/ e \in abandoned
    OBVIOUS
  <2>1. marks \in [Branch -> Nat] /\ TS[e] \in Nat \ {0} /\ marks[b] # marks'[b]
    BY <1>1, TimesAndTags DEF IInv, TypeOK
  <2>2. \/ Consume
        \/ \E kept \in SUBSET Branch : ConsumeTorn(kept)
    BY <1>1, <2>1 DEF Next, LogTurn, Scan, Reprice, Git, Checkout, StartRebase, EndRebase,
       ToggleAm, ToggleEnabled, BeginCommit, CancelCommit, StandDown, DiscardTorn, ConsumeLost,
       markVars, vars
  <2>3. Land /\ UNCHANGED abandoned
    BY <2>2 DEF Consume, ConsumeTorn, Land
  <2>4. b = pending.branch
    <3>1. pending \in Mark
      BY <1>1, <2>2, <2>3, LandingIsCovered DEF Consume, ConsumeTorn
    <3>2. \A c \in Branch \ {pending.branch} : marks'[c] \in {marks[c], 0}
      BY <2>1, <2>2, <3>1 DEF Consume, ConsumeTorn, Promoted, Mark
    <3>3. QED
      BY <2>1, <3>2
  <2>5. QED
    BY <1>1, <2>3, <2>4, LandAccounts
<1>2. QED
  BY <1>1, IInvHolds, AccountedHolds, PTL DEF Spec, NoSilentSkip

==============================================================================
