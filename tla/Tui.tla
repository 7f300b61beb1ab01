--------------------------------- MODULE Tui ----------------------------------
(***************************************************************************)
(* The explorer's update loop (internal/tui) as cli/tui.go wires it: one     *)
(* goroutine handles key presses, watch ticks and the results of background  *)
(* reloads; reloads run in goroutines of their own and their results arrive   *)
(* in any order.  A reload scans the logs into the store, then reads the      *)
(* configured plan, then the store, and hands the new periods to the loop.    *)
(*                                                                         *)
(* What the loop shows of a period is the number of its sessions and whether  *)
(* a plan covers it; a drill-down is one mode, since its lists are frozen      *)
(* when it opens; the plan picker confirms or cancels.                         *)
(***************************************************************************)
EXTENDS Integers, FiniteSetsExt

CONSTANTS
  NWindow,      \* how many windows cmdTui builds; the last one is "all time"
  MaxRows,      \* bound: sessions in a window
  Opening,      \* what the explorer opens on: sessions per window, and whether a plan is set
  Slot,         \* goroutines a reload can run in
  Flag,         \* the switches of the [trailers] editor
  MaxChanges,   \* bound: new sessions, rollovers of a window, plans set, trailers saved
  MaxFaults     \* bound: stores that cannot be opened, configs that cannot be written

ASSUME TuiParameters ==
  /\ NWindow \in Nat \ {0}
  /\ Slot # {}
  /\ MaxRows \in Nat /\ Opening \in [sessions : [1 .. NWindow -> 0 .. MaxRows], plan : BOOLEAN]
  /\ MaxChanges \in Nat /\ MaxFaults \in Nat

VARIABLES
  \* The world behind the loop.
  logs,         \* sessions per window in the session logs
  store,        \* sessions per window in the ledger
  boot,         \* what is left, per window, of the snapshot taken when the explorer opened
  plan,         \* a subscription plan is configured
  saved,        \* the switches that are not in .aispend.toml what they were at launch
  \* The model.
  periods,      \* the data it shows
  pIdx,         \* the window it shows
  curView,      \* the lens
  rows,         \* the session list: its length, and the lens its amounts are for
  cursor,
  mode,
  reloading,    \* the single-flight guard
  syncing,      \* the header says "syncing..."
  trailerCur, trailerEdit,
  \* The runtime.
  ticks,        \* armed watch timers and tick messages not yet handled
  job,          \* the reload in each goroutine
  changes, faults,
  \* History, read by no action's guard:
  settled,      \* since the launch reload there was a moment with no reload in flight
  toggled       \* switches flipped an odd number of times since the editor opened

worldVars == <<logs, store, boot, plan, saved>>
listVars == <<periods, pIdx, curView, rows, cursor>>
guardVars == <<reloading, syncing>>
editorVars == <<trailerCur, trailerEdit, toggled>>
runtimeVars == <<ticks, job, settled>>
countVars == <<changes, faults>>
vars == <<worldVars, listVars, mode, guardVars, editorVars, runtimeVars, countVars>>

-----------------------------------------------------------------------------
(* Types. *)

Window == 1 .. NWindow
Sessions == [Window -> 0 .. MaxRows]
Periods == [sessions : Sessions, plan : BOOLEAN]
View == {"api_equivalent", "amortized"}
Mode == {"list", "drill", "plan", "trailers", "quit"}
Stage == {"free", "scan", "plans", "build", "done"}

\* watch: the result re-arms the timer; sync: it does not.
Job == [stage : Stage, tag : {"watch", "sync"}, got : Periods]

TypeOK ==
  /\ logs \in Sessions /\ store \in Sessions /\ boot \in Sessions
  /\ plan \in BOOLEAN /\ saved \subseteq Flag
  /\ periods \in Periods /\ pIdx \in Window /\ curView \in View
  /\ rows \in [n : 0 .. MaxRows, view : View] /\ cursor \in Nat
  /\ mode \in Mode /\ reloading \in BOOLEAN /\ syncing \in BOOLEAN
  /\ trailerCur \subseteq Flag /\ trailerEdit \subseteq Flag /\ toggled \subseteq Flag
  /\ ticks \in Nat /\ job \in [Slot -> Job]
  /\ changes \in Nat /\ faults \in Nat
  /\ settled \in BOOLEAN

NoSessions == [w \in Window |-> 0]
Free == [stage |-> "free", tag |-> "watch", got |-> [sessions |-> NoSessions, plan |-> FALSE]]

\* The goroutine of the launch reload: any of them.
Launch == CHOOSE s \in Slot : TRUE

InFlight(jobs) == {s \in Slot : jobs[s].stage # "free"}

\* Those whose result will arm the watch timer.
Armers(jobs) == {s \in InFlight(jobs) : jobs[s].tag = "watch"}

Running == mode # "quit"
Fault == faults < MaxFaults /\ faults' = faults + 1
Change == changes < MaxChanges /\ changes' = changes + 1

-----------------------------------------------------------------------------
(* What is on the screen. *)

\* amortizedByProvider: a period is covered by a plan only if it has sessions to cover.
HasPlan(ps, w) == ps.plan /\ ps.sessions[w] > 0

\* availableViews.
Avail(ps, w) == {"api_equivalent"} \cup (IF HasPlan(ps, w) THEN {"amortized"} ELSE {})

\* ensureView: keep the lens if the window offers it.
Ensure(view, ps, w) == IF view \in Avail(ps, w) THEN view ELSE "api_equivalent"

\* refresh: lens and rows for window w of ps.
Refresh(ps, w, view) ==
  /\ periods' = ps /\ pIdx' = w
  /\ curView' = Ensure(view, ps, w)
  /\ rows' = [n |-> ps.sessions[w], view |-> Ensure(view, ps, w)]

Clamp(i, n) == IF i < n THEN i ELSE IF n = 0 THEN 0 ELSE n - 1

\* Mutant: the cursor is left where it was.
ApplyUnclamped(ps) ==
  /\ Refresh(ps, pIdx, curView)
  /\ UNCHANGED cursor

\* applyReloadResult: the windows come back with the same labels in the same order.
Apply(ps) ==
  /\ Refresh(ps, pIdx, curView)
  /\ cursor' = Clamp(cursor, ps.sessions[pIdx])

-----------------------------------------------------------------------------
(* Launch, and the world. *)

\* cmdTui scans and builds the periods before the explorer opens; the program's Init
\* then starts a reload.
Init ==
  /\ logs = Opening.sessions /\ store = logs /\ boot = logs
  /\ plan = Opening.plan /\ saved = {}
  /\ periods = Opening
  /\ pIdx \in Window /\ curView = "api_equivalent"
  /\ rows = [n |-> store[pIdx], view |-> "api_equivalent"] /\ cursor = 0
  /\ mode = "list" /\ reloading = FALSE /\ syncing = FALSE
  /\ trailerCur = saved /\ trailerEdit = {} /\ toggled = {}
  /\ ticks = 0
  /\ job = [s \in Slot |-> IF s = Launch THEN [Free EXCEPT !.stage = "scan"] ELSE Free]
  /\ changes = 0 /\ faults = 0
  /\ settled = FALSE

\* An agent starts a session: it falls in every window that reaches to now.
NewSession ==
  /\ Running /\ Change
  /\ \A w \in Window : logs[w] < MaxRows
  /\ logs' = [w \in Window |-> logs[w] + 1]
  /\ UNCHANGED <<store, boot, plan, saved, listVars, mode, guardVars, editorVars, runtimeVars, faults>>

\* Midnight, or the end of a month: a bounded window starts anew.
Rollover(w) ==
  /\ Running /\ Change
  /\ w < NWindow
  /\ logs' = [logs EXCEPT ![w] = 0]
  /\ store' = [store EXCEPT ![w] = 0]
  /\ boot' = [boot EXCEPT ![w] = 0]
  /\ UNCHANGED <<plan, saved, listVars, mode, guardVars, editorVars, runtimeVars, faults>>

-----------------------------------------------------------------------------
(* A reload, in its goroutine: cli/tui.go's reload. *)

Kick(tag) ==
  /\ \E s \in Slot : job[s].stage = "free"
  /\ job' = [job EXCEPT ![CHOOSE s \in Slot : job[s].stage = "free"] =
               [Free EXCEPT !.stage = "scan", !.tag = tag]]

ReloadScans(s) ==
  /\ Running /\ job[s].stage = "scan"
  /\ store' = logs
  /\ job' = [job EXCEPT ![s].stage = "plans"]
  /\ UNCHANGED <<logs, boot, plan, saved, listVars, mode, guardVars, editorVars, ticks, settled, countVars>>

\* The scan skips a provider it cannot read or a store it cannot write.
ReloadScanFails(s) ==
  /\ Running /\ job[s].stage = "scan"
  /\ Fault
  /\ job' = [job EXCEPT ![s].stage = "plans"]
  /\ UNCHANGED <<worldVars, listVars, mode, guardVars, editorVars, ticks, settled, changes>>

\* buildPeriods: planSet first.
ReloadReadsPlan(s) ==
  /\ Running /\ job[s].stage = "plans"
  /\ job' = [job EXCEPT ![s].stage = "build", ![s].got.plan = plan]
  /\ UNCHANGED <<worldVars, listVars, mode, guardVars, editorVars, ticks, settled, countVars>>

\* buildPeriods: then the store, or the launch snapshot when it cannot be opened.
ReloadReadsStore(s) ==
  /\ Running /\ job[s].stage = "build"
  /\ \/ /\ job' = [job EXCEPT ![s].stage = "done", ![s].got.sessions = store]
        /\ UNCHANGED faults
     \/ /\ Fault
        /\ job' = [job EXCEPT ![s].stage = "done", ![s].got.sessions = boot]
  /\ UNCHANGED <<worldVars, listVars, mode, guardVars, editorVars, ticks, settled, changes>>

-----------------------------------------------------------------------------
(* Messages. *)

\* The result lands: its goroutine is done, the guard falls.
Land(s) ==
  /\ job[s].stage = "done"
  /\ job' = [job EXCEPT ![s] = Free]
  /\ settled' = (settled \/ InFlight(job') = {})
  /\ reloading' = FALSE /\ syncing' = FALSE

\* Mutant: a tick that meets a reload in flight is dropped for good.
TickDropped ==
  /\ Running /\ ticks > 0
  /\ \/ /\ reloading
        /\ ticks' = ticks - 1
        /\ UNCHANGED <<job, reloading>>
     \/ /\ ~reloading
        /\ Kick("watch")
        /\ reloading' = TRUE
        /\ ticks' = ticks - 1
  /\ UNCHANGED <<worldVars, listVars, mode, syncing, editorVars, settled, countVars>>

\* tickMsg: skip the beat while a reload is in flight, else start one; the timer is
\* armed again when that one lands.
Tick ==
  /\ Running /\ ticks > 0
  /\ \/ /\ reloading
        /\ UNCHANGED <<ticks, job, reloading>>
     \/ /\ ~reloading
        /\ Kick("watch")
        /\ reloading' = TRUE
        /\ ticks' = ticks - 1
  /\ UNCHANGED <<worldVars, listVars, mode, syncing, editorVars, settled, countVars>>

\* reloadDoneMsg.
ReloadDone(s) ==
  /\ Running /\ job[s].tag = "watch"
  /\ Land(s)
  /\ Apply(job[s].got)
  /\ ticks' = ticks + 1
  /\ UNCHANGED <<worldVars, mode, editorVars, countVars>>

\* Mutant: the result of a sync arms the timer as well.
SyncDoneRearms(s) ==
  /\ Running /\ job[s].tag = "sync"
  /\ Land(s)
  /\ Apply(job[s].got)
  /\ ticks' = ticks + 1
  /\ UNCHANGED <<worldVars, mode, editorVars, countVars>>

\* Mutant: the guard is left up.
SyncDoneKeepsGuard(s) ==
  /\ Running /\ job[s].tag = "sync" /\ job[s].stage = "done"
  /\ job' = [job EXCEPT ![s] = Free]
  /\ settled' = (settled \/ InFlight(job') = {})
  /\ syncing' = FALSE
  /\ Apply(job[s].got)
  /\ UNCHANGED <<worldVars, mode, reloading, editorVars, ticks, countVars>>

\* syncDoneMsg.
SyncDone(s) ==
  /\ Running /\ job[s].tag = "sync"
  /\ Land(s)
  /\ Apply(job[s].got)
  /\ UNCHANGED <<worldVars, mode, editorVars, ticks, countVars>>

-----------------------------------------------------------------------------
(* Keys in the session list. *)

InList == mode = "list"

\* Mutant: s starts a reload whatever is in flight.
SyncKeyAlways ==
  /\ InList
  /\ Kick("sync")
  /\ reloading' = TRUE /\ syncing' = TRUE
  /\ UNCHANGED <<worldVars, listVars, mode, editorVars, ticks, settled, countVars>>

\* s: a no-op while a reload is in flight.
SyncKey ==
  /\ InList /\ ~reloading
  /\ Kick("sync")
  /\ reloading' = TRUE /\ syncing' = TRUE
  /\ UNCHANGED <<worldVars, listVars, mode, editorVars, ticks, settled, countVars>>

\* up and down.
MoveCursor(d) ==
  /\ InList
  /\ cursor + d \in 0 .. rows.n - 1
  /\ cursor' = cursor + d
  /\ UNCHANGED <<worldVars, periods, pIdx, curView, rows, mode, guardVars, editorVars, runtimeVars, countVars>>

\* left and right.
MoveWindow(d) ==
  /\ InList
  /\ pIdx + d \in Window
  /\ Refresh(periods, pIdx + d, curView)
  /\ cursor' = 0
  /\ UNCHANGED <<worldVars, mode, guardVars, editorVars, runtimeVars, countVars>>

\* Mutant: the rows keep the amounts of the lens before.
NextViewOnly ==
  /\ InList
  /\ HasPlan(periods, pIdx)
  /\ \E v \in View \ {curView} : curView' = v
  /\ cursor' = 0
  /\ UNCHANGED <<worldVars, periods, pIdx, rows, mode, guardVars, editorVars, runtimeVars, countVars>>

\* v: the other lens, if there are two.
NextView ==
  /\ InList
  /\ HasPlan(periods, pIdx)
  /\ \E v \in View \ {curView} : curView' = v /\ rows' = [rows EXCEPT !.view = v]
  /\ cursor' = 0
  /\ UNCHANGED <<worldVars, periods, pIdx, mode, guardVars, editorVars, runtimeVars, countVars>>

\* enter reads rows[cursor], which ends the program when there is no such row.
Enter ==
  /\ InList /\ rows.n > 0
  /\ mode' = "drill"
  /\ UNCHANGED <<worldVars, listVars, guardVars, editorVars, runtimeVars, countVars>>

\* esc, from a drill-down or from the picker.
Back ==
  /\ mode \in {"drill", "plan"}
  /\ mode' = "list"
  /\ UNCHANGED <<worldVars, listVars, guardVars, editorVars, runtimeVars, countVars>>

\* ctrl+c, from anywhere: the program ends, its memory and the reloads in flight with it.
Quit ==
  /\ Running
  /\ mode' = "quit"
  /\ Refresh([sessions |-> NoSessions, plan |-> FALSE], 1, "api_equivalent")
  /\ cursor' = 0
  /\ reloading' = FALSE /\ syncing' = FALSE
  /\ trailerCur' = {} /\ trailerEdit' = {} /\ toggled' = {}
  /\ ticks' = 0
  /\ job' = [s \in Slot |-> Free]
  /\ settled' = TRUE
  /\ UNCHANGED <<worldVars, countVars>>

-----------------------------------------------------------------------------
(* p: the plan picker. *)

OpenPicker ==
  /\ InList
  /\ mode' = "plan"
  /\ UNCHANGED <<worldVars, listVars, guardVars, editorVars, runtimeVars, countVars>>

\* Confirmed: setPlan writes the config and rebuilds the periods on the loop's own
\* goroutine, as a reload does; the lens jumps to amortized if there is one.
ConfirmPlan ==
  /\ mode = "plan" /\ Change
  /\ \E sessions \in {store, boot} :
       /\ \/ sessions = store /\ plan' \in BOOLEAN /\ UNCHANGED faults
          \/ sessions = store /\ Fault /\ UNCHANGED plan
          \/ sessions = boot /\ Fault /\ plan' \in BOOLEAN
       /\ Refresh([sessions |-> sessions, plan |-> plan'], pIdx, "amortized")
  /\ cursor' = 0
  /\ mode' = "list"
  /\ UNCHANGED <<logs, store, boot, saved, guardVars, editorVars, runtimeVars>>

-----------------------------------------------------------------------------
(* t: the [trailers] editor. *)

OpenEditor ==
  /\ InList
  /\ mode' = "trailers"
  /\ trailerEdit' = trailerCur
  /\ toggled' = {}
  /\ UNCHANGED <<worldVars, listVars, guardVars, trailerCur, runtimeVars, countVars>>

Toggle(f) ==
  /\ mode = "trailers"
  /\ trailerEdit' = SymDiff(trailerEdit, {f})
  /\ toggled' = SymDiff(toggled, {f})
  /\ UNCHANGED <<worldVars, listVars, mode, guardVars, trailerCur, runtimeVars, countVars>>

LeaveEditor ==
  /\ mode' = "list"
  /\ trailerEdit' = {} /\ toggled' = {}
  /\ UNCHANGED <<logs, store, boot, plan, listVars, guardVars, trailerCur, runtimeVars>>

\* s: the whole section is written; trailerCur stays what it was at launch.
SaveTrailers ==
  /\ mode = "trailers" /\ Change
  /\ \/ saved' = trailerEdit /\ UNCHANGED faults
     \/ Fault /\ UNCHANGED saved
  /\ LeaveEditor

CancelEditor ==
  /\ mode = "trailers"
  /\ LeaveEditor
  /\ UNCHANGED <<saved, countVars>>

-----------------------------------------------------------------------------
ReloadStep(s) ==
  ReloadScans(s) \/ ReloadReadsPlan(s) \/ ReloadReadsStore(s) \/ ReloadDone(s) \/ SyncDone(s)

Next ==
  \/ NewSession
  \/ \E w \in Window : Rollover(w)
  \/ \E s \in Slot : ReloadStep(s) \/ ReloadScanFails(s)
  \/ Tick
  \/ SyncKey
  \/ \E d \in {-1, 1} : MoveCursor(d) \/ MoveWindow(d)
  \/ NextView \/ Enter \/ Back \/ Quit
  \/ OpenPicker \/ ConfirmPlan
  \/ OpenEditor \/ (\E f \in Flag : Toggle(f)) \/ SaveTrailers \/ CancelEditor

Spec == Init /\ [][Next]_vars

\* Timers fire, the loop handles its messages, and a reload ends: it reads local files
\* and its one request has a timeout. The user need not do anything.
FairSpec == Spec /\ WF_vars(Tick) /\ \A s \in Slot : WF_vars(ReloadStep(s))

-----------------------------------------------------------------------------
(* Properties. *)

\* The watch cadence never stops and never doubles: either one timer is armed or one
\* reload in flight will arm it.
OneCadence ==
  \/ ~Running
  \/ ticks = 1 /\ Armers(job) = {}
  \/ ticks = 0 /\ \E s \in Slot : Armers(job) = {s}

\* The guard never sticks, whatever lands while it is up: it and the "syncing..." stamp
\* announce a reload that is in flight.
GuardMeansReload ==
  /\ reloading => InFlight(job) # {}
  /\ syncing => reloading

\* Two reloads at most run at once, and only until the reload of the launch and what
\* was started over it have landed: from then on there is one writer.
SingleFlightOnceSettled ==
  \E s, t \in Slot : InFlight(job) \subseteq {s, t} /\ (settled => s = t)

\* In every mode a result may land, the list's cursor is on a row and the amounts are
\* those of the lens and window on screen, a lens that window offers.
ListIsCoherent ==
  /\ cursor < rows.n \/ cursor = 0
  /\ rows = [n |-> periods.sessions[pIdx], view |-> curView]
  /\ curView \in Avail(periods, pIdx)

\* Results that overtake each other or that were built before a plan was set are
\* corrected: once sessions, plan and windows stay as they are, so does the screen, and
\* it shows them.
ScreenConverges ==
  <>[](~Running \/ periods = [sessions |-> logs, plan |-> plan])

\* tui.go:983: the editor works on "a working copy of the current config": what it shows
\* is the file but for what was flipped since.  The code does not keep it after a save:
\* no run checks it, README names the trace.
EditorStartsFromFile == mode = "trailers" => trailerEdit = SymDiff(saved, toggled)

==============================================================================
