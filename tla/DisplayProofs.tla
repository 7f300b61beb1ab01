----------------------------- MODULE DisplayProofs ----------------------------
(***************************************************************************)
(* What the screens show, for any number of sessions, goroutines, providers  *)
(* and rollouts.                                                             *)
(*                                                                          *)
(* The explorer: its safety properties are proved together, and the          *)
(* inductive invariant adds to them only that a lowered guard leaves room for *)
(* one more reload.                                                          *)
(*                                                                          *)
(* The menu bar: a lookup asks the providers in their order, each once, so    *)
(* what a provider told it stays; the newest rollouts are those of the lowest *)
(* rank, and what is read of them is what they hold; a forecast is a matter   *)
(* of arithmetic.                                                            *)
(***************************************************************************)
EXTENDS Tui, MenuBar, FiniteSetTheorems, SequenceTheorems, WellFoundedInduction, TLAPS

(***************************************************************************)
(* The explorer.                                                            *)
(***************************************************************************)

\* When the guard is down one reload at most is in flight, and none once settled.
GuardLeavesRoom ==
  ~reloading => \E s \in Slot : InFlight(job) \subseteq {s} /\ (settled => InFlight(job) = {})

Flights == GuardMeansReload /\ GuardLeavesRoom /\ SingleFlightOnceSettled

IInv == TypeOK /\ ListIsCoherent /\ OneCadence /\ Flights

-----------------------------------------------------------------------------
(* What a step does to the goroutines. *)

LEMMA FreeIsJob == Free \in Job
  BY TuiParameters DEF Free, Job, Periods, Sessions, NoSessions, Window, Stage

LEMMA LaunchIsSlot == Launch \in Slot
  BY TuiParameters DEF Launch

\* Kick fills one free slot.
LEMMA KickFills ==
  ASSUME job \in [Slot -> Job], NEW tag \in {"watch", "sync"}, Kick(tag)
  PROVE  /\ job' \in [Slot -> Job]
         /\ \E c \in Slot :
              /\ c \notin InFlight(job)
              /\ InFlight(job') = InFlight(job) \cup {c}
              /\ Armers(job') = IF tag = "watch" THEN Armers(job) \cup {c} ELSE Armers(job)
<1> DEFINE c == CHOOSE s \in Slot : job[s].stage = "free"
           new == [Free EXCEPT !.stage = "scan", !.tag = tag]
<1>1. c \in Slot /\ job[c].stage = "free"
  BY DEF Kick
<1>2. new \in Job /\ new.stage = "scan" /\ new.tag = tag
  BY FreeIsJob DEF Job, Stage
<1>3. job' = [job EXCEPT ![c] = new]
  BY DEF Kick
<1> HIDE DEF c, new
<1>4. job' \in [Slot -> Job]
  BY <1>1, <1>2, <1>3
<1>5. \A s \in Slot : job'[s] = IF s = c THEN new ELSE job[s]
  BY <1>3
<1>6. InFlight(job') = InFlight(job) \cup {c}
  BY <1>1, <1>2, <1>5 DEF InFlight
<1>7. Armers(job') = IF tag = "watch" THEN Armers(job) \cup {c} ELSE Armers(job)
  BY <1>1, <1>2, <1>5, <1>6 DEF Armers, InFlight
<1> QED
  BY <1>1, <1>4, <1>6, <1>7 DEF InFlight

\* Land frees the slot of the result.
LEMMA LandFrees ==
  ASSUME job \in [Slot -> Job], NEW s \in Slot, Land(s)
  PROVE  /\ job' \in [Slot -> Job]
         /\ s \in InFlight(job)
         /\ InFlight(job') = InFlight(job) \ {s}
         /\ Armers(job') = Armers(job) \ {s}
<1>1. job' = [job EXCEPT ![s] = Free] /\ job[s].stage = "done"
  BY DEF Land
<1>2. Free.stage = "free"
  BY DEF Free
<1>3. \A t \in Slot : job'[t] = IF t = s THEN Free ELSE job[t]
  BY <1>1
<1>4. InFlight(job') = InFlight(job) \ {s}
  BY <1>2, <1>3 DEF InFlight
<1>5. Armers(job') = Armers(job) \ {s}
  BY <1>3, <1>4 DEF Armers, InFlight
<1> QED
  BY <1>1, <1>4, <1>5, FreeIsJob DEF InFlight

\* A reload that goes on stays where it is and keeps its tag.
Progress ==
  \E s \in Slot :
    ReloadScans(s) \/ ReloadScanFails(s) \/ ReloadReadsPlan(s) \/ ReloadReadsStore(s)

LEMMA ProgressKeeps ==
  ASSUME TypeOK, Progress
  PROVE  /\ job' \in [Slot -> Job]
         /\ InFlight(job') = InFlight(job)
         /\ Armers(job') = Armers(job)
<1>1. PICK s \in Slot :
        ReloadScans(s) \/ ReloadScanFails(s) \/ ReloadReadsPlan(s) \/ ReloadReadsStore(s)
  BY DEF Progress
<1>2. job \in [Slot -> Job] /\ job[s] \in Job
  BY DEF TypeOK
<1>3. PICK j \in Job : /\ job' = [job EXCEPT ![s] = j]
                       /\ j.stage # "free" /\ j.tag = job[s].tag
                       /\ job[s].stage # "free"
  <2>1. CASE ReloadScans(s) \/ ReloadScanFails(s)
    <3> DEFINE j == [job[s] EXCEPT !.stage = "plans"]
    <3>1. job' = [job EXCEPT ![s] = j] /\ job[s].stage = "scan"
      BY <2>1 DEF ReloadScans, ReloadScanFails
    <3>2. j \in Job /\ j.stage = "plans" /\ j.tag = job[s].tag
      BY <1>2 DEF Job, Stage
    <3> QED
      BY <3>1, <3>2
  <2>2. CASE ReloadReadsPlan(s)
    <3> DEFINE j == [job[s] EXCEPT !.stage = "build", !.got.plan = plan]
    <3>1. job' = [job EXCEPT ![s] = j] /\ job[s].stage = "plans"
      BY <2>2, <1>2 DEF ReloadReadsPlan
    <3>2. j \in Job /\ j.stage = "build" /\ j.tag = job[s].tag
      BY <1>2 DEF TypeOK, Job, Stage, Periods
    <3> QED
      BY <3>1, <3>2
  <2>3. CASE ReloadReadsStore(s)
    <3> DEFINE J(n) == [job[s] EXCEPT !.stage = "done", !.got.sessions = n]
    <3>1. /\ job' = [job EXCEPT ![s] = J(store)] \/ job' = [job EXCEPT ![s] = J(boot)]
          /\ job[s].stage = "build"
      BY <2>3, <1>2 DEF ReloadReadsStore
    <3>2. \A n \in Sessions : J(n) \in Job /\ J(n).stage = "done" /\ J(n).tag = job[s].tag
      BY <1>2 DEF Job, Stage, Periods
    <3>3. store \in Sessions /\ boot \in Sessions
      BY DEF TypeOK
    <3> HIDE DEF J
    <3> QED
      BY <3>1, <3>2, <3>3
  <2> QED
    BY <1>1, <2>1, <2>2, <2>3
<1>4. \A t \in Slot : job'[t] = IF t = s THEN j ELSE job[t]
  BY <1>2, <1>3
<1>5. InFlight(job') = InFlight(job)
  BY <1>3, <1>4 DEF InFlight
<1>6. Armers(job') = Armers(job)
  BY <1>3, <1>4, <1>5 DEF Armers, InFlight
<1> QED
  BY <1>2, <1>3, <1>5, <1>6

-----------------------------------------------------------------------------
(* What a step does to the list. *)

\* refresh leaves a lens the window offers, and rows for it.
LEMMA RefreshIsCoherent ==
  ASSUME NEW ps \in Periods, NEW w \in Window, NEW view \in View, Refresh(ps, w, view)
  PROVE  /\ periods' \in Periods /\ pIdx' \in Window /\ curView' \in View
         /\ rows' \in [n : 0 .. MaxRows, view : View]
         /\ rows' = [n |-> periods'.sessions[pIdx'], view |-> curView']
         /\ rows'.n = ps.sessions[w]
         /\ curView' \in Avail(periods', pIdx')
<1>1. ps.sessions[w] \in 0 .. MaxRows
  BY DEF Periods, Sessions
<1>2. Ensure(view, ps, w) \in View /\ Ensure(view, ps, w) \in Avail(ps, w)
  BY DEF Ensure, Avail, View
<1> QED
  BY <1>1, <1>2 DEF Refresh

\* applyReloadResult clamps the cursor to the new rows.
LEMMA ApplyIsCoherent ==
  ASSUME TypeOK, NEW ps \in Periods, Apply(ps)
  PROVE  /\ periods' \in Periods /\ pIdx' \in Window /\ curView' \in View
         /\ rows' \in [n : 0 .. MaxRows, view : View] /\ cursor' \in Nat
         /\ ListIsCoherent'
<1>1. pIdx \in Window /\ curView \in View /\ cursor \in Nat
  BY DEF TypeOK
<1>2. Refresh(ps, pIdx, curView) /\ cursor' = Clamp(cursor, ps.sessions[pIdx])
  BY DEF Apply
<1>3. ps.sessions[pIdx] \in Nat
  BY <1>1, TuiParameters DEF Periods, Sessions
<1>4. cursor' \in Nat /\ (cursor' < ps.sessions[pIdx] \/ cursor' = 0)
  BY <1>1, <1>2, <1>3 DEF Clamp
<1> QED
  BY <1>1, <1>2, <1>4, RefreshIsCoherent DEF ListIsCoherent

-----------------------------------------------------------------------------
(* The guard. *)

LEMMA KickFlights ==
  ASSUME IInv, ~reloading, NEW tag \in {"watch", "sync"}, Kick(tag),
         reloading' = TRUE, settled' = settled
  PROVE  Flights'
<1>1. PICK c \in Slot : InFlight(job') = InFlight(job) \cup {c}
  BY KickFills DEF IInv, TypeOK
<1>2. PICK s \in Slot : InFlight(job) \subseteq {s} /\ (settled => InFlight(job) = {})
  BY DEF IInv, Flights, GuardLeavesRoom
<1>3. CASE settled
  BY <1>1, <1>2, <1>3 DEF Flights, GuardMeansReload, GuardLeavesRoom, SingleFlightOnceSettled
<1>4. CASE ~settled
  BY <1>1, <1>2, <1>4 DEF Flights, GuardMeansReload, GuardLeavesRoom, SingleFlightOnceSettled
<1> QED
  BY <1>3, <1>4

LEMMA LandFlights ==
  ASSUME IInv, NEW s \in Slot, Land(s)
  PROVE  Flights'
<1>1. s \in InFlight(job) /\ InFlight(job') = InFlight(job) \ {s}
  BY LandFrees DEF IInv, TypeOK
<1>2. PICK a, b \in Slot : InFlight(job) \subseteq {a, b} /\ (settled => a = b)
  BY DEF IInv, Flights, SingleFlightOnceSettled
<1>3. PICK r \in {a, b} : InFlight(job') \subseteq {r}
  BY <1>1, <1>2
<1>4. settled => InFlight(job') = {}
  BY <1>1, <1>2
<1>5. settled' = (settled \/ InFlight(job') = {}) /\ reloading' = FALSE /\ syncing' = FALSE
  BY DEF Land
<1> QED
  BY <1>3, <1>4, <1>5 DEF Flights, GuardMeansReload, GuardLeavesRoom, SingleFlightOnceSettled

-----------------------------------------------------------------------------
LEMMA InitEstablishesIInv == Init => IInv
<1> SUFFICES ASSUME Init PROVE IInv
  OBVIOUS
<1>1. /\ Opening \in Periods /\ Opening.sessions[pIdx] \in 0 .. MaxRows
      /\ pIdx \in Window
  BY TuiParameters DEF Init, Periods, Sessions, Window
<1>2. [Free EXCEPT !.stage = "scan"] \in Job /\ Free \in Job
  BY FreeIsJob DEF Job, Stage
<1>3. \A s \in Slot : job[s] = IF s = Launch THEN [Free EXCEPT !.stage = "scan"] ELSE Free
  BY DEF Init
<1>4. InFlight(job) = {Launch} /\ Armers(job) = {Launch}
  BY <1>3, LaunchIsSlot DEF InFlight, Armers, Free
<1>5. job \in [Slot -> Job]
  BY <1>2 DEF Init
<1>6. TypeOK
  BY <1>1, <1>5 DEF Init, TypeOK, Periods, View, Mode
<1>7. ListIsCoherent
  BY DEF Init, ListIsCoherent, Avail
<1>8. OneCadence
  BY <1>4, LaunchIsSlot DEF Init, OneCadence
<1>9. Flights
  BY <1>4, LaunchIsSlot
     DEF Init, Flights, GuardMeansReload, GuardLeavesRoom, SingleFlightOnceSettled
<1> QED
  BY <1>6, <1>7, <1>8, <1>9 DEF IInv

\* The world and the goroutines of the reloads touch neither the list nor the guard.
LEMMA WorldSteps ==
  ASSUME IInv, NewSession \/ (\E w \in Window : Rollover(w)) \/ Progress
  PROVE  IInv'
<1> USE DEF IInv, worldVars, listVars, guardVars, editorVars, runtimeVars, countVars
<1>1. CASE NewSession
  <2>1. logs' \in Sessions
    BY <1>1, TuiParameters DEF NewSession, TypeOK, Sessions
  <2>2. changes' \in Nat
    BY <1>1 DEF NewSession, Change, TypeOK
  <2> QED
    BY <1>1, <2>1, <2>2 DEF NewSession, TypeOK, ListIsCoherent, OneCadence, Running, Flights,
       GuardMeansReload, GuardLeavesRoom, SingleFlightOnceSettled
<1>2. ASSUME NEW w \in Window, Rollover(w) PROVE IInv'
  <2>1. logs' \in Sessions /\ store' \in Sessions /\ boot' \in Sessions
    BY <1>2, TuiParameters DEF Rollover, TypeOK, Sessions
  <2>2. changes' \in Nat
    BY <1>2 DEF Rollover, Change, TypeOK
  <2> QED
    BY <1>2, <2>1, <2>2 DEF Rollover, TypeOK, ListIsCoherent, OneCadence, Running, Flights,
       GuardMeansReload, GuardLeavesRoom, SingleFlightOnceSettled
<1>3. CASE Progress
  <2>1. /\ job' \in [Slot -> Job]
        /\ InFlight(job') = InFlight(job) /\ Armers(job') = Armers(job)
    BY <1>3, ProgressKeeps
  <2>2. /\ UNCHANGED <<logs, boot, plan, saved, listVars, mode, guardVars, editorVars>>
        /\ UNCHANGED <<ticks, settled, changes>>
        /\ store' \in {store, logs} /\ faults' \in Nat
    BY <1>3 DEF Progress, ReloadScans, ReloadScanFails, ReloadReadsPlan, ReloadReadsStore,
       Fault, TypeOK
  <2> QED
    BY <2>1, <2>2 DEF TypeOK, ListIsCoherent, OneCadence, Running, Flights,
       GuardMeansReload, GuardLeavesRoom, SingleFlightOnceSettled
<1> QED
  BY <1>1, <1>2, <1>3

\* A tick and the s key start a reload, or do nothing.
LEMMA KickSteps ==
  ASSUME IInv, Tick \/ SyncKey
  PROVE  IInv'
<1> USE DEF IInv, worldVars, listVars, guardVars, editorVars, countVars
<1>1. CASE Tick /\ reloading
  BY <1>1 DEF Tick, TypeOK, ListIsCoherent, OneCadence, Running, Flights,
     GuardMeansReload, GuardLeavesRoom, SingleFlightOnceSettled
<1>2. CASE Tick /\ ~reloading
  <2>1. Kick("watch") /\ reloading' = TRUE /\ settled' = settled
    BY <1>2 DEF Tick
  <2>2. PICK c \in Slot : job' \in [Slot -> Job] /\ Armers(job') = Armers(job) \cup {c}
    BY <2>1, KickFills DEF TypeOK
  <2>3. Flights'
    BY <1>2, <2>1, KickFlights
  <2>4. ticks > 0 /\ ticks' = ticks - 1 /\ ticks \in Nat
    BY <1>2 DEF Tick, TypeOK
  <2>5. OneCadence'
    BY <1>2, <2>2, <2>4 DEF Tick, OneCadence, Running
  <2>6. /\ UNCHANGED <<worldVars, listVars, mode, syncing, editorVars, settled, countVars>>
        /\ reloading' = TRUE /\ ticks' \in Nat
    BY <1>2, <2>4 DEF Tick
  <2>7. TypeOK'
    BY <2>2, <2>6 DEF TypeOK
  <2>8. ListIsCoherent'
    BY <2>6 DEF ListIsCoherent
  <2> QED
    BY <2>3, <2>5, <2>7, <2>8
<1>3. CASE SyncKey
  <2>1. Kick("sync") /\ ~reloading /\ reloading' = TRUE /\ settled' = settled
    BY <1>3 DEF SyncKey
  <2>2. job' \in [Slot -> Job] /\ Armers(job') = Armers(job)
    BY <2>1, KickFills DEF TypeOK
  <2>3. Flights'
    BY <2>1, KickFlights
  <2>4. OneCadence'
    BY <1>3, <2>2 DEF SyncKey, OneCadence, Running
  <2> QED
    BY <1>3, <2>2, <2>3, <2>4 DEF SyncKey, TypeOK, ListIsCoherent
<1> QED
  BY <1>1, <1>2, <1>3

\* A result lands: the guard falls, and the one reload that owns the cadence arms it.
LEMMA LandSteps ==
  ASSUME IInv, NEW s \in Slot, ReloadDone(s) \/ SyncDone(s)
  PROVE  IInv'
<1> USE DEF IInv, worldVars, editorVars, countVars
<1>1. Land(s) /\ Apply(job[s].got) /\ Running
  BY DEF ReloadDone, SyncDone
<1>2. /\ job' \in [Slot -> Job] /\ s \in InFlight(job)
      /\ Armers(job') = Armers(job) \ {s}
  BY <1>1, LandFrees DEF TypeOK
<1>3. Flights'
  BY <1>1, LandFlights
<1>4. job[s].got \in Periods
  BY DEF TypeOK, Job
<1>5. /\ periods' \in Periods /\ pIdx' \in Window /\ curView' \in View
      /\ rows' \in [n : 0 .. MaxRows, view : View] /\ cursor' \in Nat
      /\ ListIsCoherent'
  BY <1>1, <1>4, ApplyIsCoherent
<1>6. settled' \in BOOLEAN /\ reloading' \in BOOLEAN /\ syncing' \in BOOLEAN
  BY <1>1 DEF Land, TypeOK
<1>7. ticks' \in Nat /\ OneCadence'
  <2>1. CASE ReloadDone(s)
    <3>1. s \in Armers(job) /\ ticks' = ticks + 1
      BY <2>1, <1>2 DEF ReloadDone, Armers
    <3> QED
      BY <3>1, <1>1, <1>2 DEF OneCadence, TypeOK
  <2>2. CASE SyncDone(s)
    <3>1. s \notin Armers(job) /\ ticks' = ticks /\ mode' = mode
      BY <2>2 DEF SyncDone, Armers
    <3> QED
      BY <3>1, <1>1, <1>2 DEF OneCadence, TypeOK, Running
  <2> QED
    BY <2>1, <2>2
<1>8. TypeOK'
  BY <1>2, <1>5, <1>6, <1>7 DEF ReloadDone, SyncDone, TypeOK
<1> QED
  BY <1>3, <1>5, <1>7, <1>8

\* Moving about the list.
LEMMA ListSteps ==
  ASSUME IInv,
         \/ \E d \in {-1, 1} : MoveCursor(d) \/ MoveWindow(d)
         \/ NextView \/ ConfirmPlan
  PROVE  IInv'
<1> USE DEF IInv, worldVars, listVars, guardVars, editorVars, runtimeVars, countVars, InList
<1>1. ASSUME NEW d \in {-1, 1}, MoveCursor(d) PROVE IInv'
  BY <1>1 DEF MoveCursor, TypeOK, ListIsCoherent, OneCadence, Running, Flights,
     GuardMeansReload, GuardLeavesRoom, SingleFlightOnceSettled
<1>2. ASSUME NEW d \in {-1, 1}, MoveWindow(d) PROVE IInv'
  <2>1. /\ Refresh(periods, pIdx + d, curView) /\ pIdx + d \in Window /\ periods \in Periods
        /\ curView \in View /\ cursor' = 0
    BY <1>2 DEF MoveWindow, TypeOK
  <2>2. /\ periods' \in Periods /\ pIdx' \in Window /\ curView' \in View
        /\ rows' \in [n : 0 .. MaxRows, view : View]
        /\ ListIsCoherent'
    BY <2>1, RefreshIsCoherent DEF ListIsCoherent
  <2> QED
    BY <1>2, <2>1, <2>2 DEF MoveWindow, TypeOK, OneCadence, Running, Flights,
       GuardMeansReload, GuardLeavesRoom, SingleFlightOnceSettled
<1>3. CASE NextView
  <2>1. PICK v \in View : curView' = v /\ rows' = [rows EXCEPT !.view = v]
    BY <1>3 DEF NextView
  <2>2. rows' \in [n : 0 .. MaxRows, view : View] /\ rows'.n = rows.n /\ rows'.view = v
    BY <2>1 DEF TypeOK
  <2>3. v \in Avail(periods, pIdx)
    BY <1>3 DEF NextView, Avail, View
  <2>4. ListIsCoherent'
    BY <1>3, <2>1, <2>2, <2>3 DEF NextView, ListIsCoherent
  <2> QED
    BY <1>3, <2>1, <2>2, <2>4 DEF NextView, TypeOK, OneCadence, Running, Flights,
       GuardMeansReload, GuardLeavesRoom, SingleFlightOnceSettled
<1>4. CASE ConfirmPlan
  <2>1. plan' \in BOOLEAN /\ changes' \in Nat /\ faults' \in Nat
    BY <1>4 DEF ConfirmPlan, Change, Fault, TypeOK
  <2>2. PICK sessions \in {store, boot} :
          Refresh([sessions |-> sessions, plan |-> plan'], pIdx, "amortized")
    BY <1>4 DEF ConfirmPlan
  <2>3. /\ [sessions |-> sessions, plan |-> plan'] \in Periods
        /\ pIdx \in Window /\ "amortized" \in View /\ cursor' = 0
    BY <1>4, <2>1 DEF ConfirmPlan, TypeOK, View, Periods
  <2>4. /\ periods' \in Periods /\ pIdx' \in Window /\ curView' \in View
        /\ rows' \in [n : 0 .. MaxRows, view : View]
        /\ ListIsCoherent'
    BY <2>2, <2>3, RefreshIsCoherent DEF ListIsCoherent
  <2> QED
    BY <1>4, <2>1, <2>3, <2>4 DEF ConfirmPlan, TypeOK, Mode, OneCadence, Running, Flights,
       GuardMeansReload, GuardLeavesRoom, SingleFlightOnceSettled
<1> QED
  BY <1>1, <1>2, <1>3, <1>4

\* Opening and leaving the other views.
LEMMA ModeSteps ==
  ASSUME IInv,
         \/ Enter \/ Back \/ OpenPicker \/ OpenEditor \/ (\E f \in Flag : Toggle(f))
         \/ SaveTrailers \/ CancelEditor
  PROVE  IInv'
<1> USE DEF IInv, worldVars, listVars, guardVars, editorVars, runtimeVars, countVars, InList
<1>1. /\ UNCHANGED <<logs, store, boot, plan, listVars, guardVars, runtimeVars, trailerCur>>
      /\ mode # "quit" /\ mode' \in Mode \ {"quit"}
      /\ saved' \subseteq Flag /\ trailerEdit' \subseteq Flag /\ toggled' \subseteq Flag
      /\ changes' \in Nat /\ faults' \in Nat
  <2>1. CASE Enter \/ Back \/ OpenPicker \/ OpenEditor
    BY <2>1 DEF Enter, Back, OpenPicker, OpenEditor, TypeOK, Mode
  <2>2. CASE \E f \in Flag : Toggle(f)
    BY <2>2 DEF Toggle, SymDiff, TypeOK, Mode
  <2>3. CASE SaveTrailers \/ CancelEditor
    BY <2>3 DEF SaveTrailers, CancelEditor, LeaveEditor, Change, Fault, TypeOK, Mode
  <2> QED
    BY <2>1, <2>2, <2>3
<1> QED
  BY <1>1 DEF TypeOK, ListIsCoherent, OneCadence, Running, Flights,
     GuardMeansReload, GuardLeavesRoom, SingleFlightOnceSettled

\* The program ends.
LEMMA QuitStep ==
  ASSUME IInv, Quit
  PROVE  IInv'
<1>1. InFlight(job') = {} /\ job' \in [Slot -> Job]
  BY FreeIsJob DEF Quit, InFlight, Free
<1>2. /\ [sessions |-> NoSessions, plan |-> FALSE] \in Periods
      /\ 1 \in Window /\ "api_equivalent" \in View
  BY TuiParameters DEF Periods, Sessions, NoSessions, Window, View
<1>3. /\ periods' \in Periods /\ pIdx' \in Window /\ curView' \in View
      /\ rows' \in [n : 0 .. MaxRows, view : View] /\ cursor' = 0
      /\ ListIsCoherent'
  BY <1>2, RefreshIsCoherent DEF Quit, ListIsCoherent
<1>4. TypeOK'
  <2>1. /\ mode' = "quit" /\ reloading' = FALSE /\ syncing' = FALSE
        /\ trailerCur' = {} /\ trailerEdit' = {} /\ toggled' = {}
        /\ ticks' = 0 /\ settled' = TRUE
        /\ UNCHANGED <<worldVars, countVars>>
    BY DEF Quit
  <2> QED
    BY <2>1, <1>1, <1>3 DEF IInv, TypeOK, Mode, worldVars, countVars
<1>5. Flights' /\ OneCadence'
  BY <1>1, LaunchIsSlot DEF Quit, Flights, GuardMeansReload, GuardLeavesRoom,
     SingleFlightOnceSettled, OneCadence, Running
<1> QED
  BY <1>3, <1>4, <1>5 DEF IInv

LEMMA StepPreservesIInv == IInv /\ [Next]_vars => IInv'
<1>1. ASSUME IInv, UNCHANGED vars PROVE IInv'
  BY <1>1 DEF vars, worldVars, listVars, guardVars, editorVars, runtimeVars, countVars,
     IInv, TypeOK, ListIsCoherent, OneCadence, Running, Flights, GuardMeansReload,
     GuardLeavesRoom, SingleFlightOnceSettled
<1> QED
  BY <1>1, WorldSteps, KickSteps, LandSteps, ListSteps, ModeSteps, QuitStep
     DEF Next, ReloadStep, Progress

LEMMA IInvHolds == Spec => []IInv
BY InitEstablishesIInv, StepPreservesIInv, PTL DEF Spec

\* The watch cadence has exactly one owner for as long as the explorer runs.
THEOREM CadenceHasOneOwner == Spec => []OneCadence
<1>1. IInv => OneCadence
  BY DEF IInv
<1> QED
  BY <1>1, IInvHolds, PTL

\* Whatever lands and whichever keys are pressed, a raised guard stands for a reload in
\* flight, so it cannot lock the explorer out of syncing.
THEOREM GuardNeverSticks == Spec => []GuardMeansReload
<1>1. IInv => GuardMeansReload
  BY DEF IInv, Flights
<1> QED
  BY <1>1, IInvHolds, PTL

\* Two reloads at most overlap, and none once the launch reload and what was started
\* over it have landed.
THEOREM FlightsSettle == Spec => []SingleFlightOnceSettled
<1>1. IInv => SingleFlightOnceSettled
  BY DEF IInv, Flights
<1> QED
  BY <1>1, IInvHolds, PTL

\* The list can be indexed by its cursor in every state, and shows the lens and window
\* it says it does.
THEOREM ListStaysCoherent == Spec => [](TypeOK /\ ListIsCoherent)
<1>1. IInv => TypeOK /\ ListIsCoherent
  BY DEF IInv
<1> QED
  BY <1>1, IInvHolds, PTL

(***************************************************************************)
(* The menu bar.                                                            *)
(***************************************************************************)

\* Readings of a provider, all of one instant, and, if ahead, none of a window over.
Taken(samples, p, at, ahead) ==
  /\ samples \in Seq(Samples(p))
  /\ \A i \in 1 .. Len(samples) : /\ samples[i].observed = at
                                  /\ ahead => at <= samples[i].resets

\* What a sequence followed by another holds.
LEMMA Joined ==
  ASSUME NEW S, NEW a \in Seq(S), NEW b \in Seq(S)
  PROVE  /\ a \o b \in Seq(S)
         /\ Len(a \o b) = Len(a) + Len(b)
         /\ \A i \in 1 .. Len(a) : (a \o b)[i] = a[i]
         /\ \A i \in 1 .. Len(b) : (a \o b)[Len(a) + i] = b[i]
         /\ \A i \in 1 .. Len(a \o b) :
              i \in 1 .. Len(a) \/ (i - Len(a) \in 1 .. Len(b) /\ (a \o b)[i] = b[i - Len(a)])
OBVIOUS

LEMMA TakenJoined ==
  ASSUME NEW p, NEW at, NEW ahead, NEW a, NEW b, Taken(a, p, at, ahead), Taken(b, p, at, ahead)
  PROVE  Taken(a \o b, p, at, ahead)
<1>1. a \in Seq(Samples(p)) /\ b \in Seq(Samples(p))
  BY DEF Taken
<1>2. ASSUME NEW i \in 1 .. Len(a \o b)
      PROVE  \/ i \in 1 .. Len(a) /\ (a \o b)[i] = a[i]
             \/ i - Len(a) \in 1 .. Len(b) /\ (a \o b)[i] = b[i - Len(a)]
  BY <1>1, Joined
<1>3. a \o b \in Seq(Samples(p))
  BY <1>1, Joined
<1>4. ASSUME NEW i \in 1 .. Len(a \o b)
      PROVE  (a \o b)[i].observed = at /\ (ahead => at <= (a \o b)[i].resets)
  BY <1>2, <1>4 DEF Taken
<1> QED BY <1>3, <1>4 DEF Taken

\* One reading.
LEMMA TakenOne ==
  ASSUME NEW p, NEW at, NEW ahead, NEW s \in Samples(p), s.observed = at, ahead => at <= s.resets
  PROVE  Taken(<<s>>, p, at, ahead)
<1>1. <<s>> \in Seq(Samples(p)) /\ Len(<<s>>) = 1 /\ <<s>>[1] = s
  OBVIOUS
<1> QED BY <1>1 DEF Taken

LEMMA TakenNone ==
  ASSUME NEW p, NEW at, NEW ahead
  PROVE  Taken(<<>>, p, at, ahead)
<1>1. <<>> \in Seq(Samples(p)) /\ Len(<<>>) = 0
  OBVIOUS
<1> QED BY <1>1 DEF Taken

LEMMA CodexTaken ==
  ASSUME NEW raw, IsCodexRaw(raw), NEW slot, NEW at \in Int, NEW ahead \in BOOLEAN,
         ahead => Ahead(raw) /\ now \in Int /\ at <= now
  PROVE  Taken(CodexSlot(slot, raw, at), "codex", at, ahead)
<1> DEFINE w == raw[slot]
           resets == CodexResetsAt(w, at)
<1>1. CASE slot \in DOMAIN raw /\ resets # NoValue
  <2>1. /\ w.used \in Int /\ w.minutes \in Int
        /\ w.at \in Int \cup {NoValue} /\ w.after \in Int \cup {NoValue}
    BY <1>1 DEF IsCodexRaw, RawReading
  <2>2. resets \in Int
    BY <1>1, <2>1 DEF CodexResetsAt
  <2>3. ahead => at <= resets
    <3>1. ahead => (w.at # NoValue => w.at >= now) /\ (w.after # NoValue => w.after >= 0)
      BY <1>1 DEF Ahead
    <3> QED BY <1>1, <2>1, <3>1 DEF CodexResetsAt
  <2>4. CodexWindowKind(w.minutes) \in Windows
    BY DEF CodexWindowKind, Windows
  <2> DEFINE s == Sample("codex", CodexWindowKind(w.minutes), w, resets, at)
  <2>5. s \in Samples("codex") /\ s.observed = at /\ s.resets = resets
    <3> HIDE DEF resets, w
    <3> QED BY <2>1, <2>2, <2>4 DEF Sample, Samples
  <2>6. CodexSlot(slot, raw, at) = <<s>>
    BY <1>1 DEF CodexSlot
  <2> HIDE DEF s, resets
  <2> QED BY <2>3, <2>5, <2>6, TakenOne
<1>2. CASE ~ (slot \in DOMAIN raw /\ resets # NoValue)
  <2>1. CodexSlot(slot, raw, at) = <<>>
    BY <1>2 DEF CodexSlot
  <2> QED BY <2>1, TakenNone
<1> QED BY <1>1, <1>2

LEMMA ClaudeTaken ==
  ASSUME NEW raw, IsClaudeRaw(raw), NEW window \in Windows, NEW at \in Int, NEW ahead \in BOOLEAN,
         ahead => Ahead(raw) /\ now \in Int /\ at <= now
  PROVE  Taken(ClaudeWindow(window, raw, at), "claude", at, ahead)
<1> DEFINE w == raw[window]
           one == window \in DOMAIN raw /\ ClaudeUsed(w) # NoValue /\ w.at # NoValue
<1>1. CASE one
  <2>1. /\ w.used \in Int \cup {NoValue} /\ w.minutes \in Int /\ w.at \in Int
    BY <1>1 DEF IsClaudeRaw, RawReading
  <2>2. w.used \in 0 .. Limit
    BY <1>1, <2>1, QuotaAssumption DEF ClaudeUsed
  <2>3. ahead => at <= w.at
    <3>1. ahead => (w.at # NoValue => w.at >= now)
      BY <1>1 DEF Ahead
    <3> QED BY <1>1, <2>1, <3>1
  <2> DEFINE s == Sample("claude", window, w, w.at, at)
  <2>4. s \in Samples("claude") /\ s.observed = at /\ s.resets = w.at
    <3> HIDE DEF w
    <3> QED BY <2>1, <2>2 DEF Sample, Samples
  <2>5. ClaudeWindow(window, raw, at) = <<s>>
    BY <1>1 DEF ClaudeWindow
  <2> HIDE DEF s, w
  <2> QED BY <2>3, <2>4, <2>5, TakenOne
<1>2. CASE ~ one
  <2>1. ClaudeWindow(window, raw, at) = <<>>
    BY <1>2 DEF ClaudeWindow
  <2> QED BY <2>1, TakenNone
<1> QED BY <1>1, <1>2

\* What the parsers give.
LEMMA ParsersTaken ==
  ASSUME NEW raw, NEW at \in Int, NEW ahead \in BOOLEAN,
         ahead => Ahead(raw) /\ now \in Int /\ at <= now
  PROVE  /\ IsCodexRaw(raw) => Taken(CodexSamples(raw, at), "codex", at, ahead)
         /\ IsClaudeRaw(raw) => /\ Taken(ParseClaudeRateLimits(raw, at), "claude", at, ahead)
                                /\ Taken(ParseClaudeUsageAPI(raw, at), "claude", at, ahead)
<1>1. ASSUME IsCodexRaw(raw) PROVE Taken(CodexSamples(raw, at), "codex", at, ahead)
  <2>1. ASSUME NEW slot PROVE Taken(CodexSlot(slot, raw, at), "codex", at, ahead)
    BY <1>1, CodexTaken
  <2> QED BY <2>1, TakenJoined DEF CodexSamples
<1>2. ASSUME IsClaudeRaw(raw)
      PROVE  /\ Taken(ParseClaudeRateLimits(raw, at), "claude", at, ahead)
             /\ Taken(ParseClaudeUsageAPI(raw, at), "claude", at, ahead)
  <2>1. ASSUME NEW window \in Windows
        PROVE  Taken(ClaudeWindow(window, raw, at), "claude", at, ahead)
    BY <1>2, ClaudeTaken
  <2>2. \A window \in {"5h", "weekly", "weekly-opus", "weekly-sonnet"} :
          Taken(ClaudeWindow(window, raw, at), "claude", at, ahead)
    BY <2>1 DEF Windows
  <2> DEFINE one == ClaudeWindow("5h", raw, at) \o ClaudeWindow("weekly", raw, at)
  <2>3. Taken(one, "claude", at, ahead)
    BY <2>2, TakenJoined
  <2>4. Taken(ParseClaudeRateLimits(raw, at), "claude", at, ahead)
    <3> HIDE DEF one
    <3> QED BY <2>2, <2>3, TakenJoined DEF ParseClaudeRateLimits, one
  <2> QED BY <2>2, <2>4, TakenJoined DEF ParseClaudeUsageAPI
<1> QED BY <1>1, <1>2
-----------------------------------------------------------------------------
(* What a lookup shows. *)

\* Any provider's readings.
AnySample == Samples("claude") \cup Samples("codex")

LEMMA SampleFields ==
  ASSUME NEW s \in AnySample
  PROVE  /\ s.provider \in {"claude", "codex"} /\ s.window \in Windows
         /\ s.used \in Int /\ s.minutes \in Int /\ s.resets \in Int /\ s.observed \in Int
         /\ s.provider = "claude" => s.used \in 0 .. Limit
BY QuotaAssumption DEF AnySample, Samples

LEMMA OrderFacts ==
  /\ Len(Order) \in Nat \ {0}
  /\ Provider \subseteq {"claude", "codex"}
  /\ \A i \in 1 .. Len(Order) : Order[i] \in Provider
  /\ \A i, j \in 1 .. Len(Order) : Order[i] = Order[j] => i = j
<1>1. /\ Len(Order) \in Nat /\ DOMAIN Order = 1 .. Len(Order)
      /\ \A i \in 1 .. Len(Order) : Order[i] \in {"claude", "codex"}
  BY OrderAssumption
<1>2. Len(Order) # 0
  BY OrderAssumption
<1> QED BY <1>1, <1>2, OrderAssumption DEF Provider, Range, IsInjective

LEMMA ProviderSamples ==
  ASSUME NEW p \in Provider
  PROVE  /\ Samples(p) \subseteq AnySample
         /\ \A s \in Samples(p) : s.provider = p
<1>1. p \in {"claude", "codex"}
  BY OrderFacts
<1> QED BY <1>1 DEF AnySample, Samples

\* The kept readings of a sequence are some of it.
LEMMA TrackerIs ==
  ASSUME NEW S, NEW a \in Seq(S)
  PROVE  /\ Tracker(a) = {a[i] : i \in {i \in 1 .. Len(a) : Kept(a, i)}}
         /\ \A i \in 1 .. Len(a) :
              Kept(a, i) <=>
              ~ \E j \in 1 .. Len(a) :
                  /\ Key(a[j]) = Key(a[i])
                  /\ \/ a[j].observed > a[i].observed
                     \/ a[j].observed = a[i].observed /\ j > i
<1>1. DOMAIN a = 1 .. Len(a)
  OBVIOUS
<1> QED BY <1>1 DEF Tracker, Kept

\* The readings of one provider leave those of others alone.
LEMMA TrackerJoined ==
  ASSUME NEW a \in Seq(AnySample), NEW b \in Seq(AnySample),
         \A i \in 1 .. Len(a), j \in 1 .. Len(b) : a[i].provider # b[j].provider
  PROVE  Tracker(a) \subseteq Tracker(a \o b) /\ Tracker(b) \subseteq Tracker(a \o b)
<1> DEFINE c == a \o b
<1>1. /\ c \in Seq(AnySample) /\ Len(c) = Len(a) + Len(b)
      /\ \A i \in 1 .. Len(a) : c[i] = a[i]
      /\ \A i \in 1 .. Len(b) : c[Len(a) + i] = b[i]
      /\ \A i \in 1 .. Len(c) :
           i \in 1 .. Len(a) \/ (i - Len(a) \in 1 .. Len(b) /\ c[i] = b[i - Len(a)])
  BY Joined
<1>2. Len(a) \in Nat /\ Len(b) \in Nat
  OBVIOUS
<1> HIDE DEF c
<1>3. ASSUME NEW s, NEW t, s.provider # t.provider PROVE Key(s) # Key(t)
  BY <1>3 DEF Key
<1>4. ASSUME NEW i \in 1 .. Len(a), Kept(a, i) PROVE a[i] \in Tracker(c)
  <2>1. i \in 1 .. Len(c) /\ c[i] = a[i]
    BY <1>1, <1>2
  <2>2. ASSUME NEW j \in 1 .. Len(c), Key(c[j]) = Key(c[i]),
               c[j].observed > c[i].observed \/ (c[j].observed = c[i].observed /\ j > i)
        PROVE  FALSE
    <3>1. CASE j \in 1 .. Len(a)
      <4>1. c[j] = a[j]
        BY <1>1, <3>1
      <4> QED BY <1>4, <2>1, <2>2, <3>1, <4>1, TrackerIs
    <3>2. CASE j - Len(a) \in 1 .. Len(b) /\ c[j] = b[j - Len(a)]
      <4>1. a[i].provider # c[j].provider
        BY <3>2
      <4> QED BY <1>3, <2>1, <2>2, <4>1
    <3> QED BY <1>1, <3>1, <3>2
  <2>3. Kept(c, i)
    BY <1>1, <2>1, <2>2, TrackerIs
  <2> QED BY <1>1, <2>1, <2>3, TrackerIs
<1>5. ASSUME NEW i \in 1 .. Len(b), Kept(b, i) PROVE b[i] \in Tracker(c)
  <2> DEFINE k == Len(a) + i
  <2>1. k \in 1 .. Len(c) /\ c[k] = b[i]
    BY <1>1, <1>2
  <2>2. ASSUME NEW j \in 1 .. Len(c), Key(c[j]) = Key(c[k]),
               c[j].observed > c[k].observed \/ (c[j].observed = c[k].observed /\ j > k)
        PROVE  FALSE
    <3>1. CASE j \in 1 .. Len(a)
      <4>1. c[j] = a[j]
        BY <1>1, <3>1
      <4>2. c[j].provider # b[i].provider
        BY <3>1, <4>1
      <4> QED BY <1>3, <2>1, <2>2, <4>2
    <3>2. CASE j - Len(a) \in 1 .. Len(b) /\ c[j] = b[j - Len(a)]
      <4> DEFINE l == j - Len(a)
      <4>1. l \in 1 .. Len(b) /\ c[j] = b[l] /\ (j > k => l > i)
        BY <1>2, <3>2
      <4> HIDE DEF l, k
      <4> QED BY <1>5, <2>1, <2>2, <4>1, TrackerIs
    <3> QED BY <1>1, <3>1, <3>2
  <2>3. Kept(c, k)
    <3> HIDE DEF k
    <3> QED BY <1>1, <2>1, <2>2, TrackerIs
  <2>4. c[k] \in Tracker(c)
    <3> HIDE DEF k
    <3> QED BY <1>1, <2>1, <2>3, TrackerIs
  <2> QED BY <2>1, <2>4
<1> QED BY <1>4, <1>5, TrackerIs DEF c

\* Of readings of one instant, the last is kept.
LEMMA AnswerIsShown ==
  ASSUME NEW p \in Provider, NEW at \in Int, NEW samples, samples # <<>>,
         Taken(samples, p, at, TRUE)
  PROVE  Active(Tracker(samples), at) # {}
<1> DEFINE n == Len(samples)
<1>1. samples \in Seq(Samples(p)) /\ n \in 1 .. Len(samples) /\ n \in Nat
  BY DEF Taken
<1>2. \A i \in 1 .. Len(samples) : samples[i].observed = at /\ at <= samples[i].resets
  BY DEF Taken
<1>3. Kept(samples, n)
  <2> HIDE DEF n
  <2>1. ASSUME NEW j \in 1 .. Len(samples) PROVE ~ (j > n)
    BY <1>1 DEF n
  <2> QED BY <1>1, <1>2, <2>1, TrackerIs
<1>4. samples[n] \in Tracker(samples)
  BY <1>1, <1>3, TrackerIs
<1> QED BY <1>1, <1>2, <1>4 DEF Active

\* A refresh has asked the providers in their order, each once.
AsksInOrder(l) ==
  l.pc \in {"look", "fetch", "disk"} =>
    /\ \A i \in 1 .. Len(l.seen) :
         \E j \in 1 .. Len(Order) : j < l.next /\ l.seen[i].provider = Order[j]
    /\ \A p \in l.kept : \E j \in 1 .. Len(Order) : j < l.next /\ p = Order[j]

\* Who has a valid last reading has a gauge, from the time it is asked.
KeptAreSeen(l) ==
  \A p \in l.kept : \E s \in Active(Tracker(l.seen), l.at) : s.provider = p

\* A fetch asked for while the last good reading was valid still finds it, or an answer that
\* is valid at its instant.
StandingIsValid ==
  \A r \in standing : refresh[r].pc = "fetch" /\ Valid(Asked(r), refresh[r].at)

BarInv ==
  /\ BarTypeOK /\ StandingIsValid
  /\ \A r \in Refresher : AsksInOrder(refresh[r]) /\ KeptAreSeen(refresh[r])

\* Three fields of a lookup set at once.
LEMMA ThreeFields ==
  ASSUME NEW a, NEW b, NEW c, NEW d, NEW e, NEW x, NEW y, NEW z,
         NEW l, l = [pc |-> a, at |-> b, next |-> c, seen |-> d, kept |-> e]
  PROVE  [l EXCEPT !.pc = x, !.next = y, !.seen = z] =
           [pc |-> x, at |-> b, next |-> y, seen |-> z, kept |-> e]
<1>1. [l EXCEPT !.pc = x, !.next = y, !.seen = z] =
        [[[l EXCEPT !.pc = x] EXCEPT !.next = y] EXCEPT !.seen = z]
  BY ONLY TRUE
<1>2. PICK l1 : l1 = [l EXCEPT !.pc = x]
  BY ONLY TRUE
<1>3. PICK l2 : l2 = [l1 EXCEPT !.next = y]
  BY ONLY TRUE
<1>4. l1 = [pc |-> x, at |-> b, next |-> c, seen |-> d, kept |-> e]
  BY ONLY <1>2, l = [pc |-> a, at |-> b, next |-> c, seen |-> d, kept |-> e]
<1>5. l2 = [pc |-> x, at |-> b, next |-> y, seen |-> d, kept |-> e]
  BY ONLY <1>3, <1>4
<1>6. [l2 EXCEPT !.seen = z] = [pc |-> x, at |-> b, next |-> y, seen |-> z, kept |-> e]
  BY ONLY <1>5
<1> QED BY ONLY <1>1, <1>2, <1>3, <1>6

\* What Online tells of a lookup.
LEMMA Told ==
  ASSUME NEW t, NEW l \in Lookup(t), NEW k
  PROVE  [l EXCEPT !.kept = k] =
           [pc |-> l.pc, at |-> l.at, next |-> l.next, seen |-> l.seen, kept |-> k]
BY DEF Lookup

\* What a lookup is after the samples of the provider asked.
LEMMA CollectedLookup ==
  ASSUME NEW t \in Int, NEW l \in Lookup(t), l.pc \in {"look", "fetch", "disk"},
         AsksInOrder(l), KeptAreSeen(l), NEW p, p = Order[l.next], NEW samples \in Seq(Samples(p)),
         NEW kept \in SUBSET (l.kept \cup {p}),
         kept \subseteq l.kept \/ Active(Tracker(samples), l.at) # {}
  PROVE  LET m == Collected([l EXCEPT !.kept = kept], samples)
         IN m \in Lookup(t) /\ AsksInOrder(m) /\ KeptAreSeen(m)
<1> DEFINE told == [l EXCEPT !.kept = kept]
           m == Collected(told, samples)
           last == l.next = Len(Order)
<1>1. /\ l.next \in 1 .. Len(Order) /\ l.seen \in Seq(AnySample) /\ l.kept \in SUBSET Provider
      /\ l.at \in Never .. t
      /\ l = [pc |-> l.pc, at |-> l.at, next |-> l.next, seen |-> l.seen, kept |-> l.kept]
  BY DEF Lookup, AnySample
<1>2. p \in Provider /\ kept \in SUBSET Provider
  BY <1>1, OrderFacts
<1>3. m = [pc |-> IF last THEN "title" ELSE "look", at |-> l.at,
           next |-> IF last THEN l.next ELSE l.next + 1,
           seen |-> l.seen \o samples, kept |-> kept]
  <2>1. told = [pc |-> l.pc, at |-> l.at, next |-> l.next, seen |-> l.seen, kept |-> kept]
    BY Told
  <2>2. PICK k : k = told
    OBVIOUS
  <2>3. PICK pc, at, next, had : pc = l.pc /\ at = l.at /\ next = l.next /\ had = l.seen
    OBVIOUS
  <2>4. k = [pc |-> pc, at |-> at, next |-> next, seen |-> had, kept |-> kept]
    BY <2>1, <2>2, <2>3
  <2> DEFINE x == IF last THEN "title" ELSE "look"
             y == IF last THEN l.next ELSE l.next + 1
             z == l.seen \o samples
  <2>5. k.next = l.next /\ k.seen = l.seen
    BY <2>3, <2>4
  <2>6. Collected(k, samples) = [k EXCEPT !.pc = x, !.next = y, !.seen = z]
    BY <2>5 DEF Collected
  <2> HIDE DEF x, y, z
  <2>7. Collected(k, samples) = [pc |-> x, at |-> at, next |-> y, seen |-> z, kept |-> kept]
    BY <2>4, <2>6, ThreeFields
  <2> HIDE DEF told
  <2> QED BY <2>2, <2>3, <2>7 DEF x, y, z
<1>4. samples \in Seq(AnySample) /\ \A j \in 1 .. Len(samples) : samples[j].provider = p
  <2>1. samples \in [1 .. Len(samples) -> Samples(p)]
    OBVIOUS
  <2> QED BY <1>2, <2>1, ProviderSamples
<1> DEFINE seen == l.seen \o samples
<1>5. /\ seen \in Seq(AnySample)
      /\ \A i \in 1 .. Len(seen) :
           \/ i \in 1 .. Len(l.seen) /\ seen[i] = l.seen[i]
           \/ i - Len(l.seen) \in 1 .. Len(samples) /\ seen[i] = samples[i - Len(l.seen)]
  <2>1. l.seen \in Seq(AnySample) /\ samples \in Seq(AnySample)
    BY <1>1, <1>4
  <2> QED BY <2>1, Joined
<1>6. m.at = l.at /\ m.seen = seen /\ m.kept = kept /\ m.pc \in {"look", "title"}
      /\ (m.pc = "look" => m.next = l.next + 1)
  <2> HIDE DEF m, seen
  <2> QED BY <1>3 DEF seen
<1>7. m \in Lookup(t)
  <2>1. (IF last THEN l.next ELSE l.next + 1) \in 1 .. Len(Order)
    BY <1>1, OrderFacts
  <2> HIDE DEF m, seen
  <2> QED BY <1>1, <1>2, <1>3, <1>5, <2>1 DEF Lookup, AnySample, seen
<1>8. AsksInOrder(m)
  <2> SUFFICES ASSUME m.pc = "look"
               PROVE  /\ \A i \in 1 .. Len(seen) :
                           \E j \in 1 .. Len(Order) : j < l.next + 1 /\ seen[i].provider = Order[j]
                      /\ \A q \in kept : \E j \in 1 .. Len(Order) : j < l.next + 1 /\ q = Order[j]
    <3> HIDE DEF m, seen
    <3> QED BY <1>6 DEF AsksInOrder
  <2>1. ASSUME NEW i \in 1 .. Len(seen)
        PROVE  \E j \in 1 .. Len(Order) : j < l.next + 1 /\ seen[i].provider = Order[j]
    <3>1. CASE i \in 1 .. Len(l.seen) /\ seen[i] = l.seen[i]
      <4>1. PICK j \in 1 .. Len(Order) : j < l.next /\ l.seen[i].provider = Order[j]
        BY <3>1 DEF AsksInOrder
      <4>2. j < l.next + 1
        BY <1>1, <4>1, OrderFacts
      <4> HIDE DEF seen
      <4> QED BY <3>1, <4>1, <4>2
    <3>2. CASE i - Len(l.seen) \in 1 .. Len(samples) /\ seen[i] = samples[i - Len(l.seen)]
      <4>1. seen[i].provider = Order[l.next]
        <5> HIDE DEF seen
        <5> QED BY <1>4, <3>2
      <4>2. l.next < l.next + 1
        BY <1>1, OrderFacts
      <4> HIDE DEF seen
      <4> QED BY <1>1, <4>1, <4>2
    <3> HIDE DEF seen
    <3> QED BY <1>5, <3>1, <3>2
  <2>2. ASSUME NEW q \in kept PROVE \E j \in 1 .. Len(Order) : j < l.next + 1 /\ q = Order[j]
    <3>1. CASE q \in l.kept
      <4>1. PICK j \in 1 .. Len(Order) : j < l.next /\ q = Order[j]
        BY <3>1 DEF AsksInOrder
      <4>2. j < l.next + 1
        BY <1>1, <4>1, OrderFacts
      <4> QED BY <4>1, <4>2
    <3>2. CASE q = p
      <4>1. l.next < l.next + 1
        BY <1>1, OrderFacts
      <4> QED BY <1>1, <3>2, <4>1
    <3> QED BY <3>1, <3>2
  <2> HIDE DEF seen
  <2> QED BY <2>1, <2>2
<1>9. KeptAreSeen(m)
  <2>1. \A i \in 1 .. Len(l.seen), j \in 1 .. Len(samples) :
          l.seen[i].provider # samples[j].provider
    <3> SUFFICES ASSUME NEW i \in 1 .. Len(l.seen), l.seen[i].provider = p PROVE FALSE
      BY <1>4
    <3>1. PICK j \in 1 .. Len(Order) : j < l.next /\ l.seen[i].provider = Order[j]
      BY DEF AsksInOrder
    <3>2. j = l.next
      BY <1>1, <3>1, OrderFacts
    <3> QED BY <1>1, <3>1, <3>2, OrderFacts
  <2>2. Tracker(l.seen) \subseteq Tracker(seen) /\ Tracker(samples) \subseteq Tracker(seen)
    BY <1>1, <1>4, <2>1, TrackerJoined
  <2>3. ASSUME NEW q \in kept PROVE \E s \in Active(Tracker(seen), l.at) : s.provider = q
    <3>1. CASE q \in l.kept
      <4>1. PICK s \in Active(Tracker(l.seen), l.at) : s.provider = q
        BY <3>1 DEF KeptAreSeen
      <4> HIDE DEF seen
      <4> QED BY <2>2, <4>1 DEF Active
    <3>2. CASE q = p /\ Active(Tracker(samples), l.at) # {}
      <4>1. PICK s : s \in Active(Tracker(samples), l.at)
        BY <3>2
      <4>2. s.provider = p
        BY <1>4, <4>1, TrackerIs DEF Active
      <4> HIDE DEF seen
      <4> QED BY <2>2, <3>2, <4>1, <4>2 DEF Active
    <3> QED BY <3>1, <3>2
  <2> HIDE DEF m, seen
  <2> QED BY <1>6, <2>3 DEF KeptAreSeen
<1> HIDE DEF m
<1> QED BY <1>7, <1>8, <1>9 DEF m

-----------------------------------------------------------------------------
(* The rollouts, newest first. *)

\* A set of numbers that is not empty has a least one.
LEMMA LeastNumber ==
  ASSUME NEW Q \in SUBSET Nat, Q # {}
  PROVE  \E n \in Q : \A o \in Q : n <= o
<1> DEFINE R == {ss \in Nat \X Nat : ss[1] < ss[2]}
<1>1. IsWellFoundedOn(R, Nat)
  BY NatLessThanWellFounded, Zenon DEF OpToRel
<1>2. PICK n \in Q : \A o \in Q : ~ (<<o, n>> \in R)
  <2> HIDE DEF R
  <2> QED BY <1>1, WFMin
<1>3. ASSUME NEW o \in Q PROVE n <= o
  <2>1. ~ (o < n)
    BY <1>2
  <2> QED BY <2>1
<1> QED BY <1>3

\* How many rollouts are newer, and who has so many before it.
Rank(s) == Cardinality({t \in Files : Newer(t, s)})
Newest(n) == CHOOSE s \in Files : Rank(s) = n - 1

LEMMA FilesTyped ==
  ASSUME BarTypeOK
  PROVE  /\ IsFiniteSet(Files) /\ Cardinality(Files) \in Nat /\ Files \subseteq Session
         /\ \A s \in Session : /\ s \in Nat /\ rollouts[s].mtime \in Int
                               /\ rollouts[s].mtime >= Never
                               /\ rollouts[s].samples \in Seq(Samples("codex"))
<1>1. IsFiniteSet(Files) /\ Files \subseteq Session
  BY MenuBarAssumption, FS_Subset DEF Files
<1>2. ASSUME NEW s \in Session
      PROVE  /\ s \in Nat /\ rollouts[s].mtime \in Int /\ rollouts[s].mtime >= Never
             /\ rollouts[s].samples \in Seq(Samples("codex"))
  <2>1. s \in Nat
    BY MenuBarAssumption
  <2>2. /\ rollouts[s] \in [mtime : Never .. now, samples : Seq(Samples("codex"))]
        /\ now \in Nat /\ Never \in Int
    BY MenuBarAssumption DEF BarTypeOK
  <2>3. rollouts[s].mtime \in Never .. now /\ rollouts[s].samples \in Seq(Samples("codex"))
    BY <2>2
  <2> QED BY <2>1, <2>2, <2>3
<1> QED BY <1>1, <1>2, FS_CardinalityType

LEMMA NewerIsOrder ==
  ASSUME BarTypeOK, NEW s \in Files, NEW t \in Files
  PROVE  /\ ~ Newer(s, s)
         /\ Newer(s, t) \/ Newer(t, s) \/ s = t
         /\ \A u \in Files : Newer(u, s) /\ Newer(s, t) => Newer(u, t)
<1>1. \A u \in Files : u \in Nat /\ rollouts[u].mtime \in Int
  BY FilesTyped
<1> QED BY <1>1 DEF Newer

LEMMA RankInRange ==
  ASSUME BarTypeOK, NEW s \in Files
  PROVE  Rank(s) \in 0 .. Cardinality(Files) - 1
<1> DEFINE before == {t \in Files : Newer(t, s)}
<1>1. before \in SUBSET Files /\ before # Files
  BY NewerIsOrder
<1>2. /\ IsFiniteSet(before) /\ Cardinality(before) <= Cardinality(Files)
      /\ Cardinality(before) # Cardinality(Files)
  <2> HIDE DEF before
  <2> QED BY <1>1, FilesTyped, FS_Subset
<1>3. Cardinality(before) \in Nat /\ Cardinality(Files) \in Nat
  <2> HIDE DEF before
  <2> QED BY <1>2, FilesTyped, FS_CardinalityType
<1> QED BY <1>2, <1>3 DEF Rank

LEMMA NewerRanksBefore ==
  ASSUME BarTypeOK, NEW s \in Files, NEW t \in Files, Newer(s, t)
  PROVE  Rank(s) < Rank(t)
<1> DEFINE a == {u \in Files : Newer(u, s)}
           b == {u \in Files : Newer(u, t)}
<1>1. a \in SUBSET b /\ a # b
  BY NewerIsOrder
<1>2. b \in SUBSET Files
  OBVIOUS
<1>3. IsFiniteSet(b)
  <2> HIDE DEF b
  <2> QED BY <1>2, FilesTyped, FS_Subset
<1>4. IsFiniteSet(a) /\ Cardinality(a) <= Cardinality(b) /\ Cardinality(a) # Cardinality(b)
  <2> HIDE DEF a, b
  <2> QED BY <1>1, <1>3, FS_Subset
<1>5. Cardinality(a) \in Nat /\ Cardinality(b) \in Nat
  <2> HIDE DEF a, b
  <2> QED BY <1>3, <1>4, FS_CardinalityType
<1> QED BY <1>4, <1>5 DEF Rank

\* Each rollout has a place of its own, and each place a rollout.
LEMMA NewestIs ==
  ASSUME BarTypeOK
  PROVE  /\ \A s \in Files : Newest(Rank(s) + 1) = s
         /\ \A n \in 1 .. Cardinality(Files) : Newest(n) \in Files /\ Rank(Newest(n)) = n - 1
<1> DEFINE C == Cardinality(Files)
           f == [s \in Files |-> Rank(s) + 1]
<1>1. C \in Nat /\ IsFiniteSet(1 .. C) /\ Cardinality(1 .. C) = C
  BY FilesTyped, FS_Interval
<1>2. ASSUME NEW s \in Files, NEW t \in Files, Rank(s) = Rank(t) PROVE s = t
  <2>1. Rank(s) \in Nat /\ Rank(t) \in Nat
    BY RankInRange, <1>1
  <2>2. ~ Newer(s, t) /\ ~ Newer(t, s)
    BY <1>2, <2>1, NewerRanksBefore
  <2> QED BY <2>2, NewerIsOrder
<1>3. \A s \in Files : Rank(s) \in Int /\ Rank(s) + 1 \in 1 .. C
  BY RankInRange, <1>1
<1>4. f \in Injection(Files, 1 .. C)
  <2>1. f \in [Files -> 1 .. C]
    <3> HIDE DEF C
    <3> QED BY <1>3
  <2>2. \A s, t \in Files : f[s] = f[t] => s = t
    BY <1>2, <1>3
  <2> HIDE DEF f, C
  <2> QED BY <2>1, <2>2 DEF Injection, IsInjective
<1>5. f \in Surjection(Files, 1 .. C)
  <2> HIDE DEF f
  <2> QED BY <1>1, <1>4, FS_Injection
<1>6. ASSUME NEW n \in 1 .. C PROVE \E s \in Files : Rank(s) = n - 1
  <2>1. PICK s \in Files : f[s] = n
    <3> HIDE DEF f, C
    <3> QED BY <1>5 DEF Surjection
  <2>2. Rank(s) + 1 = n
    BY <2>1
  <2> QED BY <1>1, <1>3, <2>2
<1>7. ASSUME NEW n \in 1 .. C PROVE Newest(n) \in Files /\ Rank(Newest(n)) = n - 1
  BY <1>6 DEF Newest
<1>8. ASSUME NEW s \in Files PROVE Newest(Rank(s) + 1) = s
  <2>1. Rank(s) + 1 \in 1 .. C /\ (Rank(s) + 1) - 1 = Rank(s)
    BY <1>3
  <2>2. Newest(Rank(s) + 1) \in Files /\ Rank(Newest(Rank(s) + 1)) = Rank(s)
    <3>1. PICK n : n = Rank(s) + 1
      OBVIOUS
    <3> HIDE DEF C
    <3> QED BY <1>7, <2>1, <3>1
  <2> QED BY <1>2, <2>2
<1> QED BY <1>7, <1>8

\* f holds what the newest rollouts hold, up to the C newest of them.
Reads(f, C) ==
  f = [n \in 0 .. C |-> IF n = 0 THEN <<>> ELSE f[n - 1] \o rollouts[Newest(n)].samples]

LEMMA NewestRolloutsChosen ==
  NewestRollouts = CHOOSE f : Reads(f, Cardinality(Files))
BY DEF NewestRollouts, Newest, Rank, Reads

LEMMA ReadsExist ==
  ASSUME NEW C \in Nat
  PROVE  \E f : Reads(f, C)
<1> DEFINE Bad == {c \in Nat : ~ \E f : Reads(f, c)}
<1> SUFFICES ASSUME Bad # {} PROVE FALSE
  OBVIOUS
<1>1. PICK c \in Bad : \A o \in Bad : c <= o
  <2>1. Bad \in SUBSET Nat
    OBVIOUS
  <2> HIDE DEF Bad
  <2> QED BY <2>1, LeastNumber
<1>2. CASE c = 0
  <2> DEFINE f == [n \in 0 .. 0 |-> <<>>]
  <2>1. f = [n \in 0 .. 0 |-> IF n = 0 THEN <<>> ELSE f[n - 1] \o rollouts[Newest(n)].samples]
    <3>1. \A n \in 0 .. 0 : n = 0
      OBVIOUS
    <3>2. \A n \in 0 .. 0 :
            <<>> = IF n = 0 THEN <<>> ELSE f[n - 1] \o rollouts[Newest(n)].samples
      BY <3>1
    <3> QED BY <3>2
  <2>2. Reads(f, 0)
    BY <2>1 DEF Reads
  <2> QED BY <1>2, <2>2
<1>3. CASE c # 0
  <2>1. c \in Nat /\ c - 1 \in Nat /\ c - 1 \notin Bad
    BY <1>1, <1>3
  <2>2. PICK h : Reads(h, c - 1)
    BY <2>1
  <2>3. \A n \in 0 .. c - 1 :
          h[n] = IF n = 0 THEN <<>> ELSE h[n - 1] \o rollouts[Newest(n)].samples
    BY <2>2 DEF Reads
  <2> DEFINE f == [n \in 0 .. c |-> IF n = c THEN h[c - 1] \o rollouts[Newest(c)].samples
                                             ELSE h[n]]
  <2>4. \A n \in 0 .. c - 1 : f[n] = h[n]
    BY <2>1
  <2>5. ASSUME NEW n \in 0 .. c
        PROVE  (IF n = c THEN h[c - 1] \o rollouts[Newest(c)].samples ELSE h[n])
                 = (IF n = 0 THEN <<>> ELSE f[n - 1] \o rollouts[Newest(n)].samples)
    <3>1. CASE n = c
      <4>1. f[n - 1] = h[c - 1] /\ n # 0
        <5> HIDE DEF f
        <5> QED BY <1>3, <2>1, <2>4, <3>1
      <4> HIDE DEF f
      <4> QED BY <3>1, <4>1
    <3>2. CASE n # c
      <4>1. n \in 0 .. c - 1 /\ (n # 0 => n - 1 \in 0 .. c - 1)
        BY <2>1, <3>2
      <4>2. n # 0 => f[n - 1] = h[n - 1]
        <5> HIDE DEF f
        <5> QED BY <2>4, <4>1
      <4> HIDE DEF f
      <4> QED BY <2>3, <3>2, <4>1, <4>2
    <3> QED BY <3>1, <3>2
  <2>6. f = [n \in 0 .. c |-> IF n = 0 THEN <<>> ELSE f[n - 1] \o rollouts[Newest(n)].samples]
    <3>1. PICK g : g = f
      OBVIOUS
    <3>2. g = [n \in 0 .. c |-> IF n = c THEN h[c - 1] \o rollouts[Newest(c)].samples ELSE h[n]]
      BY <3>1
    <3>3. \A n \in 0 .. c : (IF n = c THEN h[c - 1] \o rollouts[Newest(c)].samples ELSE h[n])
                 = (IF n = 0 THEN <<>> ELSE g[n - 1] \o rollouts[Newest(n)].samples)
      <4> HIDE DEF f
      <4> QED BY <2>5, <3>1
    <3>4. g = [n \in 0 .. c |-> IF n = 0 THEN <<>> ELSE g[n - 1] \o rollouts[Newest(n)].samples]
      BY ONLY <3>2, <3>3
    <3> HIDE DEF f
    <3> QED BY <3>1, <3>4
  <2>7. Reads(f, c)
    BY <2>6 DEF Reads
  <2> QED BY <1>1, <2>7
<1> QED BY <1>2, <1>3

\* What is read of the n newest rollouts is what they hold.
LEMMA ReadsHold ==
  ASSUME BarTypeOK, NEW f, Reads(f, Cardinality(Files)), NEW m \in 0 .. Cardinality(Files)
  PROVE  /\ f[m] \in Seq(Samples("codex"))
         /\ \A i \in 1 .. Len(f[m]) : \E k \in 1 .. m : Holds(f[m][i], Newest(k))
         /\ \A k \in 1 .. m : \A t : Holds(t, Newest(k)) => \E i \in 1 .. Len(f[m]) : f[m][i] = t
<1> DEFINE S == Samples("codex")
           C == Cardinality(Files)
           Good(n) == /\ f[n] \in Seq(S)
                      /\ \A i \in 1 .. Len(f[n]) : \E k \in 1 .. n : Holds(f[n][i], Newest(k))
                      /\ \A k \in 1 .. n : \A t : Holds(t, Newest(k)) =>
                            \E i \in 1 .. Len(f[n]) : f[n][i] = t
           Bad == {n \in 0 .. C : ~ Good(n)}
<1>0. C \in Nat
  BY FilesTyped
<1> SUFFICES ASSUME Bad # {} PROVE FALSE
  OBVIOUS
<1>1. PICK c \in Bad : \A o \in Bad : c <= o
  <2>1. Bad \in SUBSET Nat
    BY <1>0
  <2> HIDE DEF Bad
  <2> QED BY <2>1, LeastNumber
<1>2. \A n \in 0 .. C : f[n] = IF n = 0 THEN <<>> ELSE f[n - 1] \o rollouts[Newest(n)].samples
  BY DEF Reads
<1>3. CASE c = 0
  <2>1. f[c] = <<>>
    BY <1>0, <1>2, <1>3
  <2>2. f[c] \in Seq(S) /\ Len(f[c]) = 0
    BY <2>1
  <2> HIDE DEF S
  <2>3. Good(c)
    BY <1>3, <2>2
  <2> HIDE DEF Good
  <2> QED BY <1>1, <2>3
<1>4. CASE c # 0
  <2>1. c \in 1 .. C /\ c - 1 \in 0 .. C /\ c - 1 \notin Bad
    <3> HIDE DEF Good
    <3> QED BY <1>0, <1>1, <1>4
  <2>2. Good(c - 1)
    <3> HIDE DEF Good
    <3> QED BY <2>1
  <2> DEFINE a == f[c - 1]
             b == rollouts[Newest(c)].samples
  <2>3. f[c] = a \o b
    BY <1>2, <1>4, <2>1
  <2>4. a \in Seq(S) /\ b \in Seq(S)
    BY <2>1, <2>2, NewestIs, FilesTyped
  <2>5. /\ f[c] \in Seq(S) /\ Len(f[c]) = Len(a) + Len(b)
        /\ \A i \in 1 .. Len(a) : f[c][i] = a[i]
        /\ \A i \in 1 .. Len(b) : f[c][Len(a) + i] = b[i]
        /\ \A i \in 1 .. Len(f[c]) :
             i \in 1 .. Len(a) \/ (i - Len(a) \in 1 .. Len(b) /\ f[c][i] = b[i - Len(a)])
    <3> HIDE DEF a, b, S
    <3> QED BY <2>3, <2>4, Joined
  <2>6. Len(a) \in Nat /\ Len(b) \in Nat
    <3> HIDE DEF a, b
    <3> QED BY <2>4
  <2>7. \A t : Holds(t, Newest(c)) <=> \E i \in 1 .. Len(b) : t = b[i]
    <3>1. DOMAIN b = 1 .. Len(b)
      <4> HIDE DEF b
      <4> QED BY <2>4
    <3> QED BY <3>1 DEF Holds, Range
  <2>8. /\ \A i \in 1 .. Len(a) : \E k \in 1 .. c - 1 : Holds(a[i], Newest(k))
        /\ \A k \in 1 .. c - 1 : \A t : Holds(t, Newest(k)) => \E i \in 1 .. Len(a) : a[i] = t
    BY <2>2
  <2> HIDE DEF a, b, S, Good
  <2>9. ASSUME NEW i \in 1 .. Len(f[c]) PROVE \E k \in 1 .. c : Holds(f[c][i], Newest(k))
    <3>1. CASE i \in 1 .. Len(a)
      <4>1. PICK k \in 1 .. c - 1 : Holds(a[i], Newest(k))
        BY <2>8, <3>1
      <4> QED BY <2>1, <2>5, <3>1, <4>1
    <3>2. CASE i - Len(a) \in 1 .. Len(b) /\ f[c][i] = b[i - Len(a)]
      <4>1. Holds(f[c][i], Newest(c))
        BY <2>7, <3>2
      <4> QED BY <2>1, <4>1
    <3> QED BY <2>5, <3>1, <3>2
  <2>10. ASSUME NEW k \in 1 .. c, NEW t, Holds(t, Newest(k))
         PROVE  \E i \in 1 .. Len(f[c]) : f[c][i] = t
    <3>1. CASE k = c
      <4>1. PICK i \in 1 .. Len(b) : t = b[i]
        BY <2>7, <2>10, <3>1
      <4>2. Len(a) + i \in 1 .. Len(f[c]) /\ f[c][Len(a) + i] = t
        BY <2>5, <2>6, <4>1
      <4> QED BY <4>2
    <3>2. CASE k # c
      <4>1. k \in 1 .. c - 1
        BY <2>1, <3>2
      <4>2. PICK i \in 1 .. Len(a) : a[i] = t
        BY <2>8, <2>10, <4>1
      <4>3. i \in 1 .. Len(f[c]) /\ f[c][i] = t
        BY <2>5, <2>6, <4>2
      <4> QED BY <4>3
    <3> QED BY <3>1, <3>2
  <2>11. Good(c)
    BY <2>5, <2>9, <2>10 DEF Good
  <2> QED BY <1>1, <2>11
<1> QED BY <1>3, <1>4

LEMMA NewestRolloutsHold ==
  ASSUME BarTypeOK
  PROVE  \A m \in 0 .. Cardinality(Files) :
           /\ NewestRollouts[m] \in Seq(Samples("codex"))
           /\ \A i \in 1 .. Len(NewestRollouts[m]) :
                \E k \in 1 .. m : Holds(NewestRollouts[m][i], Newest(k))
           /\ \A k \in 1 .. m : \A t : Holds(t, Newest(k)) =>
                \E i \in 1 .. Len(NewestRollouts[m]) : NewestRollouts[m][i] = t
<1>1. Reads(NewestRollouts, Cardinality(Files))
  BY NewestRolloutsChosen, ReadsExist, FilesTyped
<1> QED BY <1>1, ReadsHold

\* A finite set as a sequence: all of it, and nothing else.
LEMMA ListOfSet ==
  ASSUME NEW S, IsFiniteSet(S)
  PROVE  SetToSeq(S) \in Seq(S) /\ Range(SetToSeq(S)) = S
<1> DEFINE n == Cardinality(S)
<1>1. n \in Nat /\ ExistsBijection(1 .. n, S)
  BY FS_CardinalityType
<1>2. \E f \in [1 .. n -> S] : IsInjective(f)
  BY <1>1 DEF ExistsBijection, Bijection, Injection, IsInjective
<1>3. SetToSeq(S) \in [1 .. n -> S] /\ IsInjective(SetToSeq(S))
  BY <1>2 DEF SetToSeq
<1>4. PICK f : f = SetToSeq(S)
  OBVIOUS
<1>5. f \in Injection(1 .. n, S)
  <2> HIDE DEF n
  <2> QED BY <1>3, <1>4 DEF Injection
<1>6. Cardinality(1 .. n) = n
  BY <1>1, FS_Interval
<1>7. f \in Surjection(1 .. n, S)
  BY <1>5, <1>6, FS_Injection
<1>8. Range(f) = S
  <2> HIDE DEF n
  <2> QED BY <1>7 DEF Surjection, Range
<1> HIDE DEF n
<1> QED BY <1>1, <1>3, <1>4, <1>8

\* Local readings of Codex are the live windows of some of the newest rollouts.
LEMMA RolloutSamplesAre ==
  ASSUME BarTypeOK, NEW at
  PROVE  \E n \in 0 .. Cardinality(Files) :
           LET live == Active(Tracker(NewestRollouts[n]), at)
           IN /\ live \subseteq Samples("codex")
              /\ CodexRolloutSamples(at) \in Seq(live)
              /\ Range(CodexRolloutSamples(at)) = live
<1> DEFINE C == Cardinality(Files)
           live(n) == Active(Tracker(NewestRollouts[n]), at)
           most == IF C < MaxQuotaScanFiles THEN C ELSE MaxQuotaScanFiles
           enough == {n \in 0 .. most : n = most \/ live(n) # {}}
           least == CHOOSE n \in enough : \A m \in enough : n <= m
<1>1. C \in Nat /\ most \in 0 .. C
  BY FilesTyped, MenuBarAssumption
<1>2. enough \in SUBSET Nat /\ most \in enough
  <2> HIDE DEF most, live
  <2> QED BY <1>1
<1>3. least \in enough
  <2>1. \E n \in enough : \A m \in enough : n <= m
    <3> HIDE DEF enough, most
    <3> QED BY <1>2, LeastNumber
  <2> HIDE DEF enough
  <2> QED BY <2>1
<1>4. least \in 0 .. C
  <2>1. enough \subseteq 0 .. C
    <3> HIDE DEF most, live
    <3> QED BY <1>1
  <2> HIDE DEF enough, least
  <2> QED BY <1>3, <2>1
<1>5. CodexRolloutSamples(at) = SetToSeq(live(least))
  BY DEF CodexRolloutSamples
<1>6. PICK seq : seq = NewestRollouts[least]
  OBVIOUS
<1>7. seq \in Seq(Samples("codex"))
  <2> HIDE DEF least
  <2> QED BY <1>4, <1>6, NewestRolloutsHold
<1>8. live(least) = Active(Tracker(seq), at)
  BY <1>6
<1>9. live(least) \subseteq Samples("codex") /\ IsFiniteSet(live(least))
  <2> DEFINE all == {seq[i] : i \in 1 .. Len(seq)}
  <2>1. Len(seq) \in Nat /\ all \subseteq Samples("codex")
    BY <1>7
  <2>2. IsFiniteSet(all)
    <3>1. IsFiniteSet(1 .. Len(seq))
      BY <2>1, FS_Interval
    <3>2. seq \in [1 .. Len(seq) -> all]
      BY <1>7
    <3>3. \A t \in all : \E i \in 1 .. Len(seq) : seq[i] = t
      OBVIOUS
    <3>4. seq \in Surjection(1 .. Len(seq), all)
      <4> HIDE DEF all
      <4> QED BY <3>2, <3>3 DEF Surjection
    <3> HIDE DEF all
    <3> QED BY <3>1, <3>4, FS_Surjection
  <2>3. Active(Tracker(seq), at) \in SUBSET all
    BY <1>7, TrackerIs DEF Active
  <2> HIDE DEF all, live
  <2> QED BY <1>8, <2>1, <2>2, <2>3, FS_Subset
<1> HIDE DEF live, least
<1>10. CodexRolloutSamples(at) \in Seq(live(least)) /\ Range(CodexRolloutSamples(at)) = live(least)
  BY <1>5, <1>9, ListOfSet
<1> QED BY <1>4, <1>9, <1>10 DEF live

LEMMA TypeOKGaugesAreTheLatest == BarTypeOK => GaugesAreTheLatest
<1> SUFFICES ASSUME BarTypeOK, NEW s \in Range(CodexRolloutSamples(now))
             PROVE  \E f \in Session :
                      /\ Holds(s, f)
                      /\ \A g \in Session : g = f \/ rollouts[g].mtime > rollouts[f].mtime =>
                            \A t \in Range(rollouts[g].samples) :
                              t.window = s.window => t.observed <= s.observed
  BY DEF GaugesAreTheLatest
<1>1. PICK n \in 0 .. Cardinality(Files) :
        Range(CodexRolloutSamples(now)) = Active(Tracker(NewestRollouts[n]), now)
  BY RolloutSamplesAre
<1>2. PICK seq : seq = NewestRollouts[n]
  OBVIOUS
<1>3. /\ seq \in Seq(Samples("codex"))
      /\ \A i \in 1 .. Len(seq) : \E k \in 1 .. n : Holds(seq[i], Newest(k))
      /\ \A k \in 1 .. n : \A t : Holds(t, Newest(k)) => \E i \in 1 .. Len(seq) : seq[i] = t
  BY <1>2, NewestRolloutsHold
<1>4. s \in Tracker(seq)
  BY <1>1, <1>2 DEF Active
<1>5. PICK i \in 1 .. Len(seq) : s = seq[i] /\ Kept(seq, i)
  BY <1>3, <1>4, TrackerIs
<1>6. PICK k \in 1 .. n : Holds(s, Newest(k))
  BY <1>3, <1>5
<1>7. /\ Cardinality(Files) \in Nat /\ n \in Nat /\ k \in 1 .. Cardinality(Files)
  BY <1>6, FilesTyped
<1>8. PICK f : f = Newest(k)
  OBVIOUS
<1>9. f \in Files /\ f \in Session /\ Rank(f) = k - 1
  BY <1>7, <1>8, NewestIs, FilesTyped
<1>10. ASSUME NEW g \in Session, g = f \/ rollouts[g].mtime > rollouts[f].mtime,
              NEW t \in Range(rollouts[g].samples), t.window = s.window
       PROVE  t.observed <= s.observed
  <2>1. g \in Files
    <3>1. rollouts[g].mtime \in Int /\ rollouts[f].mtime \in Int /\ rollouts[f].mtime >= Never
      BY <1>9, FilesTyped
    <3> QED BY <1>9, <1>10, <3>1, MenuBarAssumption DEF Files
  <2>2. Rank(g) + 1 \in 1 .. n
    <3>1. Rank(g) \in Nat /\ Rank(f) \in Nat
      BY <1>7, <1>9, <2>1, RankInRange
    <3>2. g = f \/ Rank(g) < Rank(f)
      BY <1>9, <1>10, <2>1, NewerRanksBefore DEF Newer
    <3> QED BY <1>7, <1>6, <1>9, <3>1, <3>2
  <2>3. Newest(Rank(g) + 1) = g
    BY <2>1, NewestIs
  <2>4. PICK j \in 1 .. Len(seq) : seq[j] = t
    <3>1. Holds(t, g)
      BY <1>10 DEF Holds
    <3> QED BY <1>3, <2>2, <2>3, <3>1
  <2>5. s \in Samples("codex") /\ t \in Samples("codex")
    BY <1>3, <1>5, <2>4
  <2>6. s.provider = t.provider /\ s.observed \in Int /\ t.observed \in Int
    BY <2>5 DEF Samples
  <2>7. Key(t) = Key(s)
    BY <1>10, <2>6 DEF Key
  <2>8. ~ (seq[j].observed > seq[i].observed)
    BY <1>3, <1>5, <2>4, <2>7, TrackerIs
  <2> QED BY <1>5, <2>4, <2>6, <2>8
<1>11. Holds(s, f)
  BY <1>6, <1>8
<1> QED BY <1>9, <1>10, <1>11

-----------------------------------------------------------------------------
(* Forecasts. *)

\* The quotient of a division, and against what it is compared.
LEMMA Quotient ==
  ASSUME NEW a \in Int, NEW b \in Nat \ {0}
  PROVE  a \div b \in Int /\ b * (a \div b) <= a /\ a < b * (a \div b) + b
OBVIOUS

LEMMA QuotientReaches ==
  ASSUME NEW a \in Int, NEW b \in Nat \ {0}, NEW c \in Int
  PROVE  a \div b >= c <=> a >= b * c
<1>1. PICK q \in Int : q = a \div b /\ b * q <= a /\ a < b * q + b
  BY Quotient
<1>2. ASSUME q >= c PROVE b * q >= b * c
  <2>1. b * (q - c) >= 0
    BY <1>2
  <2>2. b * (q - c) = b * q - b * c
    OBVIOUS
  <2> QED BY <2>1, <2>2
<1>3. ASSUME q < c PROVE b * q + b <= b * c
  <2>1. b * (c - q - 1) >= 0
    BY <1>3
  <2>2. b * (c - q - 1) = b * c - b * q - b
    OBVIOUS
  <2> QED BY <2>1, <2>2
<1> QED BY <1>1, <1>2, <1>3

LEMMA ProjectIsSound ==
  ASSUME NEW used \in Int, NEW elapsed \in Int, NEW window \in Int
  PROVE  LET p == Project(used, elapsed, window)
         IN /\ p.breaches \in BOOLEAN
            /\ p.breaches <=> p.projected >= Limit
            /\ p.breaches => p.eta = 0 \/ p.eta <= window - elapsed
<1> DEFINE p == Project(used, elapsed, window)
<1>1. Limit \in Nat \ {0}
  BY QuotaAssumption
<1>2. CASE used >= Limit
  <2>1. p = [projected |-> used, breaches |-> TRUE, eta |-> 0]
    BY <1>2 DEF Project
  <2> QED BY <1>2, <2>1
<1>3. CASE used < Limit /\ (elapsed <= 0 \/ window <= 0)
  <2>1. p.projected = used /\ p.breaches = FALSE
    BY <1>1, <1>3 DEF Project
  <2> HIDE DEF p
  <2>2. p.breaches \in BOOLEAN /\ ~ p.breaches
    BY <2>1
  <2>3. ~ (p.projected >= Limit)
    BY <1>1, <1>3, <2>1
  <2> QED BY <2>2, <2>3 DEF p
<1>4. CASE used < Limit /\ elapsed > 0 /\ window > 0
  <2> DEFINE q == (used * window) \div elapsed
  <2>1. elapsed \in Nat \ {0} /\ used * window \in Int
    BY <1>4
  <2>2. q \in Int /\ (q >= Limit <=> used * window >= elapsed * Limit)
    BY <1>1, <2>1, Quotient, QuotientReaches
  <2>3. CASE used <= 0
    <3>1. p.projected = q /\ p.breaches = FALSE
      BY <1>4, <2>3, <1>1 DEF Project
    <3>2. used * window <= 0 /\ elapsed * Limit > 0
      BY <1>1, <1>4, <2>3
    <3> HIDE DEF q, p
    <3>3. p.breaches \in BOOLEAN /\ ~ p.breaches
      BY <3>1
    <3>4. ~ (p.projected >= Limit)
      <4>1. elapsed * Limit \in Int
        BY <1>1
      <4> QED BY <2>1, <2>2, <3>1, <3>2, <4>1
    <3> QED BY <3>3, <3>4 DEF p
  <2>4. CASE used > 0
    <3> DEFINE x == (Limit - used) * elapsed
               y == used * (window - elapsed)
               eta == (2 * (Limit - used) * elapsed + used) \div (2 * used)
    <3>1. p = [projected |-> q, breaches |-> x <= y, eta |-> IF x <= y THEN eta ELSE 0]
      BY <1>4, <2>4, <1>1 DEF Project
    <3>2. x \in Int /\ y \in Int /\ x = Limit * elapsed - used * elapsed
          /\ y = used * window - used * elapsed
      BY <1>1
    <3>3. x <= y <=> q >= Limit
      <4>1. elapsed * Limit = Limit * elapsed
        BY <1>1
      <4> HIDE DEF x, y, q
      <4> QED BY <1>1, <2>2, <3>2, <4>1
    <3>4. ASSUME x <= y PROVE eta <= window - elapsed
      <4> DEFINE a == 2 * (Limit - used) * elapsed + used
                 b == 2 * used
                 c == window - elapsed + 1
      <4>1. a = 2 * x + used /\ b * c = 2 * y + 2 * used
        BY <1>1
      <4>2. a \in Int /\ b \in Nat \ {0} /\ c \in Int
        BY <1>1, <2>4
      <4>3. a < b * c
        <5> HIDE DEF a, b, c, x, y
        <5> QED BY <2>4, <3>2, <3>4, <4>1
      <4>4. ~ (a \div b >= c) /\ a \div b \in Int
        <5>1. b * c \in Int
          BY <1>1
        <5> HIDE DEF a, b, c
        <5> QED BY <4>2, <4>3, <5>1, Quotient, QuotientReaches
      <4>5. eta = a \div b
        OBVIOUS
      <4> HIDE DEF a, b, eta
      <4> QED BY <4>4, <4>5
    <3>5. p.projected = q /\ p.breaches = (x <= y) /\ p.eta = IF x <= y THEN eta ELSE 0
      <4> HIDE DEF x, y, q, eta, p
      <4> QED BY <3>1
    <3> HIDE DEF x, y, q, eta, p
    <3>6. p.breaches \in BOOLEAN
      BY <3>5
    <3>7. p.breaches <=> p.projected >= Limit
      BY <3>3, <3>5
    <3>8. p.breaches => p.eta = 0 \/ p.eta <= window - elapsed
      BY <3>4, <3>5
    <3> QED BY <3>6, <3>7, <3>8 DEF p
  <2> QED BY <2>3, <2>4
<1> QED BY <1>1, <1>2, <1>3, <1>4

\* What a gauge says of a reading that is not over.
LEMMA GaugeIsSound ==
  ASSUME NEW s \in AnySample, NEW at \in Int, at <= s.resets
  PROVE  LET g == Gauge(s, at)
             f == g.projection
         IN /\ f.breaches <=> (f.projected >= Limit)
            /\ f.breaches => f.eta <= g.resets - at /\ g.severity >= SevWarn
            /\ g.used >= CritAt => g.severity = SevCrit
            /\ g.provider = "claude" => g.used \in 0 .. Limit
<1> DEFINE w == WindowDuration(s)
           e == Elapsed(s, at)
           p == Project(s.used, e, w)
           g == Gauge(s, at)
<1>1. s.used \in Int /\ s.minutes \in Int /\ s.resets \in Int
      /\ (s.provider = "claude" => s.used \in 0 .. Limit)
  BY SampleFields
<1>2. w \in Int
  <2>1. Len5h \in Int /\ LenWeek \in Int
    BY QuotaAssumption
  <2>2. s.minutes > 0 \/ s.minutes <= 0
    BY <1>1
  <2>3. CASE s.minutes > 0
    <3>1. w = s.minutes
      BY <1>1, <2>3 DEF WindowDuration
    <3> QED BY <1>1, <3>1
  <2>4. CASE s.minutes <= 0
    <3>1. w = IF s.window = "5h" THEN Len5h
              ELSE IF s.window \in {"weekly", "weekly-opus"} THEN LenWeek ELSE 0
      BY <1>1, <2>4 DEF WindowDuration
    <3> QED BY <2>1, <3>1
  <2> QED BY <2>2, <2>3, <2>4
<1>3. e \in Int /\ w - e = s.resets - at
  <2>1. e = w - (s.resets - at)
    BY DEF Elapsed
  <2> HIDE DEF w, e
  <2> QED BY <1>1, <1>2, <2>1
<1>4. /\ p.breaches \in BOOLEAN /\ (p.breaches <=> p.projected >= Limit)
      /\ p.breaches => p.eta = 0 \/ p.eta <= w - e
  <2> HIDE DEF w, e
  <2> QED BY <1>1, <1>2, <1>3, ProjectIsSound
<1>5. /\ g.projection = p /\ g.severity = Classify(s.used, p.breaches) /\ g.used = s.used
      /\ g.resets = s.resets /\ g.provider = s.provider
  BY DEF Gauge
<1>6. /\ p.breaches => Classify(s.used, p.breaches) >= SevWarn
      /\ s.used >= CritAt => Classify(s.used, p.breaches) = SevCrit
  BY DEF Classify, SevWarn, SevCrit
<1> HIDE DEF w, e, p, g
<1>7. p.breaches => p.eta <= s.resets - at
  BY <1>1, <1>3, <1>4
<1> QED BY <1>1, <1>4, <1>5, <1>6, <1>7 DEF g

-----------------------------------------------------------------------------
(* The steps. *)

LEMMA BarFacts ==
  ASSUME BarInv
  PROVE  /\ now \in Int /\ now >= 0
         /\ \A p \in Provider : cache[p] \in Seq(Samples(p))
         /\ \A r \in Refresher : /\ refresh[r] \in Lookup(now)
                                 /\ refresh[r].at \in Int /\ refresh[r].at <= now
                                 /\ refresh[r].next \in 1 .. Len(Order)
                                 /\ refresh[r].seen \in Seq(AnySample)
                                 /\ Asked(r) \in Provider
<1>1. now \in Int /\ now >= 0
  BY MenuBarAssumption DEF BarInv, BarTypeOK
<1>2. ASSUME NEW r \in Refresher PROVE refresh[r] \in Lookup(now)
  BY DEF BarInv, BarTypeOK
<1>3. ASSUME NEW r \in Refresher
      PROVE  /\ refresh[r].at \in Never .. now /\ refresh[r].next \in 1 .. Len(Order)
             /\ refresh[r].seen \in Seq(AnySample)
  BY <1>2 DEF Lookup, AnySample
<1>4. ASSUME NEW r \in Refresher
      PROVE  Asked(r) \in Provider /\ refresh[r].at \in Int /\ refresh[r].at <= now
  BY <1>1, <1>3, OrderFacts, MenuBarAssumption DEF Asked
<1> QED BY <1>1, <1>2, <1>3, <1>4 DEF BarInv, BarTypeOK

LEMMA InitHasBarInv == BarInit => BarInv
<1> SUFFICES ASSUME BarInit PROVE BarInv
  OBVIOUS
<1>1. now = 0 /\ 0 \in 0 .. MaxTime /\ Never \in Never .. now
  BY MenuBarAssumption DEF BarInit
<1>2. fetchedAt \in [Provider -> Never .. now]
  BY <1>1 DEF BarInit
<1>3. DOMAIN cache = Provider /\ \A p \in Provider : cache[p] \in Seq(Samples(p))
  <2>1. \A p \in Provider : <<>> \in Seq(Samples(p))
    OBVIOUS
  <2> QED BY <2>1 DEF BarInit
<1>4. rollouts \in [Session -> [mtime : Never .. now, samples : Seq(Samples("codex"))]]
  BY <1>1, ReadingsAssumption DEF BarInit
<1>5. snapshot.mtime \in Never .. now /\ IsClaudeRaw(snapshot.raw)
  <2>1. snapshot.mtime = Never /\ snapshot.raw = <<>>
    BY DEF BarInit, NoFile
  <2>2. IsClaudeRaw(<<>>)
    BY DEF IsClaudeRaw, RawReading
  <2> QED BY <1>1, <2>1, <2>2
<1>6. Idle \in Lookup(now)
  <2>1. <<>> \in Seq(Samples("claude") \cup Samples("codex")) /\ 1 \in 1 .. Len(Order)
    BY OrderFacts
  <2> QED BY <1>1, <2>1 DEF Idle, Lookup
<1>7. AsksInOrder(Idle) /\ KeptAreSeen(Idle)
  BY DEF AsksInOrder, KeptAreSeen, Idle
<1>8. refresh \in [Refresher -> Lookup(now)] /\ \A r \in Refresher : refresh[r] = Idle
  BY <1>6 DEF BarInit
<1>9. DOMAIN bar = {"title", "popover"} /\ bar.title.at = Never /\ bar.popover.at = Never
  BY DEF BarInit, Nothing
<1>10. BarTypeOK
  <2>1. standing = {}
    BY DEF BarInit
  <2> QED BY <1>1, <1>2, <1>3, <1>4, <1>5, <1>8, <1>9, <2>1 DEF BarTypeOK
<1>11. StandingIsValid
  BY DEF BarInit, StandingIsValid
<1> QED BY <1>7, <1>8, <1>10, <1>11 DEF BarInv

\* A step of one refresh that leaves the world alone.
LEMMA RefreshStep ==
  ASSUME BarInv, NEW r \in Refresher, NEW l \in Lookup(now), AsksInOrder(l), KeptAreSeen(l),
         refresh' = [refresh EXCEPT ![r] = l], UNCHANGED <<now, rollouts, snapshot>>,
         fetchedAt' \in [Provider -> Never .. now],
         DOMAIN cache' = Provider, \A p \in Provider : cache'[p] \in Seq(Samples(p)),
         DOMAIN bar' = {"title", "popover"},
         bar'.title.at \in Never .. now, bar'.popover.at \in Never .. now,
         standing' \subseteq Refresher, StandingIsValid'
  PROVE  BarInv'
<1>1. refresh \in [Refresher -> Lookup(now)]
  BY DEF BarInv, BarTypeOK
<1>2. refresh' \in [Refresher -> Lookup(now)]
  BY <1>1
<1>3. ASSUME NEW q \in Refresher PROVE AsksInOrder(refresh'[q]) /\ KeptAreSeen(refresh'[q])
  <2>1. refresh'[q] = IF q = r THEN l ELSE refresh[q]
    BY <1>1
  <2> QED BY <2>1 DEF BarInv
<1>4. BarTypeOK'
  <2>1. now' \in 0 .. MaxTime /\ now' = now
    BY DEF BarInv, BarTypeOK
  <2>2. rollouts' \in [Session -> [mtime : Never .. now', samples : Seq(Samples("codex"))]]
    BY DEF BarInv, BarTypeOK
  <2>3. snapshot'.mtime \in Never .. now' /\ IsClaudeRaw(snapshot'.raw)
    BY DEF BarInv, BarTypeOK
  <2> QED BY <1>2, <2>1, <2>2, <2>3 DEF BarTypeOK
<1> QED BY <1>3, <1>4 DEF BarInv

\* The same, of one that only goes elsewhere.
LEMMA BarAlone ==
  ASSUME BarInv
  PROVE  /\ fetchedAt \in [Provider -> Never .. now]
         /\ DOMAIN cache = Provider /\ DOMAIN bar = {"title", "popover"}
         /\ bar.title.at \in Never .. now /\ bar.popover.at \in Never .. now
         /\ standing \subseteq Refresher
BY DEF BarInv, BarTypeOK

\* A refresh that is in no fetch moves, and remembers nothing.
LEMMA StandingStays ==
  ASSUME BarInv, NEW r \in Refresher, NEW l, refresh[r].pc # "fetch",
         refresh' = [refresh EXCEPT ![r] = l], UNCHANGED <<cache, standing>>
  PROVE  standing' \subseteq Refresher /\ StandingIsValid'
<1>1. standing' = standing /\ standing \subseteq Refresher /\ r \notin standing
  BY BarAlone DEF BarInv, StandingIsValid
<1>2. refresh \in [Refresher -> Lookup(now)]
  BY DEF BarInv, BarTypeOK
<1>3. ASSUME NEW q \in standing PROVE refresh'[q] = refresh[q]
  BY <1>1, <1>2, <1>3
<1> QED BY <1>1, <1>3 DEF BarInv, StandingIsValid, Valid, Asked

LEMMA TimePassesBar ==
  ASSUME BarInv, ClockTick
  PROVE  BarInv'
<1>1. /\ now' \in 0 .. MaxTime /\ now' \in Int /\ now \in Int /\ now' = now + 1
      /\ UNCHANGED <<fetchedAt, cache, rollouts, snapshot, refresh, bar, standing>>
  BY BarFacts, MenuBarAssumption DEF ClockTick, BarInv, BarTypeOK
<1>2. Never .. now \subseteq Never .. now'
  BY <1>1, MenuBarAssumption
<1>3. Lookup(now) \subseteq Lookup(now')
  BY <1>2 DEF Lookup
<1>4. /\ fetchedAt \in [Provider -> Never .. now]
      /\ refresh \in [Refresher -> Lookup(now)]
      /\ rollouts \in [Session -> [mtime : Never .. now, samples : Seq(Samples("codex"))]]
      /\ snapshot.mtime \in Never .. now /\ IsClaudeRaw(snapshot.raw)
      /\ DOMAIN bar = {"title", "popover"}
      /\ bar.title.at \in Never .. now /\ bar.popover.at \in Never .. now
      /\ DOMAIN cache = Provider /\ \A p \in Provider : cache[p] \in Seq(Samples(p))
  BY DEF BarInv, BarTypeOK
<1>5. fetchedAt' \in [Provider -> Never .. now'] /\ refresh' \in [Refresher -> Lookup(now')]
  BY <1>1, <1>2, <1>3, <1>4
<1>6. rollouts' \in [Session -> [mtime : Never .. now', samples : Seq(Samples("codex"))]]
  <2>1. [mtime : Never .. now, samples : Seq(Samples("codex"))]
          \subseteq [mtime : Never .. now', samples : Seq(Samples("codex"))]
    BY <1>2
  <2> QED BY <1>1, <1>4, <2>1
<1>7. BarTypeOK' /\ StandingIsValid'
  BY <1>1, <1>2, <1>4, <1>5, <1>6, BarAlone
  DEF BarTypeOK, BarInv, StandingIsValid, Valid, Asked
<1>8. \A r \in Refresher : AsksInOrder(refresh'[r]) /\ KeptAreSeen(refresh'[r])
  BY <1>1 DEF BarInv
<1> QED BY <1>7, <1>8 DEF BarInv

\* The world writes local readings.
LEMMA LocalReadingsPreserve ==
  ASSUME BarInv, WriteLog \/ WriteSnapshot
  PROVE  BarInv'
<1>1. UNCHANGED <<now, fetchedAt, cache, refresh, bar, standing>>
  BY DEF WriteLog, WriteSnapshot
<1>2. now \in Int /\ now \in Never .. now
  BY BarFacts, MenuBarAssumption
<1>3. rollouts' \in [Session -> [mtime : Never .. now, samples : Seq(Samples("codex"))]]
      /\ snapshot'.mtime \in Never .. now /\ IsClaudeRaw(snapshot'.raw)
  <2>1. CASE WriteLog
    <3>1. PICK s \in Session, limits \in LogLines :
            rollouts' = [rollouts EXCEPT ![s] =
              [ mtime   |-> now,
                samples |-> @.samples \o ParseCodex([ts |-> now, limits |-> limits]) ]]
      BY <2>1 DEF WriteLog
    <3> DEFINE got == ParseCodex([ts |-> now, limits |-> limits])
    <3>2. got \in Seq(Samples("codex"))
      <4>1. IsCodexRaw(limits)
        BY ReadingsAssumption
      <4>2. Taken(CodexSamples(limits, now), "codex", now, FALSE)
        BY <1>2, <4>1, ParsersTaken
      <4>3. got = CodexSamples(limits, now)
        BY DEF ParseCodex
      <4> HIDE DEF got
      <4> QED BY <4>2, <4>3 DEF Taken
    <3>3. rollouts \in [Session -> [mtime : Never .. now, samples : Seq(Samples("codex"))]]
      BY DEF BarInv, BarTypeOK
    <3>4. rollouts[s].samples \o got \in Seq(Samples("codex"))
      <4>1. rollouts[s].samples \in Seq(Samples("codex"))
        BY <3>3
      <4> HIDE DEF got
      <4> QED BY <3>2, <4>1
    <3>5. snapshot'.mtime \in Never .. now /\ IsClaudeRaw(snapshot'.raw)
      BY <2>1 DEF WriteLog, BarInv, BarTypeOK
    <3> HIDE DEF got
    <3> QED BY <1>2, <3>1, <3>3, <3>4, <3>5 DEF got
  <2>2. CASE WriteSnapshot
    <3>1. PICK raw \in Snapshots : snapshot' = [mtime |-> now, raw |-> raw]
      BY <2>2 DEF WriteSnapshot
    <3>2. IsClaudeRaw(raw)
      BY ReadingsAssumption
    <3>3. rollouts' = rollouts
      BY <2>2 DEF WriteSnapshot
    <3> QED BY <1>2, <3>1, <3>2, <3>3 DEF BarInv, BarTypeOK
  <2> QED BY <2>1, <2>2
<1>4. BarTypeOK' /\ StandingIsValid'
  BY <1>1, <1>3 DEF BarInv, BarTypeOK, StandingIsValid, Valid, Asked
<1>5. \A r \in Refresher : AsksInOrder(refresh'[r]) /\ KeptAreSeen(refresh'[r])
  BY <1>1 DEF BarInv
<1> QED BY <1>4, <1>5 DEF BarInv

\* A refresh goes on, or to the local readings.
LEMMA OnlineStep ==
  ASSUME BarInv, NEW r \in Refresher, refresh[r].pc \in {"look", "fetch"},
         NEW p, p = Asked(r), NEW live \in Seq(Samples(p)), NEW valid, Online(r, p, live, valid),
         valid => Active(Tracker(live), refresh[r].at) # {}
  PROVE  \E l \in Lookup(now) : /\ AsksInOrder(l) /\ KeptAreSeen(l)
                                /\ refresh' = [refresh EXCEPT ![r] = l]
<1> DEFINE l == refresh[r]
           kept == IF valid THEN l.kept \cup {p} ELSE l.kept
           told == [l EXCEPT !.kept = kept]
<1>1. /\ l \in Lookup(now) /\ AsksInOrder(l) /\ KeptAreSeen(l)
      /\ l.pc \in {"look", "fetch", "disk"} /\ p = Order[l.next] /\ now \in Int
  BY BarFacts DEF BarInv, Asked
<1>2. told = [refresh[r] EXCEPT !.kept = IF valid THEN @ \cup {p} ELSE @]
  OBVIOUS
<1>3. refresh' = [refresh EXCEPT ![r] = IF live = <<>> THEN [told EXCEPT !.pc = "disk"]
                                        ELSE Collected(told, live)]
  <2> HIDE DEF told
  <2> QED BY <1>2 DEF Online
<1>4. CASE live = <<>>
  <2>1. Tracker(live) = {}
    <3>1. \A i : i \notin DOMAIN live
      BY <1>4
    <3> QED BY <3>1 DEF Tracker
  <2>2. ~ valid
    BY <2>1 DEF Active
  <2>3. told = l
    BY <1>1, <2>2 DEF Lookup
  <2> DEFINE m == [l EXCEPT !.pc = "disk"]
  <2>4. m = [pc |-> "disk", at |-> l.at, next |-> l.next, seen |-> l.seen, kept |-> l.kept]
    BY <1>1 DEF Lookup
  <2>5. m \in Lookup(now)
    BY <1>1, <2>4 DEF Lookup
  <2>6. /\ m.kept = l.kept /\ m.seen = l.seen /\ m.next = l.next /\ m.at = l.at
    <3> HIDE DEF m, l
    <3> QED BY <2>4
  <2>7. AsksInOrder(m) /\ KeptAreSeen(m)
    <3> HIDE DEF m, l
    <3> QED BY <1>1, <2>6 DEF AsksInOrder, KeptAreSeen
  <2>8. refresh' = [refresh EXCEPT ![r] = m]
    <3> HIDE DEF told, l
    <3> QED BY <1>3, <1>4, <2>3
  <2> HIDE DEF m
  <2> QED BY <2>5, <2>7, <2>8
<1>5. CASE live # <<>>
  <2> DEFINE m == Collected(told, live)
  <2>1. kept \in SUBSET (l.kept \cup {p})
    OBVIOUS
  <2>2. kept \subseteq l.kept \/ Active(Tracker(live), l.at) # {}
    OBVIOUS
  <2>3. m \in Lookup(now) /\ AsksInOrder(m) /\ KeptAreSeen(m)
    <3> HIDE DEF kept, l
    <3> QED BY <1>1, <2>1, <2>2, CollectedLookup
  <2>4. refresh' = [refresh EXCEPT ![r] = m]
    <3> HIDE DEF told
    <3> QED BY <1>3, <1>5
  <2> HIDE DEF m
  <2> QED BY <2>3, <2>4
<1> QED BY <1>4, <1>5

LEMMA BeginPreserves ==
  ASSUME BarInv, NEW r \in Refresher, Begin(r)
  PROVE  BarInv'
<1> DEFINE l == [Idle EXCEPT !.pc = "look", !.at = now]
<1>1. l = [pc |-> "look", at |-> now, next |-> 1, seen |-> <<>>, kept |-> {}]
  <2>1. PICK k : k = [Idle EXCEPT !.pc = "look"]
    OBVIOUS
  <2>2. k = [pc |-> "look", at |-> Never, next |-> 1, seen |-> <<>>, kept |-> {}]
    BY <2>1 DEF Idle
  <2>3. l = [k EXCEPT !.at = now]
    BY <2>1
  <2> HIDE DEF l
  <2> QED BY <2>2, <2>3
<1>2. l \in Lookup(now)
  <2>1. <<>> \in Seq(Samples("claude") \cup Samples("codex")) /\ 1 \in 1 .. Len(Order)
        /\ now \in Never .. now
    BY OrderFacts, BarFacts, MenuBarAssumption
  <2> HIDE DEF l
  <2> QED BY <1>1, <2>1 DEF Lookup
<1>3. AsksInOrder(l) /\ KeptAreSeen(l)
  <2> HIDE DEF l
  <2>1. l.kept = {} /\ l.seen = <<>> /\ Len(l.seen) = 0
    BY <1>1
  <2> QED BY <2>1 DEF AsksInOrder, KeptAreSeen
<1>4. refresh' = [refresh EXCEPT ![r] = l] /\ refresh[r].pc # "fetch"
      /\ UNCHANGED <<now, fetchedAt, cache, rollouts, snapshot, bar, standing>>
  BY DEF Begin
<1> HIDE DEF l
<1>5. standing' \subseteq Refresher /\ StandingIsValid'
  BY <1>4, StandingStays
<1> QED BY <1>2, <1>3, <1>4, <1>5, BarFacts, BarAlone, RefreshStep

LEMMA ServePreserves ==
  ASSUME BarInv, NEW r \in Refresher, Serve(r)
  PROVE  BarInv'
<1> DEFINE p == Asked(r)
<1>1. /\ refresh[r].pc = "look" /\ Online(r, p, cache[p], Valid(p, refresh[r].at))
      /\ UNCHANGED <<now, fetchedAt, cache, rollouts, snapshot, bar, standing>>
  BY DEF Serve
<1>2. p \in Provider /\ cache[p] \in Seq(Samples(p))
  BY BarFacts
<1>3. PICK l \in Lookup(now) : /\ AsksInOrder(l) /\ KeptAreSeen(l)
                               /\ refresh' = [refresh EXCEPT ![r] = l]
  BY <1>1, <1>2, OnlineStep DEF Valid
<1>4. standing' \subseteq Refresher /\ StandingIsValid'
  BY <1>1, <1>3, StandingStays
<1> QED BY <1>1, <1>3, <1>4, BarFacts, BarAlone, RefreshStep

\* A lookup that changes nothing but where it is.
LEMMA Elsewhere ==
  ASSUME BarInv, NEW r \in Refresher, NEW pc,
         \/ pc \in {"fetch"} /\ refresh[r].pc \in {"look", "fetch", "disk"}
         \/ pc \in {"popover"}
  PROVE  LET l == [refresh[r] EXCEPT !.pc = pc]
         IN l \in Lookup(now) /\ AsksInOrder(l) /\ KeptAreSeen(l)
<1> DEFINE k == refresh[r]
           l == [k EXCEPT !.pc = pc]
<1>1. k \in Lookup(now) /\ AsksInOrder(k) /\ KeptAreSeen(k)
  BY BarFacts DEF BarInv
<1>2. l = [pc |-> pc, at |-> k.at, next |-> k.next, seen |-> k.seen, kept |-> k.kept]
  BY <1>1 DEF Lookup
<1>3. l \in Lookup(now)
  BY <1>1, <1>2 DEF Lookup
<1>4. /\ l.kept = k.kept /\ l.seen = k.seen /\ l.next = k.next /\ l.at = k.at /\ l.pc = pc
  <2> HIDE DEF l, k
  <2> QED BY <1>2
<1>5. AsksInOrder(l) /\ KeptAreSeen(l)
  <2> HIDE DEF l
  <2> QED BY <1>1, <1>4 DEF AsksInOrder, KeptAreSeen
<1> QED BY <1>3, <1>5

LEMMA FetchPreserves ==
  ASSUME BarInv, NEW r \in Refresher, Fetch(r)
  PROVE  BarInv'
<1> DEFINE l == [refresh[r] EXCEPT !.pc = "fetch"]
<1>1. l \in Lookup(now) /\ AsksInOrder(l) /\ KeptAreSeen(l)
  BY Elsewhere DEF Fetch
<1>2. refresh' = [refresh EXCEPT ![r] = l]
      /\ UNCHANGED <<now, fetchedAt, cache, rollouts, snapshot, bar>>
  BY DEF Fetch
<1>2a. \/ Valid(Asked(r), refresh[r].at) /\ standing' = standing \cup {r}
       \/ standing' = standing
  BY Zenon DEF Fetch
<1>2b. r \notin standing
  BY DEF BarInv, StandingIsValid, Fetch
<1>3. refresh \in [Refresher -> Lookup(now)] /\ refresh[r] \in Lookup(now)
  BY DEF BarInv, BarTypeOK
<1>4. l.pc = "fetch" /\ l.at = refresh[r].at /\ l.next = refresh[r].next
  BY <1>3 DEF Lookup
<1> HIDE DEF l
<1>5. standing' \subseteq Refresher /\ StandingIsValid'
  <2>1. standing' \subseteq Refresher
    BY <1>2a, BarAlone
  <2>2. ASSUME NEW q \in standing', q = r
        PROVE  refresh'[q].pc = "fetch" /\ Valid(Asked(q), refresh[q].at)'
    <3>1. refresh'[r] = l
      BY <1>2, <1>3
    <3>2. Valid(Asked(r), refresh[r].at)
      BY <1>2a, <1>2b, <2>2
    <3> QED BY <1>2, <1>4, <2>2, <3>1, <3>2 DEF Valid, Asked
  <2>3. ASSUME NEW q \in standing', q # r
        PROVE  refresh'[q].pc = "fetch" /\ Valid(Asked(q), refresh[q].at)'
    <3>1. q \in standing /\ refresh'[q] = refresh[q]
      BY <1>2, <1>2a, <1>3, <2>1, <2>3
    <3> QED BY <1>2, <3>1 DEF BarInv, StandingIsValid, Valid, Asked
  <2> QED BY <2>1, <2>2, <2>3 DEF StandingIsValid
<1> QED BY <1>1, <1>2, <1>5, BarFacts, BarAlone, RefreshStep

\* An answer, or none.
LEMMA AnsweredPreserves ==
  ASSUME BarInv, NEW r \in Refresher, NEW got, Answered(r, got),
         got = <<>> \/ Taken(got, Asked(r), refresh[r].at, TRUE)
  PROVE  BarInv'
<1> DEFINE p == Asked(r)
           live == Remembered(p, got)
<1>1. /\ refresh[r].pc = "fetch" /\ Online(r, p, live, r \in standing)
      /\ standing' = {q \in standing \ {r} : ~Overtakes(r, q, got)}
      /\ fetchedAt' = [fetchedAt EXCEPT ![p] = refresh[r].at]
      /\ cache' = [cache EXCEPT ![p] = live]
      /\ UNCHANGED <<now, rollouts, snapshot, bar>>
  BY DEF Answered
<1>2. p \in Provider /\ cache[p] \in Seq(Samples(p)) /\ refresh[r].at \in Int
      /\ refresh[r].at \in Never .. now
  <2>1. refresh[r] \in Lookup(now)
    BY BarFacts
  <2> QED BY <2>1, BarFacts DEF Lookup
<1>3. live \in Seq(Samples(p))
  BY <1>2 DEF Remembered, Taken
<1>3a. got # <<>> => live = got /\ Active(Tracker(got), refresh[r].at) # {}
  <2> SUFFICES ASSUME got # <<>> PROVE live = got /\ Active(Tracker(got), refresh[r].at) # {}
    OBVIOUS
  <2>1. live = got /\ Taken(got, p, refresh[r].at, TRUE)
    BY DEF Remembered
  <2> HIDE DEF live, p
  <2> QED BY <1>2, <2>1, AnswerIsShown
<1>3b. got = <<>> => live = cache[p]
  BY DEF Remembered
<1>4. r \in standing => Active(Tracker(live), refresh[r].at) # {}
  BY <1>3a, <1>3b DEF BarInv, StandingIsValid, Valid
<1> HIDE DEF live
<1>5. PICK l \in Lookup(now) : /\ AsksInOrder(l) /\ KeptAreSeen(l)
                               /\ refresh' = [refresh EXCEPT ![r] = l]
  BY <1>1, <1>3, <1>4, OnlineStep
<1> HIDE DEF p
<1>6. fetchedAt' \in [Provider -> Never .. now]
  BY <1>1, <1>2, BarAlone
<1>7. DOMAIN cache' = Provider /\ \A q \in Provider : cache'[q] \in Seq(Samples(q))
  BY <1>1, <1>3, BarAlone, BarFacts
<1>8. standing' \subseteq Refresher /\ StandingIsValid'
  <2>1. standing' \subseteq standing \ {r} /\ standing \subseteq Refresher
    BY <1>1, BarAlone
  <2>2. ASSUME NEW q \in standing'
        PROVE  refresh'[q].pc = "fetch" /\ Valid(Asked(q), refresh[q].at)'
    <3>1. /\ q \in Refresher /\ refresh'[q] = refresh[q] /\ refresh[q].pc = "fetch"
          /\ Valid(Asked(q), refresh[q].at) /\ ~Overtakes(r, q, got)
      BY <1>1, <1>5, <2>1 DEF BarInv, BarTypeOK, StandingIsValid
    <3>2. Asked(q) \in Provider /\ refresh[q].at \in Int
      BY <3>1, BarFacts
    <3>3. CASE Asked(q) # p
      <4>1. cache'[Asked(q)] = cache[Asked(q)]
        BY <1>1, <3>2, <3>3, BarAlone
      <4> QED BY <3>1, <4>1 DEF Valid, Asked
    <3>4. CASE Asked(q) = p
      <4>1. cache'[p] = live
        BY <1>1, <1>2, BarAlone
      <4>2. Active(Tracker(live), refresh[q].at) # {}
        <5>1. CASE got = <<>>
          BY <1>3b, <3>1, <3>4, <5>1 DEF Valid
        <5>2. CASE got # <<>> /\ refresh[r].at < refresh[q].at
          BY <1>3a, <3>1, <3>4, <5>2 DEF Overtakes, p
        <5>3. CASE got # <<>> /\ refresh[q].at <= refresh[r].at
          <6>1. PICK s \in Tracker(live) : refresh[r].at <= s.resets
            BY <1>3a, <5>3 DEF Active
          <6>2. s.resets \in Int
            <7>1. s \in Samples(p)
              BY <1>3, <6>1, TrackerIs
            <7> QED BY <7>1 DEF Samples
          <6>3. refresh[q].at <= s.resets
            BY <1>2, <3>2, <5>3, <6>1, <6>2
          <6> QED BY <6>1, <6>3 DEF Active
        <5> QED BY <1>2, <3>2, <5>1, <5>2, <5>3
      <4> QED BY <3>1, <3>4, <4>1, <4>2 DEF Valid, Asked
    <3> QED BY <3>3, <3>4
  <2> QED BY <2>1, <2>2 DEF StandingIsValid
<1> QED BY <1>1, <1>5, <1>6, <1>7, <1>8, BarAlone, RefreshStep

LEMMA AnswerPreserves ==
  ASSUME BarInv, NEW r \in Refresher, NoAnswer(r) \/ Answer(r)
  PROVE  BarInv'
<1>1. CASE NoAnswer(r)
  BY <1>1, AnsweredPreserves DEF NoAnswer
<1>2. CASE Answer(r)
  <2> DEFINE p == Asked(r)
             at == refresh[r].at
  <2>1. PICK raw \in Answers[p] : Ahead(raw) /\ Answered(r, Parsed(p, raw, at))
    BY <1>2 DEF Answer
  <2>2. p \in Provider /\ at \in Int /\ at <= now /\ now \in Int /\ p \in {"claude", "codex"}
    BY BarFacts, OrderFacts
  <2>3. CASE p = "codex"
    <3>1. IsCodexRaw(raw) /\ Parsed(p, raw, at) = CodexSamples(raw, at)
      BY <2>1, <2>2, <2>3, ReadingsAssumption DEF Parsed, ParseCodexUsageAPI
    <3>2. Taken(CodexSamples(raw, at), "codex", at, TRUE)
      <4> HIDE DEF p, at
      <4> QED BY <2>1, <2>2, <3>1, ParsersTaken
    <3> QED BY <2>1, <2>3, <3>1, <3>2, AnsweredPreserves
  <2>4. CASE p = "claude"
    <3>1. IsClaudeRaw(raw) /\ Parsed(p, raw, at) = ParseClaudeUsageAPI(raw, at)
      BY <2>1, <2>2, <2>4, ReadingsAssumption DEF Parsed
    <3>2. Taken(ParseClaudeUsageAPI(raw, at), "claude", at, TRUE)
      <4> HIDE DEF p, at
      <4> QED BY <2>1, <2>2, <3>1, ParsersTaken
    <3> QED BY <2>1, <2>4, <3>1, <3>2, AnsweredPreserves
  <2> QED BY <2>2, <2>3, <2>4
<1> QED BY <1>1, <1>2

\* A provider's local readings are its own.
LEMMA LocalTyped ==
  ASSUME BarInv, NEW p \in Provider, NEW at
  PROVE  Local(p, at) \in Seq(Samples(p))
<1>1. p \in {"claude", "codex"}
  BY OrderFacts
<1>2. CASE p = "codex"
  <2>1. BarTypeOK
    BY DEF BarInv
  <2>2. PICK live : live \subseteq Samples("codex") /\ CodexRolloutSamples(at) \in Seq(live)
    BY <2>1, RolloutSamplesAre
  <2>3. CodexRolloutSamples(at) \in Seq(Samples("codex"))
    BY <2>2
  <2> QED BY <1>2, <2>3 DEF Local
<1>3. CASE p = "claude"
  <2>1. snapshot.mtime \in Int /\ IsClaudeRaw(snapshot.raw)
    BY BarFacts, MenuBarAssumption DEF BarInv, BarTypeOK
  <2>2. Taken(ParseClaudeRateLimits(snapshot.raw, snapshot.mtime), "claude", snapshot.mtime, FALSE)
    BY <2>1, ParsersTaken
  <2>3. <<>> \in Seq(Samples("claude"))
    OBVIOUS
  <2>4. ClaudeSnapshotSamples \in Seq(Samples("claude"))
    BY <2>2, <2>3 DEF ClaudeSnapshotSamples, Taken
  <2> QED BY <1>3, <2>4 DEF Local
<1> QED BY <1>1, <1>2, <1>3

LEMMA ReadLocalPreserves ==
  ASSUME BarInv, NEW r \in Refresher, ReadLocal(r)
  PROVE  BarInv'
<1> DEFINE k == refresh[r]
           p == Asked(r)
           samples == Local(p, k.at)
           l == Collected(k, samples)
<1>1. k.pc = "disk" /\ refresh' = [refresh EXCEPT ![r] = l]
      /\ UNCHANGED <<now, fetchedAt, cache, rollouts, snapshot, bar, standing>>
  BY DEF ReadLocal
<1>2. k \in Lookup(now) /\ AsksInOrder(k) /\ KeptAreSeen(k) /\ p = Order[k.next] /\ now \in Int
  BY BarFacts DEF BarInv, Asked
<1>3. samples \in Seq(Samples(p))
  BY BarFacts, LocalTyped
<1>4. k = [k EXCEPT !.kept = k.kept] /\ k.kept \in SUBSET (k.kept \cup {p})
  BY <1>2 DEF Lookup
<1>5. l \in Lookup(now) /\ AsksInOrder(l) /\ KeptAreSeen(l)
  <2> HIDE DEF samples, k, p
  <2> DEFINE m == Collected([k EXCEPT !.kept = k.kept], samples)
  <2>1. m \in Lookup(now) /\ AsksInOrder(m) /\ KeptAreSeen(m)
    BY <1>1, <1>2, <1>3, <1>4, CollectedLookup
  <2>2. m = l
    BY <1>4
  <2> HIDE DEF m, l
  <2> QED BY <2>1, <2>2
<1> HIDE DEF l
<1>6. standing' \subseteq Refresher /\ StandingIsValid'
  BY <1>1, StandingStays
<1> QED BY <1>1, <1>5, <1>6, BarFacts, BarAlone, RefreshStep

LEMMA SetTitlePreserves ==
  ASSUME BarInv, NEW r \in Refresher, SetTitle(r)
  PROVE  BarInv'
<1> DEFINE l == [refresh[r] EXCEPT !.pc = "popover"]
<1>1. l \in Lookup(now) /\ AsksInOrder(l) /\ KeptAreSeen(l)
  BY Elsewhere
<1>2. refresh' = [refresh EXCEPT ![r] = l] /\ refresh[r].pc # "fetch"
      /\ UNCHANGED <<now, fetchedAt, cache, rollouts, snapshot, standing>>
      /\ bar' = [bar EXCEPT !.title = TitleOf(Reading(r))]
  BY DEF SetTitle
<1>3. Reading(r).at \in Never .. now /\ TitleOf(Reading(r)).at = Reading(r).at
  <2>1. refresh[r] \in Lookup(now)
    BY BarFacts
  <2> QED BY <2>1 DEF Lookup, Reading, TitleOf
<1>4. /\ DOMAIN bar' = {"title", "popover"}
      /\ bar'.title.at \in Never .. now /\ bar'.popover.at \in Never .. now
  BY <1>2, <1>3, BarAlone
<1> HIDE DEF l
<1>5. standing' \subseteq Refresher /\ StandingIsValid'
  BY <1>2, StandingStays
<1> QED BY <1>1, <1>2, <1>4, <1>5, BarFacts, BarAlone, RefreshStep

LEMMA SetPopoverPreserves ==
  ASSUME BarInv, NEW r \in Refresher, SetPopover(r)
  PROVE  BarInv'
<1> DEFINE pc == IF r = Ticker THEN "idle" ELSE "done"
           l == [Idle EXCEPT !.pc = pc]
<1>1. l = [pc |-> pc, at |-> Never, next |-> 1, seen |-> <<>>, kept |-> {}]
  BY DEF Idle
<1>2. l \in Lookup(now)
  <2>1. <<>> \in Seq(Samples("claude") \cup Samples("codex")) /\ 1 \in 1 .. Len(Order)
        /\ Never \in Never .. now /\ pc \in {"idle", "done"}
    BY OrderFacts, BarFacts, MenuBarAssumption
  <2> HIDE DEF l, pc
  <2> QED BY <1>1, <2>1 DEF Lookup
<1>3. AsksInOrder(l) /\ KeptAreSeen(l)
  <2> HIDE DEF l
  <2>1. l.kept = {} /\ l.pc \notin {"look", "fetch", "disk"}
    BY <1>1
  <2> QED BY <2>1 DEF AsksInOrder, KeptAreSeen
<1>4. refresh' = [refresh EXCEPT ![r] = l] /\ refresh[r].pc # "fetch"
      /\ UNCHANGED <<now, fetchedAt, cache, rollouts, snapshot, standing>>
      /\ bar' = [bar EXCEPT !.popover = Reading(r)]
  BY DEF SetPopover, Rest
<1>5. Reading(r).at \in Never .. now
  <2>1. refresh[r] \in Lookup(now)
    BY BarFacts
  <2> QED BY <2>1 DEF Lookup, Reading
<1>6. /\ DOMAIN bar' = {"title", "popover"}
      /\ bar'.title.at \in Never .. now /\ bar'.popover.at \in Never .. now
  BY <1>4, <1>5, BarAlone
<1> HIDE DEF l
<1>7. standing' \subseteq Refresher /\ StandingIsValid'
  BY <1>4, StandingStays
<1> QED BY <1>2, <1>3, <1>4, <1>6, <1>7, BarFacts, BarAlone, RefreshStep

LEMMA StepPreservesBarInv ==
  BarInv /\ [BarNext]_barVars => BarInv'
<1> SUFFICES ASSUME BarInv, [BarNext]_barVars PROVE BarInv'
  OBVIOUS
<1>1. CASE ClockTick
  BY <1>1, TimePassesBar
<1>2. CASE WriteLog \/ WriteSnapshot
  BY <1>2, LocalReadingsPreserve
<1>3. ASSUME NEW r \in Refresher, Begin(r) \/ Step(r) PROVE BarInv'
  BY <1>3, BeginPreserves, ServePreserves, FetchPreserves, AnswerPreserves, ReadLocalPreserves,
     SetTitlePreserves, SetPopoverPreserves DEF Step
<1>4. CASE UNCHANGED barVars
  BY <1>4 DEF barVars, BarInv, BarTypeOK, StandingIsValid, Valid, Asked
<1> QED BY <1>1, <1>2, <1>3, <1>4 DEF BarNext

-----------------------------------------------------------------------------
(* What the invariant says of a gauge. *)

LEMMA BarInvForecasts == BarInv => ForecastIsSound
<1> SUFFICES ASSUME BarInv, NEW r \in Refresher, NEW g \in Reading(r).gauges
             PROVE  LET f == g.projection
                    IN /\ f.breaches <=> (f.projected >= Limit)
                       /\ f.breaches => f.eta <= g.resets - refresh[r].at /\ g.severity >= SevWarn
                       /\ g.used >= CritAt => g.severity = SevCrit
                       /\ g.provider = "claude" => g.used \in 0 .. Limit
  BY DEF ForecastIsSound
<1>1. PICK s \in Shown(r) : g = Gauge(s, refresh[r].at)
  BY DEF Reading
<1>2. s \in AnySample /\ refresh[r].at <= s.resets /\ refresh[r].at \in Int
  <2>1. refresh[r].seen \in Seq(AnySample) /\ refresh[r].at \in Int
    BY BarFacts
  <2>2. s \in Tracker(refresh[r].seen) /\ refresh[r].at <= s.resets
    BY <1>1 DEF Shown, Active
  <2> QED BY <2>1, <2>2, TrackerIs
<1> QED BY <1>1, <1>2, GaugeIsSound

LEMMA BarInvKeepsGauges == BarInv => NoGaugeIsBlanked
BY DEF BarInv, KeptAreSeen, NoGaugeIsBlanked, Shown

\* The menu bar's state is well formed.
THEOREM BarTypeCorrect == BarSpec => []BarTypeOK
<1>1. BarInit => BarInv
  BY InitHasBarInv
<1>2. BarInv /\ [BarNext]_barVars => BarInv'
  BY StepPreservesBarInv
<1>3. BarInv => BarTypeOK
  BY DEF BarInv
<1> QED BY <1>1, <1>2, <1>3, PTL DEF BarSpec

\* A gauge read from the rollouts is the latest reading of its window, however
\* many rollouts there are and in whatever order they are read.
\* (internal/quota/quota.go: Observe; internal/cli/today.go: codexQuotaSamples)
THEOREM GaugesStayTheLatest == BarSpec => []GaugesAreTheLatest
<1>1. BarTypeOK => GaugesAreTheLatest
  BY TypeOKGaugesAreTheLatest
<1> QED BY <1>1, BarTypeCorrect, PTL

\* No refresh blanks the gauge of a provider whose last good reading was valid when it
\* asked, unless an answer to an earlier instant, over by now, overtook it.
\* (internal/cli/quota_online.go: rememberQuota)
THEOREM GaugesStayUp == BarSpec => []NoGaugeIsBlanked
<1>1. BarInit => BarInv
  BY InitHasBarInv
<1>2. BarInv /\ [BarNext]_barVars => BarInv'
  BY StepPreservesBarInv
<1>3. BarInv => NoGaugeIsBlanked
  BY BarInvKeepsGauges
<1> QED BY <1>1, <1>2, <1>3, PTL DEF BarSpec

\* Every gauge's forecast agrees with its pace, its reset and its grade.
\* (internal/lines/lines.go: Project; severity.go: Classify)
THEOREM ForecastsAreSound == BarSpec => []ForecastIsSound
<1>1. BarInit => BarInv
  BY InitHasBarInv
<1>2. BarInv /\ [BarNext]_barVars => BarInv'
  BY StepPreservesBarInv
<1>3. BarInv => ForecastIsSound
  BY BarInvForecasts
<1> QED BY <1>1, <1>2, <1>3, PTL DEF BarSpec

=============================================================================
