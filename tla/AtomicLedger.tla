---------------------------- MODULE AtomicLedger -----------------------------
(***************************************************************************)
(* What the store promises the code above it, with no lock: a ledger that   *)
(* is read whole and replaced whole.  A writer that had the ledger to        *)
(* itself loses nothing of it; only one that did not may overwrite rows, or  *)
(* leave a ledger nobody can vouch for.                                      *)
(***************************************************************************)
CONSTANTS
  Proc,     \* the processes that open the ledger
  Writer,   \* those that may replace it
  Row,      \* its rows
  Garbled   \* a ledger two writers saved at once

VARIABLES
  ledger,   \* the rows everyone sees, or Garbled
  copy,     \* the rows each process holds
  open,     \* the processes at work
  crowded   \* the writers that were not alone since they opened it

vars == <<ledger, copy, open, crowded>>

Init ==
  /\ ledger = {}
  /\ copy = [p \in Proc |-> {}]
  /\ open = {}
  /\ crowded = {}

\* Two writers at work crowd each other; a writer that finds no other starts afresh.
CrowdedBy(p) ==
  LET others == (Writer \cap open) \ {p} IN
  IF p \notin Writer THEN crowded
  ELSE IF others = {} THEN crowded \ {p}
  ELSE crowded \cup others \cup {p}

\* A process opens the ledger and sees the latest one, whole.
Load(p) ==
  /\ \E rows \in SUBSET Row :
       /\ ledger # Garbled => rows = ledger
       /\ copy' = [copy EXCEPT ![p] = rows]
  /\ open' = open \cup {p}
  /\ crowded' = CrowdedBy(p)
  /\ UNCHANGED ledger

Edit(p) ==
  /\ p \in Writer \cap open
  /\ \E r \in Row : copy' = [copy EXCEPT ![p] = @ \cup {r}]
  /\ UNCHANGED <<ledger, open, crowded>>

\* The copy becomes the ledger in one step; alone, it holds all the ledger held.
Commit(p) ==
  /\ p \in Writer \cap open
  /\ p \in crowded \/ ledger = Garbled \/ ledger \subseteq copy[p]
  /\ ledger' = copy[p]
  /\ UNCHANGED <<copy, open, crowded>>

\* The save of a writer that was not alone went through another's.
Garble(p) ==
  /\ p \in open \cap crowded
  /\ ledger' = Garbled
  /\ UNCHANGED <<copy, open, crowded>>

Close(p) ==
  /\ copy' = [copy EXCEPT ![p] = {}]
  /\ open' = open \ {p}
  /\ UNCHANGED <<ledger, crowded>>

Next == \E p \in Proc : Load(p) \/ Edit(p) \/ Commit(p) \/ Garble(p) \/ Close(p)

Spec == Init /\ [][Next]_vars

==============================================================================
