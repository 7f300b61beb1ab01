------------------------------ MODULE FileStore ------------------------------
(***************************************************************************)
(* store.FileStore under several processes: opening reads the file,         *)
(* persisting writes path.tmp and renames it over path.  All processes use  *)
(* the same temp name, so the module keeps the two directory entries and    *)
(* the files behind them apart: a process writes through the file it        *)
(* opened, whatever name that file has by then.                             *)
(*                                                                         *)
(* A snapshot is a set of rows; its document has one block per row and one   *)
(* for the braces, each block telling which snapshot it belongs to.  A file *)
(* parses if it is exactly one document; an empty file starts an empty      *)
(* ledger.  A write(2) is one step: the kernel locks the file against other  *)
(* writes.                                                                  *)
(*                                                                         *)
(* No lock is assumed: scan, the launch scans, the trailer hook and the      *)
(* explorer write without the sync lock, and for those that take it the lock *)
(* fails open.  Any two processes may overlap anywhere.                      *)
(***************************************************************************)
EXTENDS Naturals, Sequences, FiniteSets

CONSTANTS
  Proc,       \* the processes
  Writer,     \* those that change the ledger; the others only read it
  Row,        \* the rows they write: events and checkpoints
  Inode,      \* the files there can be
  None,       \* no file
  Garbled,    \* stands for the rows of a file two processes wrote
  MaxFaults   \* bound: short writes and crashes

ASSUME StoreParameters ==
  /\ Writer \subseteq Proc
  /\ IsFiniteSet(Row)
  /\ None \notin Inode
  /\ \A rows \in SUBSET Row : Garbled # rows
  /\ MaxFaults \in Nat

VARIABLES
  path,      \* events.json: the file it names, or None
  tmp,       \* events.json.tmp
  content,   \* the blocks of each file
  pc,        \* where each process is
  mem,       \* the snapshot a process holds
  fd,        \* the file it writes to
  faults,    \* faults so far
  \* History, read by no action's guard:
  contested, \* files two processes had open at once, or one renamed for another
  crowded    \* writers that shared the store with another since they opened it

history == <<contested, crowded>>
vars == <<path, tmp, content, pc, mem, fd, faults, history>>

-----------------------------------------------------------------------------
Place == {"idle", "ready", "dirty", "writing", "renaming"}
Snapshot == SUBSET Row

TypeOK ==
  /\ path \in Inode \cup {None} /\ tmp \in Inode \cup {None}
  /\ path = tmp => path = None
  /\ content \in [Inode -> Seq(Snapshot)]
  /\ pc \in [Proc -> Place]
  /\ mem \in [Proc -> Snapshot]
  /\ fd \in [Proc -> Inode \cup {None}]
  /\ faults \in Nat
  /\ contested \subseteq Inode /\ crowded \subseteq Writer

\* json.Marshal of a snapshot.
Size(snap) == Cardinality(snap) + 1
Document(snap) == [i \in 1 .. Size(snap) |-> snap]

\* json.Unmarshal, and the empty file that starts an empty ledger.
Parses(blocks) == blocks # <<>> => blocks = Document(Head(blocks))
Parsed(blocks) == IF blocks = <<>> THEN {} ELSE Head(blocks)

Blocks(file) == IF file = None THEN <<>> ELSE content[file]

\* A write at offset 0 leaves what lies beyond its end.
Overlay(old, new) ==
  [i \in 1 .. (IF Len(new) > Len(old) THEN Len(new) ELSE Len(old)) |->
     IF i <= Len(new) THEN new[i] ELSE old[i]]

Goto(p, place) == pc' = [pc EXCEPT ![p] = place]

Fault == faults < MaxFaults /\ faults' = faults + 1

Init ==
  /\ path = None /\ tmp = None
  /\ content = [i \in Inode |-> <<>>]
  /\ pc = [p \in Proc |-> "idle"] /\ mem = [p \in Proc |-> {}]
  /\ fd = [p \in Proc |-> None]
  /\ faults = 0
  /\ contested = {} /\ crowded = {}

\* The writers at work besides p.
Others(p) == {q \in Writer \ {p} : pc[q] # "idle"}

Crowd(p) ==
  crowded' = IF p \notin Writer THEN crowded
             ELSE IF Others(p) = {} THEN crowded \ {p}
             ELSE crowded \cup Others(p) \cup {p}

\* A file opened anew is contested if another process has it open.
Contest(p, file) ==
  contested' = IF \E q \in Proc \ {p} : fd[q] = file THEN contested \cup {file}
                                                     ELSE contested \ {file}

-----------------------------------------------------------------------------
\* Mutant: a temp file that was left behind is taken for the newer ledger.
OpenRecovers(p) ==
  LET file == IF tmp # None THEN tmp ELSE path IN
  /\ pc[p] = "idle"
  /\ Parses(Blocks(file))
  /\ mem' = [mem EXCEPT ![p] = Parsed(Blocks(file))]
  /\ Goto(p, "ready")
  /\ Crowd(p)
  /\ UNCHANGED <<path, tmp, content, fd, faults, contested>>

\* OpenFileStore: a missing or empty file is an empty ledger; one that does not parse
\* ends the command.
Open(p) ==
  /\ pc[p] = "idle"
  /\ Parses(Blocks(path))
  /\ mem' = [mem EXCEPT ![p] = Parsed(Blocks(path))]
  /\ Goto(p, "ready")
  /\ Crowd(p)
  /\ UNCHANGED <<path, tmp, content, fd, faults, contested>>

\* Upsert and SetLastScan change the copy before they persist it.
Change(p) ==
  /\ p \in Writer
  /\ pc[p] \in {"ready", "dirty"}
  /\ \E r \in Row \ mem[p] : mem' = [mem EXCEPT ![p] = @ \cup {r}]
  /\ Goto(p, "dirty")
  /\ UNCHANGED <<path, tmp, content, fd, faults, history>>

\* Mutant: the store file itself is truncated and written.
CreateInPlace(p) ==
  /\ pc[p] = "dirty"
  /\ IF path = None
       THEN path' = CHOOSE i \in Inode : i # tmp
       ELSE UNCHANGED path
  /\ content' = [content EXCEPT ![path'] = <<>>]
  /\ fd' = [fd EXCEPT ![p] = path']
  /\ Contest(p, path')
  /\ Goto(p, "writing")
  /\ UNCHANGED <<tmp, mem, faults, crowded>>

\* os.WriteFile opens the temp file: it truncates the one that is there.
Create(p) ==
  /\ pc[p] = "dirty"
  /\ IF tmp = None
       THEN tmp' \in {i \in Inode : i # path /\ \A q \in Proc : fd[q] # i}
       ELSE UNCHANGED tmp
  /\ content' = [content EXCEPT ![tmp'] = <<>>]
  /\ fd' = [fd EXCEPT ![p] = tmp']
  /\ Contest(p, tmp')
  /\ Goto(p, "writing")
  /\ UNCHANGED <<path, mem, faults, crowded>>

\* The document is written and the file closed.
Write(p) ==
  /\ pc[p] = "writing"
  /\ content' = [content EXCEPT ![fd[p]] = Overlay(@, Document(mem[p]))]
  /\ Goto(p, "renaming")
  /\ UNCHANGED <<path, tmp, mem, fd, faults, history>>

\* The disk is full: persist returns the error and leaves the temp file; the caller
\* may change and persist its copy again.
ShortWrite(p) ==
  /\ pc[p] = "writing"
  /\ Fault
  /\ \E n \in 0 .. Size(mem[p]) - 1 :
       content' = [content EXCEPT ![fd[p]] = Overlay(@, SubSeq(Document(mem[p]), 1, n))]
  /\ fd' = [fd EXCEPT ![p] = None]
  /\ Goto(p, "dirty")
  /\ UNCHANGED <<path, tmp, mem, history>>

\* os.Rename: it fails when another process has renamed the temp file already, and
\* moves whatever file has the name by then.
Rename(p) ==
  /\ pc[p] = "renaming"
  /\ IF tmp = None THEN UNCHANGED path ELSE path' = tmp
  /\ tmp' = None
  /\ fd' = [fd EXCEPT ![p] = None]
  /\ Goto(p, IF tmp = None THEN "dirty" ELSE "ready")
  /\ contested' = contested \cup ({tmp} \ {None, fd[p]})
  /\ UNCHANGED <<content, mem, faults, crowded>>

Leave(p) ==
  /\ mem' = [mem EXCEPT ![p] = {}]
  /\ fd' = [fd EXCEPT ![p] = None]
  /\ Goto(p, "idle")
  /\ UNCHANGED <<path, tmp, content, history>>

\* The command ends, after its last write or after a failed one.
Close(p) ==
  /\ pc[p] \in {"ready", "dirty"}
  /\ Leave(p)
  /\ UNCHANGED faults

\* Killed: the temp file stays as it is.
Crash(p) ==
  /\ pc[p] # "idle"
  /\ Fault
  /\ Leave(p)

Next ==
  \E p \in Proc :
    \/ Open(p) \/ Change(p) \/ Create(p) \/ Write(p) \/ ShortWrite(p) \/ Rename(p)
    \/ Close(p) \/ Crash(p)

Spec == Init /\ [][Next]_vars

-----------------------------------------------------------------------------
(* Properties. *)

\* file_store.go:24 and :71: the store is "written atomically (temp + rename)": what
\* is at path is one whole document, whatever short writes and crashes came before and
\* whatever temp files they left, unless two processes had that very file open at once
\* or one renamed it under the other.
AlwaysWhole ==
  path \notin contested \cup {None} => content[path] # <<>> /\ Parses(content[path])

\* Seen from above, the file is a ledger read and replaced in one step: a writer that
\* was alone since it opened the store loses no row, and only one that was not can
\* overwrite another's rows or leave a file both wrote.
Ledger == INSTANCE AtomicLedger WITH
  ledger <- IF path \in contested THEN Garbled ELSE Parsed(Blocks(path)),
  copy <- mem,
  open <- {p \in Proc : pc[p] # "idle"}

RefinesLedger == Ledger!Spec

==============================================================================
