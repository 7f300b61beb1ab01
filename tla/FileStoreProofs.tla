--------------------------- MODULE FileStoreProofs ---------------------------
(***************************************************************************)
(* Proofs about FileStore for any processes, rows and files, overlapping as  *)
(* they may.  A file that only its own writer had open holds nothing between *)
(* its truncation and its write, then that writer's whole document, and has  *)
(* the temp name all the while; so what is renamed to the store is whole. A  *)
(* writer that was alone since it opened the store has such a file, and a    *)
(* copy that holds the ledger it read.                                       *)
(***************************************************************************)
EXTENDS FileStore, FiniteSetTheorems, TLAPS

Saving == {"writing", "renaming"}
Pending == {"dirty"} \cup Saving

OnlyWritersWrite == \A p \in Proc : pc[p] \in Pending => p \in Writer

\* A process has a file open exactly while it saves.
Handles == \A p \in Proc : fd[p] # None <=> pc[p] \in Saving

\* A file that nobody contests: its writer's alone, under the temp name.
OwnsFile ==
  \A p \in Proc :
    fd[p] # None /\ fd[p] \notin contested =>
      /\ tmp = fd[p]
      /\ \A q \in Proc \ {p} : fd[q] # fd[p]
      /\ pc[p] = "writing" => content[fd[p]] = <<>>
      /\ pc[p] = "renaming" => content[fd[p]] = Document(mem[p])

\* A writer that is not crowded is the only one at work, and its file is its own.
Alone ==
  \A p \in Writer \ crowded :
    pc[p] # "idle" =>
      /\ \A q \in Writer \ {p} : pc[q] = "idle"
      /\ fd[p] \notin contested

CopyHoldsLedger ==
  \A p \in Writer \ crowded :
    pc[p] # "idle" /\ path \notin contested => Parsed(Blocks(path)) \subseteq mem[p]

IInv ==
  /\ TypeOK /\ AlwaysWhole /\ OnlyWritersWrite /\ Handles /\ OwnsFile /\ Alone
  /\ CopyHoldsLedger

-----------------------------------------------------------------------------
(* Documents. *)

LEMMA SizePositive ==
  ASSUME NEW s \in Snapshot
  PROVE  Size(s) \in Nat /\ Size(s) >= 1
<1>1. IsFiniteSet(s)
  BY FS_Subset, StoreParameters DEF Snapshot
<1>2. Cardinality(s) \in Nat
  BY <1>1, FS_CardinalityType
<1> QED
  BY <1>2 DEF Size

\* A document reads back as the snapshot it was made from.
LEMMA DocumentReadsBack ==
  ASSUME NEW s \in Snapshot
  PROVE  /\ Document(s) \in Seq(Snapshot)
         /\ Len(Document(s)) = Size(s)
         /\ Document(s) # <<>>
         /\ Parses(Document(s))
         /\ Parsed(Document(s)) = s
<1>1. Size(s) \in Nat /\ Size(s) >= 1
  BY SizePositive
<1>2. Document(s) \in Seq(Snapshot) /\ Len(Document(s)) = Size(s)
  BY <1>1 DEF Document
<1>3. Document(s) # <<>> /\ Head(Document(s)) = s
  BY <1>1, <1>2 DEF Document
<1> QED
  BY <1>2, <1>3 DEF Parses, Parsed

\* Written through an empty file, the blocks are all there is.
LEMMA OverlayEmpty ==
  ASSUME NEW new \in Seq(Snapshot)
  PROVE  Overlay(<<>>, new) = new
<1>1. Len(<<>>) = 0 /\ Len(new) \in Nat
  OBVIOUS
<1>2. (IF Len(new) > Len(<<>>) THEN Len(new) ELSE Len(<<>>)) = Len(new)
  BY <1>1
<1>3. Overlay(<<>>, new) = [i \in 1 .. Len(new) |-> new[i]]
  BY <1>2 DEF Overlay
<1> QED
  BY <1>3

LEMMA PrefixOfDocument ==
  ASSUME NEW s \in Snapshot, NEW n \in 0 .. Size(s) - 1
  PROVE  SubSeq(Document(s), 1, n) \in Seq(Snapshot)
<1>1. Document(s) \in Seq(Snapshot) /\ Len(Document(s)) = Size(s) /\ Size(s) \in Nat
  BY DocumentReadsBack, SizePositive
<1> QED
  BY <1>1

-----------------------------------------------------------------------------
LEMMA InitEstablishesIInv == Init => IInv
<1> SUFFICES ASSUME Init PROVE IInv
  OBVIOUS
<1>1. TypeOK
  <2>1. content \in [Inode -> Seq(Snapshot)] /\ mem \in [Proc -> Snapshot]
    BY DEF Init, Snapshot
  <2> QED
    BY <2>1 DEF Init, TypeOK, Place
<1>2. \A p \in Proc : pc[p] = "idle" /\ fd[p] = None
  BY DEF Init
<1>3. Writer \subseteq Proc
  BY StoreParameters
<1> QED
  BY <1>1, <1>2, <1>3 DEF Init, IInv, AlwaysWhole, OnlyWritersWrite, Handles, OwnsFile, Alone,
     CopyHoldsLedger, Pending, Saving

-----------------------------------------------------------------------------
(* Steps. *)

\* Writing through a file changes what is at path only if that file is contested.
LEMMA SaveLeavesPath ==
  ASSUME IInv, NEW p \in Proc, fd[p] # None, NEW new,
         content' = [content EXCEPT ![fd[p]] = new], UNCHANGED path
  PROVE  path \notin contested => UNCHANGED <<Blocks(path), content[path]>>
<1>1. CASE path = None
  BY <1>1, StoreParameters DEF Blocks, IInv, TypeOK
<1>2. CASE path # None
  <2>1. path \notin contested => fd[p] # path
    BY <1>2 DEF IInv, OwnsFile, TypeOK
  <2>2. path \in Inode /\ fd[p] \in Inode /\ content \in [Inode -> Seq(Snapshot)]
    BY <1>2 DEF IInv, TypeOK
  <2>3. path \notin contested => content'[path] = content[path]
    BY <2>1, <2>2
  <2> QED
    BY <2>3 DEF Blocks
<1> QED
  BY <1>1, <1>2

\* Nobody else has a file open while a writer works alone.
LEMMA AloneHasNoRival ==
  ASSUME IInv, NEW p \in Writer \ crowded, pc[p] # "idle"
  PROVE  \A q \in Proc \ {p} : fd[q] = None
<1> SUFFICES ASSUME NEW q \in Proc \ {p}, fd[q] # None PROVE FALSE
  OBVIOUS
<1>1. pc[q] \in Saving /\ q \in Writer
  BY DEF IInv, Handles, OnlyWritersWrite, Pending
<1>2. pc[q] = "idle"
  BY <1>1 DEF IInv, Alone
<1> QED
  BY <1>1, <1>2 DEF Saving

\* Once a writer is at work, every other one that works is crowded.
LEMMA WorkIsCrowding ==
  ASSUME IInv, NEW p \in Writer, pc[p] # "idle", NEW q \in Writer \ crowded, pc[q] # "idle"
  PROVE  q = p
BY DEF IInv, Alone

LEMMA OpenStep == ASSUME IInv, NEW p \in Proc, Open(p) PROVE IInv'
<1> USE DEF IInv, Goto
<1>1. Parsed(Blocks(path)) \in Snapshot
  BY DEF TypeOK, Blocks, Parsed, Snapshot
<1>2. Others(p) \subseteq Writer /\ p \notin Others(p)
  BY DEF Others
<1>3. TypeOK'
  BY <1>1, <1>2 DEF Open, TypeOK, Place, Crowd
<1>4. AlwaysWhole'
  BY DEF Open, AlwaysWhole
<1>5. OnlyWritersWrite' /\ Handles'
  BY DEF Open, OnlyWritersWrite, Handles, TypeOK, Pending, Saving
<1>6. OwnsFile'
  BY DEF Open, OwnsFile, TypeOK, Handles, Saving
<1>7. ASSUME NEW q \in Writer, q \notin crowded', pc'[q] # "idle"
      PROVE  /\ \A r \in Writer \ {q} : pc'[r] = "idle"
             /\ q = p \/ (p \notin Writer /\ q \notin crowded /\ pc[q] # "idle")
  <2>0. pc' = [pc EXCEPT ![p] = "ready"] /\ pc \in [Proc -> Place] /\ Writer \subseteq Proc
    BY StoreParameters DEF Open, TypeOK
  <2>1. CASE p \notin Writer
    <3>1. q \notin crowded /\ q # p /\ pc[q] # "idle"
      BY <1>7, <2>0, <2>1 DEF Open, Crowd
    <3> QED
      BY <2>0, <2>1, <3>1 DEF Alone
  <2>2. CASE p \in Writer /\ Others(p) = {}
    <3>1. \A r \in Writer \ {p} : pc[r] = "idle"
      BY <2>2 DEF Others
    <3> QED
      BY <1>7, <2>0, <3>1
  <2>3. CASE p \in Writer /\ Others(p) # {}
    <3>1. q \notin Others(p) /\ q # p
      BY <1>7, <2>3 DEF Open, Crowd
    <3>2. pc[q] = "idle"
      BY <3>1 DEF Others
    <3> QED
      BY <1>7, <2>0, <3>1, <3>2
  <2> QED
    BY <2>1, <2>2, <2>3
<1>8. Alone'
  <2> SUFFICES ASSUME NEW q \in Writer, q \notin crowded', pc'[q] # "idle"
               PROVE  fd'[q] \notin contested'
    BY <1>7 DEF Alone
  <2>1. UNCHANGED <<fd, contested>> /\ q \in Proc
    BY StoreParameters DEF Open
  <2>2. CASE q = p
    <3>1. fd[p] = None
      BY DEF Open, Handles, Saving
    <3> QED
      BY <2>1, <2>2, <3>1, StoreParameters DEF TypeOK
  <2>3. CASE q # p
    BY <1>7, <2>1, <2>3 DEF Alone
  <2> QED
    BY <2>2, <2>3
<1>9. CopyHoldsLedger'
  <2> SUFFICES ASSUME NEW q \in Writer, q \notin crowded', pc'[q] # "idle", path \notin contested
               PROVE  Parsed(Blocks(path)) \subseteq mem'[q]
    BY DEF CopyHoldsLedger, Open, Blocks
  <2>1. mem' = [mem EXCEPT ![p] = Parsed(Blocks(path))] /\ q \in Proc
    BY StoreParameters DEF Open
  <2>2. CASE q = p
    BY <2>1, <2>2 DEF TypeOK
  <2>3. CASE q # p
    BY <1>7, <2>1, <2>3 DEF CopyHoldsLedger, TypeOK
  <2> QED
    BY <2>2, <2>3
<1> QED
  BY <1>3, <1>4, <1>5, <1>6, <1>8, <1>9

LEMMA ChangeStep == ASSUME IInv, NEW p \in Proc, Change(p) PROVE IInv'
<1> USE DEF IInv, Goto
<1>1. PICK r \in Row \ mem[p] : mem' = [mem EXCEPT ![p] = @ \cup {r}]
  BY DEF Change
<1>2. TypeOK'
  BY <1>1 DEF Change, TypeOK, Place, Snapshot, history
<1>3. AlwaysWhole'
  BY DEF Change, AlwaysWhole, history
<1>4. OnlyWritersWrite' /\ Handles'
  BY DEF Change, OnlyWritersWrite, Handles, TypeOK, Pending, Saving
<1>5. OwnsFile'
  BY <1>1 DEF Change, OwnsFile, Handles, Saving, TypeOK, history
<1>6. Alone'
  BY StoreParameters DEF Change, Alone, TypeOK, history
<1>7. CopyHoldsLedger'
  BY <1>1, StoreParameters DEF Change, CopyHoldsLedger, TypeOK, Blocks, history
<1> QED
  BY <1>2, <1>3, <1>4, <1>5, <1>6, <1>7

LEMMA CreateStep == ASSUME IInv, NEW p \in Proc, Create(p) PROVE IInv'
<1> USE DEF IInv, Goto
<1>1. tmp' \in Inode /\ tmp' # path /\ (tmp # None => tmp' = tmp)
  BY StoreParameters DEF Create, TypeOK
<1>2. /\ content' = [content EXCEPT ![tmp'] = <<>>] /\ UNCHANGED <<path, mem, faults, crowded>>
      /\ fd' = [fd EXCEPT ![p] = tmp'] /\ pc[p] = "dirty" /\ pc' = [pc EXCEPT ![p] = "writing"]
      /\ contested' = IF \E q \in Proc \ {p} : fd[q] = tmp' THEN contested \cup {tmp'}
                                                         ELSE contested \ {tmp'}
  BY DEF Create, Contest
<1>3. p \in Writer /\ (path \in contested <=> path \in contested')
  BY <1>1, <1>2 DEF OnlyWritersWrite, Pending
<1>4. Blocks(path)' = Blocks(path) /\ (path # None => content'[path] = content[path])
  BY <1>1, <1>2 DEF Blocks, TypeOK
<1>5. TypeOK'
  BY <1>1, <1>2, StoreParameters DEF TypeOK, Place
<1>6. AlwaysWhole'
  BY <1>2, <1>3, <1>4 DEF AlwaysWhole
<1>7. OnlyWritersWrite' /\ Handles'
  BY <1>1, <1>2, <1>3, StoreParameters DEF OnlyWritersWrite, Handles, TypeOK, Pending, Saving
<1>8. OwnsFile'
  <2> SUFFICES ASSUME NEW q \in Proc, fd'[q] # None, fd'[q] \notin contested'
               PROVE  /\ tmp' = fd'[q]
                      /\ \A r \in Proc \ {q} : fd'[r] # fd'[q]
                      /\ pc'[q] = "writing" => content'[fd'[q]] = <<>>
                      /\ pc'[q] = "renaming" => content'[fd'[q]] = Document(mem'[q])
    BY DEF OwnsFile
  <2>1. CASE q = p
    <3>1. fd'[q] = tmp' /\ pc'[q] = "writing" /\ content'[tmp'] = <<>>
      BY <1>1, <1>2, <2>1 DEF TypeOK
    <3>2. \A r \in Proc \ {p} : fd[r] # tmp'
      BY <1>2, <3>1
    <3> QED
      BY <1>2, <2>1, <3>1, <3>2 DEF TypeOK
  <2>2. CASE q # p
    <3>1. fd'[q] = fd[q]
      BY <1>2, <2>2 DEF TypeOK
    <3>2. fd[q] # tmp'
      BY <1>2, <2>2, <3>1
    <3>3. fd[q] \notin contested
      BY <1>2, <3>1, <3>2
    <3>4. tmp = fd[q]
      BY <3>1, <3>3 DEF OwnsFile
    <3> QED
      BY <1>1, <3>1, <3>2, <3>4
  <2> QED
    BY <2>1, <2>2
<1>9. ASSUME NEW q \in Writer \ crowded, pc'[q] # "idle"
      PROVE  /\ q = p /\ pc[p] # "idle"
             /\ \A r \in Proc \ {p} : fd[r] = None
  <2>1. pc[q] # "idle" /\ q \in Proc
    BY <1>2, <1>9, StoreParameters DEF TypeOK
  <2>2. q = p
    BY <1>2, <1>3, <2>1, WorkIsCrowding
  <2> QED
    BY <2>1, <2>2, AloneHasNoRival
<1>10. Alone'
  <2> SUFFICES ASSUME NEW q \in Writer \ crowded, pc'[q] # "idle"
               PROVE  (\A r \in Writer \ {q} : pc'[r] = "idle") /\ fd'[q] \notin contested'
    BY <1>2 DEF Alone
  <2>1. q = p /\ \A r \in Proc \ {p} : fd[r] = None
    BY <1>9
  <2>2. fd'[q] = tmp' /\ tmp' \notin contested'
    BY <1>1, <1>2, <2>1, StoreParameters DEF TypeOK
  <2>3. \A r \in Writer \ {q} : pc'[r] = "idle"
    BY <1>2, <2>1, StoreParameters DEF Alone, TypeOK
  <2> QED
    BY <2>2, <2>3
<1>11. CopyHoldsLedger'
  <2> SUFFICES ASSUME NEW q \in Writer \ crowded, pc'[q] # "idle", path \notin contested'
               PROVE  Parsed(Blocks(path)) \subseteq mem[q]
    BY <1>2, <1>4 DEF CopyHoldsLedger
  <2> QED
    BY <1>3, <1>9 DEF CopyHoldsLedger
<1> QED
  BY <1>5, <1>6, <1>7, <1>8, <1>10, <1>11

\* What a write puts into the file, whole or cut.
Written(p) == {Overlay(content[fd[p]], Document(mem[p]))}
              \cup {Overlay(content[fd[p]], SubSeq(Document(mem[p]), 1, n)) :
                      n \in 0 .. Size(mem[p]) - 1}

LEMMA OverlayType ==
  ASSUME NEW old \in Seq(Snapshot), NEW new \in Seq(Snapshot)
  PROVE  Overlay(old, new) \in Seq(Snapshot)
<1>1. Len(old) \in Nat /\ Len(new) \in Nat
  OBVIOUS
<1> DEFINE n == IF Len(new) > Len(old) THEN Len(new) ELSE Len(old)
<1>2. n \in Nat /\ \A i \in 1 .. n : i > Len(new) => i <= Len(old)
  BY <1>1
<1>3. \A i \in 1 .. n : (IF i <= Len(new) THEN new[i] ELSE old[i]) \in Snapshot
  BY <1>1, <1>2
<1>4. Overlay(old, new) = [i \in 1 .. n |-> IF i <= Len(new) THEN new[i] ELSE old[i]]
  BY DEF Overlay
<1> HIDE DEF n
<1> QED
  BY <1>2, <1>3, <1>4

LEMMA WriteStep == ASSUME IInv, NEW p \in Proc, Write(p) \/ ShortWrite(p) PROVE IInv'
<1> USE DEF IInv, Goto
<1>0. pc[p] = "writing" /\ fd[p] # None /\ fd[p] \in Inode /\ p \in Writer
  BY DEF Write, ShortWrite, Handles, Saving, OnlyWritersWrite, Pending, TypeOK
<1>1. PICK new \in Written(p) :
        /\ content' = [content EXCEPT ![fd[p]] = new]
        /\ Write(p) => new = Overlay(content[fd[p]], Document(mem[p]))
  BY <1>0 DEF Write, ShortWrite, Written, TypeOK
<1>2. new \in Seq(Snapshot)
  BY <1>0, <1>1, DocumentReadsBack, PrefixOfDocument, OverlayType DEF Written, TypeOK
<1>3. /\ UNCHANGED <<path, tmp, mem, contested, crowded>> /\ faults' \in Nat
      /\ \/ UNCHANGED fd /\ pc' = [pc EXCEPT ![p] = "renaming"] /\ Write(p)
         \/ fd' = [fd EXCEPT ![p] = None] /\ pc' = [pc EXCEPT ![p] = "dirty"]
  BY DEF Write, ShortWrite, Fault, history, TypeOK
<1>4. TypeOK'
  BY <1>0, <1>1, <1>2, <1>3 DEF TypeOK, Place
<1>5. path \notin contested => UNCHANGED <<Blocks(path), content[path]>>
  BY <1>0, <1>1, <1>3, SaveLeavesPath
<1>6. AlwaysWhole'
  BY <1>3, <1>5 DEF AlwaysWhole
<1>7. OnlyWritersWrite' /\ Handles'
  BY <1>0, <1>3 DEF OnlyWritersWrite, Handles, TypeOK, Pending, Saving
<1>8. OwnsFile'
  <2> SUFFICES ASSUME NEW q \in Proc, fd'[q] # None, fd'[q] \notin contested
               PROVE  /\ tmp = fd'[q]
                      /\ \A r \in Proc \ {q} : fd'[r] # fd'[q]
                      /\ pc'[q] = "writing" => content'[fd'[q]] = <<>>
                      /\ pc'[q] = "renaming" => content'[fd'[q]] = Document(mem[q])
    BY <1>3 DEF OwnsFile
  <2>1. fd'[q] = fd[q] /\ \A r \in Proc : fd'[r] \in {fd[r], None}
    BY <1>3 DEF TypeOK
  <2>2. tmp = fd[q] /\ \A r \in Proc \ {q} : fd[r] # fd[q]
    BY <2>1 DEF OwnsFile
  <2>3. CASE q # p
    <3>1. pc'[q] = pc[q] /\ content'[fd[q]] = content[fd[q]]
      BY <1>0, <1>1, <1>3, <2>1, <2>2, <2>3 DEF TypeOK
    <3> QED
      BY <2>1, <2>2, <3>1 DEF OwnsFile
  <2>4. CASE q = p
    <3>1. pc'[p] = "renaming" /\ Write(p) /\ UNCHANGED fd
      BY <1>0, <1>3, <2>1, <2>4 DEF TypeOK
    <3>2. content[fd[p]] = <<>>
      BY <1>0, <2>1, <2>4 DEF OwnsFile
    <3>3. new = Document(mem[p])
      BY <1>1, <3>1, <3>2, DocumentReadsBack, OverlayEmpty DEF TypeOK
    <3> QED
      BY <1>0, <1>1, <2>1, <2>2, <2>4, <3>1, <3>3 DEF TypeOK
  <2> QED
    BY <2>3, <2>4
<1>9. Alone'
  <2> SUFFICES ASSUME NEW q \in Writer \ crowded, pc'[q] # "idle"
               PROVE  (\A r \in Writer \ {q} : pc'[r] = "idle") /\ fd'[q] \notin contested
    BY <1>3 DEF Alone
  <2>1. q \in Proc /\ pc[q] # "idle" /\ fd'[q] \in {fd[q], None}
    BY <1>0, <1>3, StoreParameters DEF TypeOK
  <2>2. None \notin contested
    BY StoreParameters DEF TypeOK
  <2> QED
    BY <1>0, <1>3, <2>1, <2>2, StoreParameters DEF Alone, TypeOK
<1>10. CopyHoldsLedger'
  <2>1. \A q \in Writer : pc'[q] # "idle" => pc[q] # "idle"
    BY <1>0, <1>3, StoreParameters DEF TypeOK
  <2> QED
    BY <1>3, <1>5, <2>1 DEF CopyHoldsLedger
<1> QED
  BY <1>4, <1>6, <1>7, <1>8, <1>9, <1>10

\* What a rename puts at path, unless it is contested: the document of the one who
\* renamed it.
LEMMA RenamedIsOwn ==
  ASSUME IInv, NEW p \in Proc, Rename(p), tmp # None
  PROVE  /\ path' = tmp /\ tmp' = None /\ tmp \in Inode /\ mem[p] \in Snapshot
         /\ UNCHANGED <<content, mem, crowded>>
         /\ path' \notin contested' => /\ fd[p] = tmp /\ contested' = contested
                                       /\ content[tmp] = Document(mem[p])
                                       /\ Parsed(Blocks(path))' = mem[p]
         /\ path' \in contested' => p \in crowded
<1> USE DEF IInv
<1>1. /\ path' = tmp /\ tmp' = None /\ tmp \in Inode /\ mem[p] \in Snapshot
      /\ UNCHANGED <<content, mem, crowded>>
      /\ contested' = contested \cup ({tmp} \ {None, fd[p]})
  BY DEF Rename, TypeOK
<1>2. pc[p] = "renaming" /\ p \in Writer /\ fd[p] # None
  BY DEF Rename, OnlyWritersWrite, Handles, Pending, Saving
<1>3. ASSUME path' \notin contested'
      PROVE  /\ fd[p] = tmp /\ contested' = contested
             /\ content[tmp] = Document(mem[p]) /\ Parsed(Blocks(path))' = mem[p]
  <2>1. fd[p] = tmp /\ contested' = contested
    BY <1>1, <1>3
  <2>2. content[tmp] = Document(mem[p])
    BY <1>1, <1>2, <1>3, <2>1 DEF OwnsFile
  <2> QED
    BY <1>1, <2>1, <2>2, DocumentReadsBack DEF Blocks
<1>4. ASSUME p \notin crowded PROVE path' \notin contested'
  <2>1. fd[p] \notin contested
    BY <1>2, <1>4 DEF Alone
  <2>2. tmp = fd[p]
    BY <1>2, <2>1 DEF OwnsFile
  <2> QED
    BY <1>1, <2>1, <2>2
<1> QED
  BY <1>1, <1>3, <1>4

LEMMA RenameStep == ASSUME IInv, NEW p \in Proc, Rename(p) PROVE IInv'
<1> USE DEF IInv, Goto
<1>1. /\ pc[p] = "renaming" /\ p \in Writer /\ UNCHANGED <<content, mem, faults, crowded>>
      /\ fd' = [fd EXCEPT ![p] = None] /\ tmp' = None
      /\ contested' = contested \cup ({tmp} \ {None, fd[p]})
      /\ \/ pc' = [pc EXCEPT ![p] = "ready"]
         \/ pc' = [pc EXCEPT ![p] = "dirty"]
  BY DEF Rename, OnlyWritersWrite, Pending, Saving
<1>2. TypeOK'
  BY <1>1 DEF Rename, TypeOK, Place
<1>3. AlwaysWhole'
  <2>1. CASE tmp = None
    BY <1>1, <2>1 DEF Rename, AlwaysWhole
  <2>2. CASE tmp # None
    BY <2>2, RenamedIsOwn, DocumentReadsBack DEF AlwaysWhole
  <2> QED
    BY <2>1, <2>2
<1>4. OnlyWritersWrite' /\ Handles'
  BY <1>1 DEF OnlyWritersWrite, Handles, TypeOK, Pending, Saving
<1>5. OwnsFile'
  <2> SUFFICES ASSUME NEW q \in Proc, fd'[q] # None, fd'[q] \notin contested' PROVE FALSE
    BY DEF OwnsFile
  <2>1. q # p /\ fd[q] # None /\ fd[q] \notin contested
    BY <1>1 DEF TypeOK
  <2>2. tmp = fd[q] /\ fd[p] # fd[q] /\ fd'[q] = fd[q]
    BY <1>1, <2>1 DEF OwnsFile, TypeOK
  <2> QED
    BY <1>1, <2>1, <2>2
<1>6. ASSUME NEW q \in Writer \ crowded, pc'[q] # "idle"
      PROVE  q = p /\ pc[p] # "idle"
  <2>1. pc[q] # "idle"
    BY <1>1, <1>6, StoreParameters DEF TypeOK
  <2> QED
    BY <1>1, <2>1, WorkIsCrowding
<1>7. Alone'
  <2> SUFFICES ASSUME NEW q \in Writer \ crowded, pc'[q] # "idle"
               PROVE  (\A r \in Writer \ {q} : pc'[r] = "idle") /\ fd'[q] \notin contested'
    BY <1>1 DEF Alone
  <2>1. q = p /\ pc[p] # "idle"
    BY <1>6
  <2>2. fd'[q] = None /\ None \notin contested'
    BY <1>1, <1>2, <2>1, StoreParameters DEF TypeOK
  <2> QED
    BY <1>1, <2>1, <2>2, StoreParameters DEF Alone, TypeOK
<1>8. CopyHoldsLedger'
  <2> SUFFICES ASSUME NEW q \in Writer \ crowded, pc'[q] # "idle", path' \notin contested'
               PROVE  Parsed(Blocks(path))' \subseteq mem[q]
    BY <1>1 DEF CopyHoldsLedger
  <2>1. q = p /\ pc[p] # "idle"
    BY <1>6
  <2>2. CASE tmp = None
    <3>1. Blocks(path)' = Blocks(path) /\ path' = path /\ contested' = contested
      BY <1>1, <2>2 DEF Rename, Blocks
    <3> QED
      BY <2>1, <3>1 DEF CopyHoldsLedger
  <2>3. CASE tmp # None
    BY <2>1, <2>3, RenamedIsOwn
  <2> QED
    BY <2>2, <2>3
<1> QED
  BY <1>2, <1>3, <1>4, <1>5, <1>7, <1>8

LEMMA LeaveStep == ASSUME IInv, NEW p \in Proc, Close(p) \/ Crash(p) PROVE IInv'
<1> USE DEF IInv, Goto
<1>1. /\ mem' = [mem EXCEPT ![p] = {}] /\ fd' = [fd EXCEPT ![p] = None]
      /\ pc' = [pc EXCEPT ![p] = "idle"]
      /\ UNCHANGED <<path, tmp, content, contested, crowded>> /\ faults' \in Nat
  BY DEF Close, Crash, Leave, Fault, history, TypeOK
<1>2. TypeOK'
  BY <1>1 DEF TypeOK, Place, Snapshot
<1>3. AlwaysWhole'
  BY <1>1 DEF AlwaysWhole
<1>4. OnlyWritersWrite' /\ Handles' /\ OwnsFile'
  BY <1>1 DEF OnlyWritersWrite, Handles, OwnsFile, TypeOK, Pending, Saving
<1>5. Alone'
  BY <1>1, StoreParameters DEF Alone, TypeOK
<1>6. CopyHoldsLedger'
  BY <1>1, StoreParameters DEF CopyHoldsLedger, TypeOK, Blocks
<1> QED
  BY <1>2, <1>3, <1>4, <1>5, <1>6

LEMMA StepPreservesIInv == IInv /\ [Next]_vars => IInv'
<1>1. ASSUME IInv, UNCHANGED vars PROVE IInv'
  <2>1. Blocks(path)' = Blocks(path)
    BY <1>1 DEF vars, Blocks
  <2> QED
    BY <1>1, <2>1 DEF IInv, vars, history, TypeOK, AlwaysWhole, OnlyWritersWrite, Handles,
       OwnsFile, Alone, CopyHoldsLedger
<1> QED
  BY <1>1, OpenStep, ChangeStep, CreateStep, WriteStep, RenameStep, LeaveStep DEF Next

LEMMA IInvHolds == Spec => []IInv
BY InitEstablishesIInv, StepPreservesIInv, PTL DEF Spec

\* Whatever processes overlap, and whatever short writes and crashes happen, a store file
\* that only one process had open is one whole document.
THEOREM StoreStaysWhole == Spec => [](TypeOK /\ AlwaysWhole)
<1>1. IInv => TypeOK /\ AlwaysWhole
  BY DEF IInv
<1> QED
  BY <1>1, IInvHolds, PTL

-----------------------------------------------------------------------------
(* Refinement: opening loads the ledger, the rename commits the copy or garbles *)
(* the ledger, the rest is a change of the copy or nothing at all.              *)

LEMMA InitRefines == Init => Ledger!Init
  BY DEF Init, Ledger!Init, Blocks, Parsed

LEMMA StepRefines ==
  ASSUME IInv, [Next]_vars
  PROVE  [Ledger!Next]_Ledger!vars
<1> USE DEF IInv, Ledger!vars
<1>0. Writer \subseteq Proc /\ pc \in [Proc -> Place]
  BY StoreParameters DEF TypeOK
<1>1. ASSUME NEW p \in Proc, Open(p) PROVE Ledger!Next
  <2>1. Parsed(Blocks(path)) \in SUBSET Row
    BY DEF TypeOK, Blocks, Parsed, Snapshot
  <2>2. {q \in Proc : pc'[q] # "idle"} = {q \in Proc : pc[q] # "idle"} \cup {p}
    BY <1>0, <1>1 DEF Open, Goto
  <2>3. crowded' = Ledger!CrowdedBy(p)
    <3>1. (Writer \cap {q \in Proc : pc[q] # "idle"}) \ {p} = Others(p)
      BY <1>0 DEF Others
    <3> QED
      BY <1>1, <3>1 DEF Open, Crowd, Ledger!CrowdedBy
  <2>4. UNCHANGED <<path, contested>> /\ Blocks(path)' = Blocks(path)
    BY <1>1 DEF Open, Blocks
  <2>5. Ledger!Load(p)
    BY <1>1, <2>1, <2>2, <2>3, <2>4 DEF Open, Ledger!Load
  <2> QED
    BY <2>5 DEF Ledger!Next
<1>2. ASSUME NEW p \in Proc, Change(p) PROVE Ledger!Next
  <2>1. {q \in Proc : pc'[q] # "idle"} = {q \in Proc : pc[q] # "idle"}
    BY <1>0, <1>2 DEF Change, Goto
  <2>2. Ledger!Edit(p)
    BY <1>2, <2>1 DEF Change, Ledger!Edit, Blocks, history
  <2> QED
    BY <2>2 DEF Ledger!Next
<1>3. ASSUME NEW p \in Proc, Create(p) PROVE UNCHANGED Ledger!vars
  <2>1. /\ tmp' # path /\ content' = [content EXCEPT ![tmp'] = <<>>]
        /\ UNCHANGED <<path, mem, crowded>>
    BY <1>3, StoreParameters DEF Create, TypeOK
  <2>2. path \in contested' <=> path \in contested
    BY <1>3, <2>1 DEF Create, Contest
  <2>3. {q \in Proc : pc'[q] # "idle"} = {q \in Proc : pc[q] # "idle"}
    BY <1>0, <1>3 DEF Create, Goto
  <2>4. Blocks(path)' = Blocks(path)
    BY <2>1 DEF Blocks, TypeOK
  <2> QED
    BY <2>1, <2>2, <2>3, <2>4
<1>4. ASSUME NEW p \in Proc, Write(p) \/ ShortWrite(p) PROVE UNCHANGED Ledger!vars
  <2>1. fd[p] # None /\ UNCHANGED <<path, mem, contested, crowded>>
    BY <1>4 DEF Write, ShortWrite, Handles, Saving, history
  <2>2. PICK new : content' = [content EXCEPT ![fd[p]] = new]
    BY <1>4 DEF Write, ShortWrite
  <2>3. path \notin contested => Blocks(path)' = Blocks(path)
    BY <2>1, <2>2, SaveLeavesPath
  <2>4. {q \in Proc : pc'[q] # "idle"} = {q \in Proc : pc[q] # "idle"}
    BY <1>0, <1>4 DEF Write, ShortWrite, Goto
  <2> QED
    BY <2>1, <2>3, <2>4
<1>5. ASSUME NEW p \in Proc, Rename(p) PROVE Ledger!Next \/ UNCHANGED Ledger!vars
  <2>1. /\ p \in Writer /\ pc[p] # "idle"
        /\ {q \in Proc : pc'[q] # "idle"} = {q \in Proc : pc[q] # "idle"}
    BY <1>0, <1>5 DEF Rename, Goto, OnlyWritersWrite, Pending, Saving
  <2>2. CASE tmp = None
    <3>1. UNCHANGED <<path, content, mem, crowded, contested>>
      BY <1>5, <2>2 DEF Rename
    <3> QED
      BY <2>1, <3>1 DEF Blocks
  <2>3. CASE tmp # None /\ path' \in contested'
    <3>1. p \in crowded /\ UNCHANGED <<mem, crowded>>
      BY <1>5, <2>3, RenamedIsOwn
    <3>2. Ledger!Garble(p)
      BY <2>1, <2>3, <3>1 DEF Ledger!Garble
    <3> QED
      BY <3>2 DEF Ledger!Next
  <2>4. CASE tmp # None /\ path' \notin contested'
    <3>1. Parsed(Blocks(path))' = mem[p] /\ UNCHANGED <<mem, crowded>>
      BY <1>5, <2>4, RenamedIsOwn
    <3>2. p \notin crowded /\ path \notin contested => Parsed(Blocks(path)) \subseteq mem[p]
      BY <2>1 DEF CopyHoldsLedger
    <3>3. Ledger!Commit(p)
      BY <2>1, <2>4, <3>1, <3>2 DEF Ledger!Commit
    <3> QED
      BY <3>3 DEF Ledger!Next
  <2> QED
    BY <2>2, <2>3, <2>4
<1>6. ASSUME NEW p \in Proc, Close(p) \/ Crash(p) PROVE Ledger!Next
  <2>1. {q \in Proc : pc'[q] # "idle"} = {q \in Proc : pc[q] # "idle"} \ {p}
    BY <1>0, <1>6 DEF Close, Crash, Leave, Goto
  <2>2. Ledger!Close(p)
    BY <1>6, <2>1 DEF Close, Crash, Leave, Ledger!Close, Blocks, history
  <2> QED
    BY <2>2 DEF Ledger!Next
<1>7. CASE UNCHANGED vars
  BY <1>7 DEF vars, history, Blocks
<1> QED
  BY <1>1, <1>2, <1>3, <1>4, <1>5, <1>6, <1>7 DEF Next

\* With no lock at all the store file behaves as a ledger that is read and replaced in one
\* step, and a writer that had it to itself loses no row of it.
THEOREM StoreRefinesLedger == Spec => RefinesLedger
<1>1. IInv /\ [Next]_vars => [Ledger!Next]_Ledger!vars
  BY StepRefines
<1> QED
  BY <1>1, IInvHolds, InitRefines, PTL DEF Spec, RefinesLedger, Ledger!Spec

==============================================================================
