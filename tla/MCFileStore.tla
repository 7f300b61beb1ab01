----------------------------- MODULE MCFileStore -----------------------------
(***************************************************************************)
(* Two writers, the daemon and a launch scan, and a report that only reads. *)
(* Files and rows are interchangeable: both properties speak of all of them *)
(* alike and neither is a liveness property, so their symmetry is sound.    *)
(***************************************************************************)
EXTENDS FileStore, TLC

MCProc == {"daemon", "scan", "report"}
MCWriter == {"daemon", "scan"}

MCSymmetry == Permutations(Inode) \cup Permutations(Row)

==============================================================================
