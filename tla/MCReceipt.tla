----------------------------- MODULE MCReceipt -----------------------------
(* Receipt for TLC: two files, which nothing tells apart. *)
EXTENDS Receipt, TLC

CONSTANTS f1, f2

FilesAlike == Permutations(File)
=============================================================================
