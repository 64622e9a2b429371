---- MODULE MCStateFile ----
(***************************************************************************)
(* Instances of StateFile for TLC: a short value and a long one.           *)
(***************************************************************************)
EXTENDS StateFile, TLC

CONSTANTS short, long

Sizes == (short :> 1) @@ (long :> 2)

ClientsAlike == Permutations(Saver) \cup Permutations(Client \ Saver) \cup Permutations(Inode)
====
