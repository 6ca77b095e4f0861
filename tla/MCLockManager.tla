--------------------------- MODULE MCLockManager ---------------------------
(***************************************************************************)
(* The lock manager for TLC: rows can be exchanged for one another, since  *)
(* nothing in the lock manager compares them.                              *)
(***************************************************************************)
EXTENDS LockManager, TLC

Rows == Permutations(Row)
=============================================================================
