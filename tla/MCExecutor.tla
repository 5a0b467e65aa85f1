----------------------------- MODULE MCExecutor -----------------------------
(* Small instances of Executor for TLC. *)
EXTENDS Executor, TLC

CONSTANTS b1, b2, b3, b4, b5

FiveBatches == {b1, b2, b3, b4, b5}
Interchangeable == Permutations(Packs)
====
