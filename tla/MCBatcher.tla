------------------------------ MODULE MCBatcher ------------------------------
(* Small instances of Batcher for TLC. *)
EXTENDS Batcher

CONSTANTS c1, c2, x1, x2, x3, x4

OneClient == {c1}
TwoClients == {c1, c2}
FourItems == {x1, x2, x3, x4}
====
