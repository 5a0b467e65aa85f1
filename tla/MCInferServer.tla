--------------------------- MODULE MCInferServer ---------------------------
(* Instance of InferServer: two clients, two models, a pool smaller than the *)
(* engines ask for.                                                         *)
EXTENDS InferServer, TLC

CONSTANTS c1, c2, k1, k2

TwoClients == {c1, c2}
TwoKeys == {k1, k2}
Engines == k1 :> 1 @@ k2 :> 3
Sizes == {1, 2}
SyncClients == {c1}
====
