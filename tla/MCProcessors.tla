---------------------------- MODULE MCProcessors ----------------------------
(* Instance of Processors: two engines, fewer threads than packages. *)
EXTENDS Processors

Packages == 1 .. 4
====
