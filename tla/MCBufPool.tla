----------------------------- MODULE MCBufPool -----------------------------
(* Small instances of BufPool for TLC. *)
EXTENDS BufPool

CONSTANTS u1, u2, b1, b2, h1, h2, h3

TwoUsers == {u1, u2}
TwoBlocks == {b1, b2}
ThreeHeaders == {h1, h2, h3}
OneInArray == {h1}
OneRetry == {1}
====
