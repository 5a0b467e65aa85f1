---------------------------- MODULE MCThreadPool ----------------------------
(* Small instances of ThreadPool for TLC. *)
EXTENDS ThreadPool, TLC

CONSTANTS h1, h2, p1, p2, x1, x3

TwoThreads == {h1, h2}
TwoPushers == {p1, p2}
TwoTasks == {x1, x3}
\* x3 overtakes x1
Priorities == [x \in Tasks |-> IF x = x3 THEN 1 ELSE 0]
UpAndDown == {0, 1, 2}
====
