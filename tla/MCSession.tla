----------------------------- MODULE MCSession -----------------------------
(* Small instances of Session for TLC. *)
EXTENDS Session, TLC

CONSTANTS c1, c2, w1, w2, t1, t2, a1, a2, a3

OneClient == {c1}
TwoClients == {c1, c2}
OneWorker == {w1}
TwoWorkers == {w1, w2}
TwoTags == {t1, t2}
SharedTag == [c \in Clients |-> {t1}]
AllTags == [c \in Clients |-> Tags]
TwoAddrs == {a1, a2}
ThreeAddrs == {a1, a2, a3}
OnlyTwo == {2}
ZeroOrOne == {0, 1}
OnlySuccess == {"SUCCESS"}

\* Addresses are only compared, and so are pool threads and clients of one tag.
Symmetric == Permutations(Addrs) \cup Permutations(Workers) \cup Permutations(Clients)
====
