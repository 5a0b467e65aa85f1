---------------------------- MODULE ResourcePool ----------------------------
(***************************************************************************)
(* What a pool of buffers promises its users, whatever memory it manages:  *)
(* a pool is opened with a set of blocks, a block is in the pool or with   *)
(* one user, nothing is handed out once the pool is closing, and the       *)
(* blocks go back to the system when all of them are back in the pool.     *)
(***************************************************************************)
CONSTANTS Blocks, Users

VARIABLES
  phase,   \* "absent", "open" or "closing"
  inside,  \* blocks in the pool
  out      \* user -> blocks of the pool it has

pvars == <<phase, inside, out>>

PInit ==
  /\ phase = "absent"
  /\ inside = {}
  /\ out = [u \in Users |-> {}]

Open(S) ==
  /\ phase = "absent" /\ S # {}
  /\ phase' = "open" /\ inside' = S
  /\ UNCHANGED out

Take(u, b) ==
  /\ phase = "open" /\ b \in inside
  /\ inside' = inside \ {b}
  /\ out' = [out EXCEPT ![u] = @ \cup {b}]
  /\ UNCHANGED phase

Give(u, b) ==
  /\ phase # "absent" /\ b \in out[u]
  /\ inside' = inside \cup {b}
  /\ out' = [out EXCEPT ![u] = @ \ {b}]
  /\ UNCHANGED phase

Close ==
  /\ phase = "open" /\ phase' = "closing"
  /\ UNCHANGED <<inside, out>>

\* Only a closing pool in which every block is back goes away.
Release ==
  /\ phase = "closing" /\ \A u \in Users : out[u] = {}
  /\ phase' = "absent" /\ inside' = {}
  /\ UNCHANGED out

PNext ==
  \/ \E S \in SUBSET Blocks : Open(S)
  \/ \E u \in Users, b \in Blocks : Take(u, b) \/ Give(u, b)
  \/ Close \/ Release

PSpec == PInit /\ [][PNext]_pvars
====
