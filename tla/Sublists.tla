------------------------------ MODULE Sublists ------------------------------
(***************************************************************************)
(* What is left of a list when some of its elements are erased, in the     *)
(* order they had: the loops over std::list and std::vector that erase the *)
(* discarded batches, the cancelled timers and so on; and lists of lists.  *)
(***************************************************************************)
EXTENDS Integers, Sequences

Elems(s) == {s[i] : i \in DOMAIN s}

Distinct(s) == \A i, j \in DOMAIN s : s[i] = s[j] => i = j

\* What is left of the first i elements, for every i.
Remainders(s, gone) ==
  LET f[i \in 0 .. Len(s)] ==
        IF i = 0 THEN <<>>
        ELSE IF s[i] \in gone THEN f[i - 1] ELSE Append(f[i - 1], s[i])
  IN  f

Without(s, gone) == Remainders(s, gone)[Len(s)]

\* Lists of lists: their elements, each of which is at one place of one list, and
\* the lists one after the other.
Contents(p) == UNION {Elems(p[k]) : k \in DOMAIN p}

Scattered(p) ==
  \A k, l \in DOMAIN p : \A m \in DOMAIN p[k], n \in DOMAIN p[l] : p[k][m] = p[l][n] => k = l /\ m = n

FlatTo(p) ==
  LET f[k \in 0 .. Len(p)] == IF k = 0 THEN <<>> ELSE f[k - 1] \o p[k]
  IN  f

Flat(p) == FlatTo(p)[Len(p)]

Least(a, b) == IF a < b THEN a ELSE b

\* s in lists of n elements, the last of which may be shorter.
Parts(s, n) ==
  [k \in 1 .. ((Len(s) + n - 1) \div n) |-> SubSeq(s, (k - 1) * n + 1, Least(k * n, Len(s)))]
====
