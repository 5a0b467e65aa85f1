--------------------------- MODULE SublistsProofs ---------------------------
(***************************************************************************)
(* Induction over the natural numbers, what erasing elements of a list     *)
(* leaves, and lists of lists: put together, replaced, erased and cut.     *)
(***************************************************************************)
EXTENDS Sublists, TLAPS, WellFoundedInduction

\* Induction over a set of numbers: what holds of 0 and passes from n to n + 1
\* holds of all.
LEMMA SetInduction ==
  ASSUME NEW T \in SUBSET Nat, 0 \in T, \A n \in T : n + 1 \in T
  PROVE  T = Nat
<1> SUFFICES ASSUME Nat \ T # {} PROVE FALSE
  OBVIOUS
<1>1. PICK x \in Nat \ T : \A y \in Nat \ T : ~(<<y, x>> \in OpToRel(<, Nat))
  BY WFMin, NatLessThanWellFounded
<1>2. x # 0 /\ x - 1 \in Nat /\ x - 1 < x
  OBVIOUS
<1>3. x - 1 \in T
  BY <1>1, <1>2 DEF OpToRel
<1>4. x - 1 + 1 \in T
  BY <1>3
<1> QED
  BY <1>4

\* The recursive function Remainders exists and obeys its equation.
LEMMA RemaindersDef ==
  ASSUME NEW S, NEW s \in Seq(S), NEW gone
  PROVE  /\ Remainders(s, gone) \in [0 .. Len(s) -> Seq(S)]
         /\ \A i \in 0 .. Len(s) :
              Remainders(s, gone)[i] =
                IF i = 0 THEN <<>>
                ELSE IF s[i] \in gone THEN Remainders(s, gone)[i - 1]
                                      ELSE Append(Remainders(s, gone)[i - 1], s[i])
<1> DEFINE Body(f, i) == IF i = 0 THEN <<>>
                         ELSE IF s[i] \in gone THEN f[i - 1] ELSE Append(f[i - 1], s[i])
           Ok(n) == \E f \in [0 .. n -> Seq(S)] : \A i \in 0 .. n : f[i] = Body(f, i)
           P == Remainders(s, gone)
<1>0. Len(s) \in Nat
  OBVIOUS
<1>1. Ok(0)
  <2> DEFINE f0 == [i \in 0 .. 0 |-> <<>>]
  <2>1. f0 \in [0 .. 0 -> Seq(S)] /\ \A i \in 0 .. 0 : f0[i] = Body(f0, i)
    OBVIOUS
  <2> QED
    BY <2>1
<1>2. ASSUME NEW n \in Nat, n + 1 <= Len(s), Ok(n) PROVE Ok(n + 1)
  <2>1. PICK f \in [0 .. n -> Seq(S)] : \A i \in 0 .. n : f[i] = Body(f, i)
    BY <1>2
  <2> DEFINE x == IF s[n + 1] \in gone THEN f[n] ELSE Append(f[n], s[n + 1])
             g == [i \in 0 .. (n + 1) |-> IF i = n + 1 THEN x ELSE f[i]]
  <2>2. s[n + 1] \in S /\ f[n] \in Seq(S)
    BY <1>2
  <2>3. x \in Seq(S)
    BY <2>2
  <2>4. g \in [0 .. (n + 1) -> Seq(S)]
    BY <2>3
  <2>5. ASSUME NEW i \in 0 .. (n + 1) PROVE g[i] = Body(g, i)
    <3>1. CASE i = n + 1
      BY <3>1
    <3>2. CASE i = 0
      BY <2>1, <3>2
    <3>3. CASE i # 0 /\ i # n + 1
      <4>1. i \in 0 .. n /\ i - 1 \in 0 .. n /\ g[i] = f[i] /\ g[i - 1] = f[i - 1]
        BY <3>3
      <4> QED
        BY <2>1, <4>1
    <3> QED
      BY <3>1, <3>2, <3>3
  <2> HIDE DEF g
  <2> QED
    BY <2>4, <2>5
<1>3. Ok(Len(s))
  <2> DEFINE T == {n \in Nat : n <= Len(s) => Ok(n)}
  <2> HIDE DEF Ok
  <2>1. 0 \in T
    BY <1>1
  <2>2. ASSUME NEW n \in T PROVE n + 1 \in T
    BY <1>0, <1>2, <2>2
  <2>3. T = Nat
    <3> HIDE DEF T
    <3>1. T \in SUBSET Nat
      BY DEF T
    <3> QED
      BY <2>1, <2>2, <3>1, SetInduction
  <2> QED
    BY <1>0, <2>3
<1>4. P = [i \in 0 .. Len(s) |-> Body(P, i)]
  <2>1. PICK f \in [0 .. Len(s) -> Seq(S)] : \A i \in 0 .. Len(s) : f[i] = Body(f, i)
    BY <1>3
  <2>2. f = [i \in 0 .. Len(s) |-> Body(f, i)]
    BY <2>1
  <2> QED
    BY <2>2, Zenon DEF Remainders
<1>5. \A i \in 0 .. Len(s) : P[i] = Body(P, i)
  BY <1>4
<1> HIDE DEF P
<1>6. \A n \in Nat : n <= Len(s) => P[n] \in Seq(S)
  <2> DEFINE T == {n \in Nat : n <= Len(s) => P[n] \in Seq(S)}
  <2>1. 0 \in T
    <3>1. P[0] = <<>>
      BY <1>0, <1>5
    <3>2. <<>> \in Seq(S)
      OBVIOUS
    <3>3. P[0] \in Seq(S)
      BY <3>1, <3>2, Zenon
    <3> QED
      BY <3>3
  <2>2. ASSUME NEW n \in T PROVE n + 1 \in T
    <3> SUFFICES ASSUME n + 1 <= Len(s) PROVE P[n + 1] \in Seq(S)
      BY <2>2
    <3>1. n \in Nat /\ n + 1 \in 0 .. Len(s) /\ P[n] \in Seq(S) /\ s[n + 1] \in S
      BY <1>0, <2>2
    <3>2. P[n + 1] = IF s[n + 1] \in gone THEN P[n] ELSE Append(P[n], s[n + 1])
      BY <1>5, <3>1
    <3> QED
      BY <3>1, <3>2
  <2>3. T = Nat
    <3> HIDE DEF T
    <3>1. T \in SUBSET Nat
      BY DEF T
    <3> QED
      BY <2>1, <2>2, <3>1, SetInduction
  <2> QED
    BY <2>3
<1>7. P \in [0 .. Len(s) -> Seq(S)]
  BY <1>0, <1>4, <1>6
<1> QED
  BY <1>5, <1>7 DEF P

\* Erasing keeps the elements outside gone, and keeps them distinct.
LEMMA WithoutProperties ==
  ASSUME NEW S, NEW s \in Seq(S), NEW gone
  PROVE  /\ Without(s, gone) \in Seq(S)
         /\ Elems(Without(s, gone)) = Elems(s) \ gone
         /\ Distinct(s) => Distinct(Without(s, gone))
<1> DEFINE P == Remainders(s, gone)
           First(n) == {s[i] : i \in 1 .. n}
           Good(n) == /\ Elems(P[n]) = First(n) \ gone
                      /\ Distinct(s) => Distinct(P[n])
           T == {n \in Nat : n <= Len(s) => Good(n)}
<1>0. Len(s) \in Nat /\ DOMAIN s = 1 .. Len(s)
  OBVIOUS
<1>1. /\ P \in [0 .. Len(s) -> Seq(S)]
      /\ \A i \in 0 .. Len(s) :
           P[i] = IF i = 0 THEN <<>>
                  ELSE IF s[i] \in gone THEN P[i - 1] ELSE Append(P[i - 1], s[i])
  BY RemaindersDef
<1> HIDE DEF P
<1>2. Good(0)
  <2>1. P[0] = <<>>
    BY <1>0, <1>1
  <2> QED
    BY <2>1 DEF Elems, Distinct
<1>3. ASSUME NEW n \in Nat, n + 1 <= Len(s), Good(n) PROVE Good(n + 1)
  <2>1. /\ n + 1 \in 0 .. Len(s) /\ n \in 0 .. Len(s) /\ P[n] \in Seq(S)
        /\ n + 1 \in DOMAIN s /\ s[n + 1] \in S
    <3>1. n + 1 \in 0 .. Len(s) /\ n \in 0 .. Len(s) /\ n + 1 \in 1 .. Len(s)
      BY <1>0, <1>3
    <3>2. P[n] \in Seq(S)
      BY <1>1, <3>1
    <3>3. s[n + 1] \in S
      BY <3>1
    <3> QED
      BY <1>0, <3>1, <3>2, <3>3
  <2>2. P[n + 1] = IF s[n + 1] \in gone THEN P[n] ELSE Append(P[n], s[n + 1])
    <3>1. n + 1 # 0 /\ (n + 1) - 1 = n
      OBVIOUS
    <3>2. P[n + 1] = IF s[n + 1] \in gone THEN P[(n + 1) - 1]
                                         ELSE Append(P[(n + 1) - 1], s[n + 1])
      BY <1>1, <2>1, <3>1
    <3> QED
      BY <3>1, <3>2
  <2>3. First(n + 1) = First(n) \cup {s[n + 1]}
    <3>1. 1 .. (n + 1) = (1 .. n) \cup {n + 1}
      OBVIOUS
    <3> QED
      BY <3>1, Zenon
  <2>4. CASE s[n + 1] \in gone
    BY <1>3, <2>2, <2>3, <2>4
  <2>5. CASE s[n + 1] \notin gone
    <3> DEFINE q == P[n]
    <3>1. /\ q \in Seq(S) /\ P[n + 1] = Append(q, s[n + 1])
      BY <2>1, <2>2, <2>5
    <3> HIDE DEF q
    <3>2. /\ DOMAIN P[n + 1] = DOMAIN q \cup {Len(q) + 1}
          /\ P[n + 1][Len(q) + 1] = s[n + 1]
          /\ \A i \in DOMAIN q : P[n + 1][i] = q[i]
      BY <2>1, <3>1
    <3>3. Elems(P[n + 1]) = Elems(q) \cup {s[n + 1]}
      BY <3>2, Zenon DEF Elems
    <3>4. Elems(P[n + 1]) = First(n + 1) \ gone
      <4>1. Elems(q) = First(n) \ gone
        BY <1>3 DEF q
      <4> HIDE DEF First
      <4> QED
        BY <2>3, <2>5, <3>3, <4>1
    <3>5. ASSUME Distinct(s) PROVE Distinct(P[n + 1])
      <4>1. Distinct(q) /\ Elems(q) = First(n) \ gone
        BY <1>3, <3>5 DEF q
      <4>2. s[n + 1] \notin First(n)
        <5> SUFFICES ASSUME NEW i \in 1 .. n, s[i] = s[n + 1] PROVE FALSE
          OBVIOUS
        <5>1. i \in DOMAIN s /\ i # n + 1
          BY <1>0, <1>3
        <5> QED
          BY <2>1, <3>5, <5>1 DEF Distinct
      <4>3. \A i \in DOMAIN q : q[i] # s[n + 1]
        BY <4>1, <4>2 DEF Elems
      <4> QED
        BY <3>2, <4>1, <4>3, Zenon DEF Distinct
    <3> QED
      BY <3>4, <3>5
  <2> QED
    BY <2>4, <2>5
<1>4. T = Nat
  <2> HIDE DEF Good
  <2>1. 0 \in T
    BY <1>2
  <2>2. ASSUME NEW n \in T PROVE n + 1 \in T
    BY <1>0, <1>3, <2>2
  <2>3. T \in SUBSET Nat
    OBVIOUS
  <2> HIDE DEF T
  <2> QED
    BY <2>1, <2>2, <2>3, SetInduction
<1>5. Good(Len(s))
  <2> HIDE DEF Good
  <2> QED
    BY <1>0, <1>4
<1>6. First(Len(s)) = Elems(s)
  BY <1>0 DEF Elems
<1>7. Without(s, gone) = P[Len(s)]
  BY DEF Without, P
<1> QED
  BY <1>0, <1>1, <1>5, <1>6, <1>7

\* Erasing makes a list no longer.
LEMMA WithoutLength ==
  ASSUME NEW S, NEW s \in Seq(S), NEW gone
  PROVE  Len(Without(s, gone)) <= Len(s)
<1> DEFINE P == Remainders(s, gone)
           T == {n \in Nat : n <= Len(s) => Len(P[n]) <= n}
<1>0. Len(s) \in Nat
  OBVIOUS
<1>1. /\ P \in [0 .. Len(s) -> Seq(S)]
      /\ \A i \in 0 .. Len(s) :
           P[i] = IF i = 0 THEN <<>>
                  ELSE IF s[i] \in gone THEN P[i - 1] ELSE Append(P[i - 1], s[i])
  BY RemaindersDef
<1> HIDE DEF P
<1>2. 0 \in T
  BY <1>0, <1>1
<1>3. ASSUME NEW n \in T PROVE n + 1 \in T
  <2> SUFFICES ASSUME n + 1 <= Len(s) PROVE Len(P[n + 1]) <= n + 1
    BY <1>3
  <2>1. /\ n \in Nat /\ n + 1 \in 0 .. Len(s) /\ n \in 0 .. Len(s)
        /\ n + 1 # 0 /\ (n + 1) - 1 = n /\ Len(P[n]) <= n
    BY <1>0, <1>3
  <2>2. P[n] \in Seq(S) /\ s[n + 1] \in S
    <3>1. P[n] \in Seq(S)
      BY <1>1, <2>1
    <3>2. n + 1 \in 1 .. Len(s)
      BY <1>0, <2>1
    <3> QED
      BY <3>1, <3>2
  <2>3. P[n + 1] = IF s[n + 1] \in gone THEN P[(n + 1) - 1] ELSE Append(P[(n + 1) - 1], s[n + 1])
    BY <1>1, <2>1
  <2>4. P[n + 1] = P[n] \/ P[n + 1] = Append(P[n], s[n + 1])
    BY <2>1, <2>3
  <2> QED
    BY <2>1, <2>2, <2>4
<1>4. T = Nat
  <2>1. T \in SUBSET Nat
    OBVIOUS
  <2> HIDE DEF T
  <2> QED
    BY <1>2, <1>3, <2>1, SetInduction
<1> QED
  BY <1>0, <1>4 DEF Without, P

LEMMA AppendElems ==
  ASSUME NEW S, NEW s \in Seq(S), NEW x \in S
  PROVE  /\ Append(s, x) \in Seq(S)
         /\ Elems(Append(s, x)) = Elems(s) \cup {x}
         /\ Distinct(s) /\ x \notin Elems(s) => Distinct(Append(s, x))
<1>1. /\ Append(s, x) \in Seq(S)
      /\ DOMAIN Append(s, x) = DOMAIN s \cup {Len(s) + 1}
      /\ Append(s, x)[Len(s) + 1] = x
      /\ \A i \in DOMAIN s : Append(s, x)[i] = s[i]
  OBVIOUS
<1>2. Elems(Append(s, x)) = Elems(s) \cup {x}
  BY <1>1, Zenon DEF Elems
<1>3. ASSUME Distinct(s), x \notin Elems(s) PROVE Distinct(Append(s, x))
  BY <1>1, <1>3, Zenon DEF Elems, Distinct
<1> QED
  BY <1>1, <1>2, <1>3

LEMMA TailElements ==
  ASSUME NEW S, NEW s \in Seq(S), s # <<>>
  PROVE  /\ Tail(s) \in Seq(S) /\ Head(s) \in S /\ Head(s) \in Elems(s)
         /\ Elems(s) = Elems(Tail(s)) \cup {Head(s)}
         /\ Distinct(s) => Distinct(Tail(s)) /\ Head(s) \notin Elems(Tail(s))
<1>1. /\ Tail(s) \in Seq(S) /\ Head(s) \in S /\ Head(s) = s[1] /\ 1 \in DOMAIN s
      /\ \A i \in DOMAIN Tail(s) :
           i \in Int /\ i >= 1 /\ i + 1 \in DOMAIN s /\ Tail(s)[i] = s[i + 1]
  OBVIOUS
<1>2. \A j \in DOMAIN s : j # 1 => j - 1 \in DOMAIN Tail(s) /\ Tail(s)[j - 1] = s[j]
  OBVIOUS
<1>3. Elems(s) = Elems(Tail(s)) \cup {Head(s)}
  <2>1. \A x \in Elems(s) : x \in Elems(Tail(s)) \/ x = Head(s)
    <3> SUFFICES ASSUME NEW j \in DOMAIN s, j # 1 PROVE s[j] \in Elems(Tail(s))
      BY <1>1 DEF Elems
    <3>1. j - 1 \in DOMAIN Tail(s) /\ Tail(s)[j - 1] = s[j]
      BY <1>2
    <3> QED
      BY <3>1, Zenon DEF Elems
  <2>2. \A x \in Elems(Tail(s)) : x \in Elems(s)
    <3> SUFFICES ASSUME NEW i \in DOMAIN Tail(s) PROVE Tail(s)[i] \in Elems(s)
      BY DEF Elems
    <3>1. i + 1 \in DOMAIN s /\ Tail(s)[i] = s[i + 1]
      BY <1>1
    <3> QED
      BY <3>1, Zenon DEF Elems
  <2>3. Head(s) \in Elems(s)
    BY <1>1, Zenon DEF Elems
  <2> QED
    BY <2>1, <2>2, <2>3
<1>4. ASSUME Distinct(s) PROVE Distinct(Tail(s)) /\ Head(s) \notin Elems(Tail(s))
  <2>1. ASSUME NEW i \in DOMAIN Tail(s), NEW j \in DOMAIN Tail(s),
               Tail(s)[i] = Tail(s)[j]
        PROVE  i = j
    <3>1. i + 1 = j + 1 /\ i \in Int /\ j \in Int
      BY <1>1, <1>4, <2>1 DEF Distinct
    <3> QED
      BY <3>1
  <2>2. ASSUME NEW i \in DOMAIN Tail(s), Tail(s)[i] = s[1] PROVE FALSE
    <3>1. i + 1 = 1 /\ i \in Int /\ i >= 1
      BY <1>1, <1>4, <2>2 DEF Distinct
    <3> QED
      BY <3>1
  <2> QED
    BY <1>1, <2>1, <2>2 DEF Distinct, Elems
<1> QED
  BY <1>1, <1>3, <1>4
\* The list t is put behind s.
LEMMA ConcatElems ==
  ASSUME NEW S, NEW s \in Seq(S), NEW k \in Nat, NEW t \in [1 .. k -> S]
  PROVE  /\ s \o t \in Seq(S)
         /\ Elems(s \o t) = Elems(s) \cup {t[i] : i \in 1 .. k}
         /\ (/\ Distinct(s) /\ \A i, j \in 1 .. k : t[i] = t[j] => i = j
             /\ \A i \in 1 .. k : t[i] \notin Elems(s))
            => Distinct(s \o t)
<1> DEFINE r == s \o t
           n == Len(s)
<1>1. t \in Seq(S) /\ Len(t) = k /\ DOMAIN t = 1 .. k /\ n \in Nat /\ DOMAIN s = 1 .. n
  OBVIOUS
<1>2. /\ r \in Seq(S) /\ Len(r) = n + k /\ DOMAIN r = 1 .. (n + k)
      /\ \A i \in 1 .. (n + k) : r[i] = IF i <= n THEN s[i] ELSE t[i - n]
  BY <1>1
<1>3. /\ \A i \in DOMAIN s : i \in DOMAIN r /\ r[i] = s[i]
      /\ \A i \in 1 .. k : n + i \in DOMAIN r /\ r[n + i] = t[i]
      /\ \A i \in DOMAIN r : i \in DOMAIN s \/ i - n \in 1 .. k
      /\ \A i \in DOMAIN r : i \notin DOMAIN s => r[i] = t[i - n]
  <2> HIDE DEF r, n
  <2>1. \A i \in DOMAIN s : i \in DOMAIN r /\ r[i] = s[i]
    BY <1>1, <1>2
  <2>2. ASSUME NEW i \in 1 .. k PROVE n + i \in DOMAIN r /\ r[n + i] = t[i]
    <3>1. n + i \in 1 .. (n + k) /\ ~(n + i <= n) /\ n + i - n = i
      BY <1>1
    <3>2. PICK m \in 1 .. (n + k) : m = n + i /\ ~(m <= n) /\ m - n = i
      BY <1>1, <3>1
    <3>3. m \in DOMAIN r /\ r[m] = t[m - n]
      BY <1>1, <1>2, <3>2
    <3> QED
      BY <3>2, <3>3, Zenon
  <2>3. ASSUME NEW i \in DOMAIN r
        PROVE  /\ i \in DOMAIN s \/ i - n \in 1 .. k
               /\ i \notin DOMAIN s => r[i] = t[i - n]
    BY <1>1, <1>2
  <2> QED
    BY <2>1, <2>2, <2>3
<1> HIDE DEF r
<1>4. Elems(r) = Elems(s) \cup {t[i] : i \in 1 .. k}
  <2>1. \A x \in Elems(r) : x \in Elems(s) \cup {t[i] : i \in 1 .. k}
    BY <1>3 DEF Elems
  <2>2. \A x \in Elems(s) : x \in Elems(r)
    BY <1>3, Zenon DEF Elems
  <2>3. \A i \in 1 .. k : t[i] \in Elems(r)
    BY <1>3, Zenon DEF Elems
  <2> QED
    BY <2>1, <2>2, <2>3
<1>5. ASSUME Distinct(s), \A i, j \in 1 .. k : t[i] = t[j] => i = j,
             \A i \in 1 .. k : t[i] \notin Elems(s)
      PROVE  Distinct(r)
  <2> SUFFICES ASSUME NEW i \in DOMAIN r, NEW j \in DOMAIN r, r[i] = r[j]
               PROVE  i = j
    BY DEF Distinct
  <2>0. i \in Int /\ j \in Int /\ n \in Int
    BY <1>1, <1>2
  <2>1. CASE i \in DOMAIN s /\ j \in DOMAIN s
    BY <1>3, <1>5, <2>1 DEF Distinct
  <2>2. CASE i \in DOMAIN s /\ j \notin DOMAIN s
    BY <1>3, <1>5, <2>2 DEF Elems
  <2>3. CASE i \notin DOMAIN s /\ j \in DOMAIN s
    BY <1>3, <1>5, <2>3 DEF Elems
  <2>4. CASE i \notin DOMAIN s /\ j \notin DOMAIN s
    <3>1. i - n = j - n
      BY <1>3, <1>5, <2>4
    <3> HIDE DEF n
    <3> QED
      BY <2>0, <3>1
  <2> QED
    BY <2>1, <2>2, <2>3, <2>4
<1> QED
  BY <1>2, <1>4, <1>5 DEF r

\* The first n elements of a list, and the others.
LEMMA FirstElems ==
  ASSUME NEW S, NEW s \in Seq(S), NEW n \in Nat, n < Len(s)
  PROVE  LET t == SubSeq(s, 1, n)
             rest == {s[i] : i \in (n + 1) .. Len(s)}
         IN /\ t \in Seq(S) /\ Elems(s) = Elems(t) \cup rest /\ rest \subseteq S
            /\ Distinct(s) => Distinct(t) /\ Elems(t) \cap rest = {}
<1> DEFINE t == SubSeq(s, 1, n)
           rest == {s[i] : i \in (n + 1) .. Len(s)}
<1>1. /\ t \in Seq(S) /\ DOMAIN t = 1 .. n /\ DOMAIN s = 1 .. Len(s) /\ Len(s) \in Nat
      /\ \A i \in 1 .. n : t[i] = s[i]
  OBVIOUS
<1> HIDE DEF t
<1>2. \A i \in DOMAIN t : i \in DOMAIN s /\ t[i] = s[i] /\ i \notin (n + 1) .. Len(s)
  BY <1>1
<1>3. /\ \A i \in (n + 1) .. Len(s) : i \in DOMAIN s
      /\ \A i \in DOMAIN s : i \in DOMAIN t \/ i \in (n + 1) .. Len(s)
  BY <1>1
<1>4. Elems(s) = Elems(t) \cup rest
  BY <1>2, <1>3, Zenon DEF Elems
<1>5. rest \subseteq S
  BY <1>3
<1>6. ASSUME Distinct(s) PROVE Distinct(t) /\ Elems(t) \cap rest = {}
  <2>1. Distinct(t)
    BY <1>2, <1>6 DEF Distinct
  <2>2. \A i \in DOMAIN t, j \in (n + 1) .. Len(s) : t[i] # s[j]
    BY <1>2, <1>3, <1>6 DEF Distinct
  <2> QED
    BY <2>1, <2>2, Zenon DEF Elems
<1> QED
  BY <1>1, <1>4, <1>5, <1>6 DEF t

\* The same by position.
LEMMA TailWork ==
  ASSUME NEW S, NEW s \in Seq(S), s # <<>>
  PROVE  /\ Tail(s) \in Seq(S) /\ Head(s) \in S
         /\ Head(s) = s[1] /\ 1 \in DOMAIN s
         /\ \A i \in DOMAIN Tail(s) :
              /\ i \in Nat /\ i >= 1 /\ i + 1 \in DOMAIN s /\ Tail(s)[i] = s[i + 1]
              /\ i + 1 = Len(s) => i = Len(Tail(s))
         /\ Len(s) = 1 => Tail(s) = <<>>
<1>1. /\ Tail(s) \in Seq(S) /\ Head(s) \in S /\ Head(s) = s[1] /\ 1 \in DOMAIN s
      /\ \A i \in DOMAIN Tail(s) :
           i \in Nat /\ i >= 1 /\ i + 1 \in DOMAIN s /\ Tail(s)[i] = s[i + 1]
  OBVIOUS
<1>2. Len(Tail(s)) = Len(s) - 1 /\ Len(s) \in Nat
  OBVIOUS
<1>3. Len(s) = 1 => Tail(s) = <<>>
  BY <1>1, <1>2
<1> QED
  BY <1>1, <1>2, <1>3

LEMMA AppendWork ==
  ASSUME NEW S, NEW s \in Seq(S), NEW x \in S
  PROVE  /\ Append(s, x) \in Seq(S)
         /\ DOMAIN Append(s, x) = DOMAIN s \cup {Len(Append(s, x))}
         /\ Append(s, x)[Len(Append(s, x))] = x
         /\ Len(Append(s, x)) \in Nat
         /\ \A i \in DOMAIN s :
              Append(s, x)[i] = s[i] /\ i \in Nat /\ i < Len(Append(s, x))
  OBVIOUS

\* Two lists with nothing in common, one behind the other.
LEMMA JoinElems ==
  ASSUME NEW S, NEW s \in Seq(S), NEW t \in Seq(S), Distinct(s), Distinct(t), Elems(s) \cap Elems(t) = {}
  PROVE  s \o t \in Seq(S) /\ Elems(s \o t) = Elems(s) \cup Elems(t) /\ Distinct(s \o t)
<1>1. PICK k \in Nat : k = Len(t) /\ DOMAIN t = 1 .. k
  OBVIOUS
<1>2. t \in [1 .. k -> S]
  BY <1>1
<1>3. Elems(t) = {t[i] : i \in 1 .. k}
  BY <1>1 DEF Elems
<1>4. \A i, j \in 1 .. k : t[i] = t[j] => i = j
  BY <1>1 DEF Distinct
<1>5. \A i \in 1 .. k : t[i] \notin Elems(s)
  BY <1>3
<1>6. s \o t \in Seq(S)
  BY <1>2, ConcatElems
<1>7. Elems(s \o t) = Elems(s) \cup {t[i] : i \in 1 .. k}
  BY <1>2, ConcatElems
<1>8. Distinct(s \o t)
  BY <1>2, <1>4, <1>5, ConcatElems
<1> QED
  BY <1>3, <1>6, <1>7, <1>8


-----------------------------------------------------------------------------
(* Lists of lists *)

\* The recursive function FlatTo exists and obeys its equation.
LEMMA FlatToDef ==
  ASSUME NEW S, NEW p \in Seq(Seq(S))
  PROVE  /\ FlatTo(p) \in [0 .. Len(p) -> Seq(S)] /\ FlatTo(p)[0] = <<>>
         /\ \A i \in Nat : i + 1 <= Len(p) => FlatTo(p)[i + 1] = FlatTo(p)[i] \o p[i + 1]
<1> DEFINE Body(f, i) == IF i = 0 THEN <<>> ELSE f[i - 1] \o p[i]
           Ok(n) == \E f \in [0 .. n -> Seq(S)] : \A i \in 0 .. n : f[i] = Body(f, i)
           P == FlatTo(p)
<1>0. Len(p) \in Nat
  OBVIOUS
<1>1. Ok(0)
  <2> DEFINE f0 == [i \in 0 .. 0 |-> <<>>]
  <2>1. f0 \in [0 .. 0 -> Seq(S)] /\ \A i \in 0 .. 0 : f0[i] = Body(f0, i)
    OBVIOUS
  <2> QED
    BY <2>1
<1>2. ASSUME NEW n \in Nat, n + 1 <= Len(p), Ok(n) PROVE Ok(n + 1)
  <2>1. PICK f \in [0 .. n -> Seq(S)] : \A i \in 0 .. n : f[i] = Body(f, i)
    BY <1>2
  <2>2. PICK x \in Seq(S) : x = f[n] \o p[n + 1]
    <3>1. PICK a \in Seq(S), b \in Seq(S) : a = p[n + 1] /\ b = f[n]
      BY <1>2
    <3>2. b \o a \in Seq(S)
      OBVIOUS
    <3> QED
      BY <3>1, <3>2
  <2> DEFINE g == [i \in 0 .. (n + 1) |-> IF i = n + 1 THEN x ELSE f[i]]
  <2>4. g \in [0 .. (n + 1) -> Seq(S)]
    OBVIOUS
  <2>5. ASSUME NEW i \in 0 .. (n + 1) PROVE g[i] = Body(g, i)
    <3>1. CASE i = n + 1
      <4>1. g[i] = x /\ i - 1 = n /\ g[n] = f[n] /\ i # 0
        BY <3>1
      <4> HIDE DEF g
      <4>2. g[i - 1] \o p[i] = f[n] \o p[n + 1]
        BY <3>1, <4>1
      <4> QED
        BY <2>2, <4>1, <4>2, Zenon
    <3>2. CASE i = 0
      <4>1. g[0] = f[0] /\ 0 \in 0 .. n
        OBVIOUS
      <4>2. f[0] = <<>>
        BY <2>1, <4>1
      <4> HIDE DEF g
      <4> QED
        BY <3>2, <4>1, <4>2
    <3>3. CASE i # 0 /\ i # n + 1
      <4>1. i \in 0 .. n /\ i - 1 \in 0 .. n /\ g[i] = f[i] /\ g[i - 1] = f[i - 1]
        BY <3>3
      <4> HIDE DEF g
      <4> QED
        BY <2>1, <3>3, <4>1
    <3> QED
      BY <3>1, <3>2, <3>3
  <2> HIDE DEF g
  <2> QED
    BY <2>4, <2>5
<1>3. Ok(Len(p))
  <2> DEFINE T == {n \in Nat : n <= Len(p) => Ok(n)}
  <2> HIDE DEF Ok
  <2>1. 0 \in T
    BY <1>1
  <2>2. ASSUME NEW n \in T PROVE n + 1 \in T
    BY <1>0, <1>2, <2>2
  <2>3. T = Nat
    <3> HIDE DEF T
    <3>1. T \in SUBSET Nat
      BY DEF T
    <3> QED
      BY <2>1, <2>2, <3>1, SetInduction
  <2> QED
    BY <1>0, <2>3
<1>4. P = [i \in 0 .. Len(p) |-> Body(P, i)]
  <2>1. PICK f \in [0 .. Len(p) -> Seq(S)] : \A i \in 0 .. Len(p) : f[i] = Body(f, i)
    BY <1>3
  <2>2. f = [i \in 0 .. Len(p) |-> Body(f, i)]
    BY <2>1
  <2> QED
    BY <2>2, Zenon DEF FlatTo
<1>5. \A i \in 0 .. Len(p) : P[i] = Body(P, i)
  BY <1>4
<1> HIDE DEF P
<1>a. P[0] = <<>>
  BY <1>0, <1>5
<1>b. ASSUME NEW i \in Nat, i + 1 <= Len(p) PROVE P[i + 1] = P[i] \o p[i + 1]
  <2>1. i + 1 \in 0 .. Len(p) /\ i + 1 # 0 /\ (i + 1) - 1 = i
    BY <1>0, <1>b
  <2>2. P[i + 1] = P[(i + 1) - 1] \o p[i + 1]
    BY <1>5, <2>1
  <2> QED
    BY <2>1, <2>2
<1>6. \A n \in Nat : n <= Len(p) => P[n] \in Seq(S)
  <2> DEFINE T == {n \in Nat : n <= Len(p) => P[n] \in Seq(S)}
  <2>1. 0 \in T
    <3>2. <<>> \in Seq(S)
      OBVIOUS
    <3>3. P[0] \in Seq(S)
      BY <1>a, <3>2, Zenon
    <3> QED
      BY <3>3
  <2>2. ASSUME NEW n \in T PROVE n + 1 \in T
    <3> SUFFICES ASSUME n + 1 <= Len(p) PROVE P[n + 1] \in Seq(S)
      BY <2>2
    <3>1. n \in Nat /\ n + 1 \in 1 .. Len(p) /\ P[n] \in Seq(S)
      BY <1>0, <2>2
    <3>2. PICK a \in Seq(S), b \in Seq(S) : a = p[n + 1] /\ b = P[n]
      BY <3>1
    <3>3. b \o a \in Seq(S)
      OBVIOUS
    <3>4. P[n + 1] = b \o a
      BY <1>b, <3>1, <3>2
    <3> QED
      BY <3>3, <3>4
  <2>3. T = Nat
    <3> HIDE DEF T
    <3>1. T \in SUBSET Nat
      BY DEF T
    <3> QED
      BY <2>1, <2>2, <3>1, SetInduction
  <2> QED
    BY <2>3
<1>7. P \in [0 .. Len(p) -> Seq(S)]
  BY <1>0, <1>4, <1>6
<1> QED
  BY <1>a, <1>b, <1>7 DEF P

\* The lists one after the other have the elements of the lists.
LEMMA FlatProperties ==
  ASSUME NEW S, NEW p \in Seq(Seq(S))
  PROVE  /\ Flat(p) \in Seq(S) /\ Elems(Flat(p)) = Contents(p)
         /\ Scattered(p) => Distinct(Flat(p))
<1> DEFINE First(n) == UNION {Elems(p[k]) : k \in 1 .. n}
           Good(n) == /\ Elems(FlatTo(p)[n]) = First(n)
                      /\ Scattered(p) => Distinct(FlatTo(p)[n])
           T == {n \in Nat : n <= Len(p) => Good(n)}
<1>0. Len(p) \in Nat /\ DOMAIN p = 1 .. Len(p)
  OBVIOUS
<1>1. /\ FlatTo(p) \in [0 .. Len(p) -> Seq(S)] /\ FlatTo(p)[0] = <<>>
      /\ \A i \in Nat : i + 1 <= Len(p) => FlatTo(p)[i + 1] = FlatTo(p)[i] \o p[i + 1]
  BY FlatToDef
<1>2. Good(0)
  BY <1>1 DEF Elems, Distinct
<1>3. ASSUME NEW n \in Nat, n + 1 <= Len(p), Good(n) PROVE Good(n + 1)
  <2>1. n \in 0 .. Len(p) /\ n + 1 \in DOMAIN p /\ p[n + 1] \in Seq(S)
    BY <1>0, <1>3
  <2>2. PICK s \in Seq(S) : s = FlatTo(p)[n] /\ Elems(s) = First(n) /\ (Scattered(p) => Distinct(s))
    BY <1>1, <1>3, <2>1
  <2>3. PICK k \in Nat : k = Len(p[n + 1])
    BY <2>1
  <2>4. PICK t \in [1 .. k -> S] : t = p[n + 1] /\ DOMAIN t = 1 .. k
    BY <2>1, <2>3
  <2>5. FlatTo(p)[n + 1] = s \o t
    BY <1>1, <1>3, <2>2, <2>4
  <2>6. Elems(p[n + 1]) = {t[i] : i \in 1 .. k}
    BY <2>4 DEF Elems
  <2>7. First(n + 1) = First(n) \cup Elems(p[n + 1])
    <3>1. 1 .. (n + 1) = (1 .. n) \cup {n + 1}
      OBVIOUS
    <3> QED
      BY <3>1, Zenon
  <2>8. Elems(s \o t) = First(n + 1)
    <3>1. Elems(s \o t) = Elems(s) \cup {t[i] : i \in 1 .. k}
      BY ConcatElems
    <3> HIDE DEF First
    <3> QED
      BY <2>2, <2>6, <2>7, <3>1
  <2>9. ASSUME Scattered(p) PROVE Distinct(s \o t)
    <3>1. ASSUME NEW i \in 1 .. k, NEW j \in 1 .. k, t[i] = t[j] PROVE i = j
      BY <2>1, <2>4, <2>9, <3>1 DEF Scattered
    <3>2. ASSUME NEW i \in 1 .. k, t[i] \in Elems(s) PROVE FALSE
      <4>1. PICK l \in 1 .. n : t[i] \in Elems(p[l])
        BY <2>2, <3>2
      <4>2. PICK m \in DOMAIN p[l] : p[l][m] = p[n + 1][i]
        BY <2>4, <4>1 DEF Elems
      <4>3. l \in DOMAIN p /\ i \in DOMAIN p[n + 1] /\ l # n + 1
        BY <1>0, <1>3, <2>4
      <4> QED
        BY <2>1, <2>9, <4>2, <4>3 DEF Scattered
    <3> HIDE DEF First
    <3>3. /\ Distinct(s) /\ \A i, j \in 1 .. k : t[i] = t[j] => i = j
          /\ \A i \in 1 .. k : t[i] \notin Elems(s)
      BY <2>2, <2>9, <3>1, <3>2
    <3> QED
      BY <3>3, ConcatElems
  <2> QED
    BY <2>5, <2>8, <2>9
<1>4. T = Nat
  <2> HIDE DEF Good
  <2>1. 0 \in T
    BY <1>2
  <2>2. ASSUME NEW n \in T PROVE n + 1 \in T
    BY <1>0, <1>3, <2>2
  <2> HIDE DEF T
  <2>3. T \in SUBSET Nat
    BY DEF T
  <2> QED
    BY <2>1, <2>2, <2>3, SetInduction
<1>5. Good(Len(p))
  <2> HIDE DEF Good
  <2> QED
    BY <1>0, <1>4
<1>6. First(Len(p)) = Contents(p)
  BY <1>0 DEF Contents
<1>7. Flat(p) \in Seq(S)
  BY <1>0, <1>1 DEF Flat
<1> QED
  BY <1>5, <1>6, <1>7 DEF Flat

\* What is left of a list is in the order of the list.
LEMMA WithoutOrder ==
  ASSUME NEW S, NEW s \in Seq(S), NEW gone
  PROVE  \E h \in [DOMAIN Without(s, gone) -> DOMAIN s] :
           /\ \A i \in DOMAIN Without(s, gone) : Without(s, gone)[i] = s[h[i]]
           /\ \A i, j \in DOMAIN Without(s, gone) : i < j => h[i] < h[j]
<1> DEFINE P == Remainders(s, gone)
           Good(n) == \E h \in [DOMAIN P[n] -> 1 .. n] :
                        /\ \A i \in DOMAIN P[n] : P[n][i] = s[h[i]]
                        /\ \A i, j \in DOMAIN P[n] : i < j => h[i] < h[j]
           T == {n \in Nat : n <= Len(s) => Good(n)}
<1>0. Len(s) \in Nat /\ DOMAIN s = 1 .. Len(s)
  OBVIOUS
<1>1. /\ P \in [0 .. Len(s) -> Seq(S)]
      /\ \A i \in 0 .. Len(s) :
           P[i] = IF i = 0 THEN <<>>
                  ELSE IF s[i] \in gone THEN P[i - 1] ELSE Append(P[i - 1], s[i])
  BY RemaindersDef
<1> HIDE DEF P
<1>2. Good(0)
  <2>1. P[0] = <<>>
    BY <1>0, <1>1
  <2>2. DOMAIN P[0] = {}
    BY <2>1
  <2>3. PICK h : h = [i \in {} |-> 1]
    OBVIOUS
  <2>4. h \in [{} -> 1 .. 0]
    BY <2>3
  <2> QED
    BY <2>2, <2>4
<1>3. ASSUME NEW n \in Nat, n + 1 <= Len(s), Good(n) PROVE Good(n + 1)
  <2>1. n \in 0 .. Len(s) /\ n + 1 \in 0 .. Len(s) /\ n + 1 \in 1 .. Len(s)
    BY <1>0, <1>3
  <2>2. P[n + 1] = IF s[n + 1] \in gone THEN P[n] ELSE Append(P[n], s[n + 1])
    <3>1. n + 1 # 0 /\ (n + 1) - 1 = n
      OBVIOUS
    <3>2. P[n + 1] = IF s[n + 1] \in gone THEN P[(n + 1) - 1]
                                         ELSE Append(P[(n + 1) - 1], s[n + 1])
      BY <1>1, <2>1, <3>1
    <3> QED
      BY <3>1, <3>2
  <2>3. PICK q \in Seq(S) : q = P[n]
    BY <1>1, <2>1
  <2>4. PICK h \in [DOMAIN q -> 1 .. n] :
          /\ \A i \in DOMAIN q : q[i] = s[h[i]]
          /\ \A i, j \in DOMAIN q : i < j => h[i] < h[j]
    BY <1>3, <2>3
  <2>5. CASE s[n + 1] \in gone
    <3>1. P[n + 1] = q
      BY <2>2, <2>3, <2>5
    <3>2. h \in [DOMAIN q -> 1 .. (n + 1)]
      OBVIOUS
    <3> QED
      BY <2>4, <3>1, <3>2
  <2>6. CASE s[n + 1] \notin gone
    <3>1. PICK x \in S : x = s[n + 1]
      BY <2>1
    <3>2. P[n + 1] = Append(q, x)
      BY <2>2, <2>3, <2>6, <3>1
    <3>3. PICK m \in Nat : m = Len(q) /\ DOMAIN q = 1 .. m
      OBVIOUS
    <3>4. /\ DOMAIN Append(q, x) = 1 .. (m + 1) /\ Append(q, x)[m + 1] = x
          /\ \A i \in 1 .. m : Append(q, x)[i] = q[i]
      BY <3>3
    <3>5. PICK g \in [1 .. (m + 1) -> 1 .. (n + 1)] :
            \A i \in 1 .. (m + 1) : g[i] = IF i = m + 1 THEN n + 1 ELSE h[i]
      <4> DEFINE g == [i \in 1 .. (m + 1) |-> IF i = m + 1 THEN n + 1 ELSE h[i]]
      <4>1. ASSUME NEW i \in 1 .. (m + 1) PROVE (IF i = m + 1 THEN n + 1 ELSE h[i]) \in 1 .. (n + 1)
        <5>1. CASE i = m + 1
          BY <5>1
        <5>2. CASE i # m + 1
          <6>1. i \in DOMAIN q
            BY <3>3, <5>2
          <6>2. h[i] \in 1 .. n
            BY <6>1
          <6> QED
            BY <5>2, <6>2
        <5> QED
          BY <5>1, <5>2
      <4>2. g \in [1 .. (m + 1) -> 1 .. (n + 1)]
        BY <4>1
      <4>3. \A i \in 1 .. (m + 1) : g[i] = IF i = m + 1 THEN n + 1 ELSE h[i]
        OBVIOUS
      <4> HIDE DEF g
      <4> QED
        BY <4>2, <4>3
    <3>6. ASSUME NEW i \in 1 .. (m + 1) PROVE Append(q, x)[i] = s[g[i]]
      <4>1. CASE i = m + 1
        BY <3>1, <3>4, <3>5, <4>1
      <4>2. CASE i # m + 1
        <5>1. i \in 1 .. m
          BY <4>2
        <5> QED
          BY <2>4, <3>3, <3>4, <3>5, <4>2, <5>1
      <4> QED
        BY <4>1, <4>2
    <3>7. ASSUME NEW i \in 1 .. (m + 1), NEW j \in 1 .. (m + 1), i < j PROVE g[i] < g[j]
      <4>0. i \in 1 .. m /\ i # m + 1
        BY <3>7
      <4>1. g[i] = h[i] /\ h[i] \in 1 .. n
        BY <3>3, <3>5, <4>0
      <4>2. CASE j = m + 1
        BY <3>5, <4>1, <4>2
      <4>3. CASE j # m + 1
        <5>1. j \in 1 .. m /\ g[j] = h[j]
          BY <3>5, <4>3
        <5> QED
          BY <2>4, <3>3, <3>7, <4>0, <4>1, <5>1
      <4> QED
        BY <4>2, <4>3
    <3> QED
      BY <3>2, <3>4, <3>6, <3>7
  <2> QED
    BY <2>5, <2>6
<1>4. T = Nat
  <2> HIDE DEF Good
  <2>1. 0 \in T
    BY <1>2
  <2>2. ASSUME NEW n \in T PROVE n + 1 \in T
    BY <1>0, <1>3, <2>2
  <2> HIDE DEF T
  <2>3. T \in SUBSET Nat
    BY DEF T
  <2> QED
    BY <2>1, <2>2, <2>3, SetInduction
<1>5. Good(Len(s))
  <2> HIDE DEF Good
  <2> QED
    BY <1>0, <1>4
<1>6. Without(s, gone) = P[Len(s)]
  BY DEF Without, P
<1> QED
  BY <1>0, <1>5, <1>6

\* A list is put behind lists.
LEMMA AppendList ==
  ASSUME NEW S, NEW p \in Seq(Seq(S)), NEW e \in Seq(S)
  PROVE  /\ Append(p, e) \in Seq(Seq(S)) /\ Contents(Append(p, e)) = Contents(p) \cup Elems(e)
         /\ Elems(Append(p, e)) = Elems(p) \cup {e}
         /\ Scattered(p) /\ Distinct(e) /\ Elems(e) \cap Contents(p) = {} => Scattered(Append(p, e))
<1> DEFINE q == Append(p, e)
<1>1. /\ q \in Seq(Seq(S)) /\ DOMAIN q = DOMAIN p \cup {Len(p) + 1} /\ Len(p) + 1 \notin DOMAIN p
      /\ q[Len(p) + 1] = e /\ \A k \in DOMAIN p : q[k] = p[k]
  OBVIOUS
<1> HIDE DEF q
<1>2. Contents(q) = Contents(p) \cup Elems(e)
  BY <1>1 DEF Contents
<1>3. Elems(q) = Elems(p) \cup {e}
  BY <1>1 DEF Elems
<1>4. ASSUME Scattered(p), Distinct(e), Elems(e) \cap Contents(p) = {} PROVE Scattered(q)
  <2> SUFFICES ASSUME NEW k \in DOMAIN q, NEW l \in DOMAIN q, NEW m \in DOMAIN q[k], NEW n \in DOMAIN q[l], q[k][m] = q[l][n]
               PROVE  k = l /\ m = n
    BY DEF Scattered
  <2>1. ASSUME NEW i \in DOMAIN p, NEW j \in DOMAIN p[i], NEW o \in DOMAIN e PROVE p[i][j] # e[o]
    <3>1. p[i][j] \in Elems(p[i]) /\ e[o] \in Elems(e)
      BY DEF Elems
    <3>2. Elems(p[i]) \subseteq Contents(p)
      BY DEF Contents
    <3> QED
      BY <1>4, <3>1, <3>2
  <2>2. CASE k \in DOMAIN p /\ l \in DOMAIN p
    BY <1>1, <1>4, <2>2 DEF Scattered
  <2>3. CASE k = Len(p) + 1 /\ l = Len(p) + 1
    BY <1>1, <1>4, <2>3 DEF Distinct
  <2>4. CASE k \in DOMAIN p /\ l = Len(p) + 1
    BY <1>1, <2>1, <2>4
  <2>5. CASE k = Len(p) + 1 /\ l \in DOMAIN p
    BY <1>1, <2>1, <2>5
  <2> QED
    BY <1>1, <2>2, <2>3, <2>4, <2>5
<1> QED
  BY <1>1, <1>2, <1>3, <1>4 DEF q

\* The first of the lists is taken away.
LEMMA TailList ==
  ASSUME NEW S, NEW p \in Seq(Seq(S)), p # <<>>
  PROVE  /\ Tail(p) \in Seq(Seq(S)) /\ Head(p) \in Seq(S) /\ Head(p) = p[1] /\ 1 \in DOMAIN p
         /\ \A k \in DOMAIN Tail(p) : k \in Nat /\ k >= 1 /\ k + 1 \in DOMAIN p /\ Tail(p)[k] = p[k + 1]
         /\ Elems(p) = Elems(Tail(p)) \cup {Head(p)}
         /\ Contents(p) = Contents(Tail(p)) \cup Elems(Head(p))
         /\ Scattered(p) => Scattered(Tail(p)) /\ Distinct(Head(p)) /\ Elems(Head(p)) \cap Contents(Tail(p)) = {}
<1> DEFINE q == Tail(p)
<1>1. /\ q \in Seq(Seq(S)) /\ Head(p) \in Seq(S) /\ Head(p) = p[1] /\ 1 \in DOMAIN p
      /\ \A k \in DOMAIN q : k \in Nat /\ k >= 1 /\ k + 1 \in DOMAIN p /\ q[k] = p[k + 1]
  BY TailWork
<1>2. \A k \in DOMAIN p : k = 1 \/ (k - 1 \in DOMAIN q /\ q[k - 1] = p[k])
  OBVIOUS
<1> HIDE DEF q
<1>3. Contents(p) = Contents(q) \cup Elems(p[1])
  <2>1. ASSUME NEW k \in DOMAIN p PROVE Elems(p[k]) \subseteq Contents(q) \cup Elems(p[1])
    BY <1>2 DEF Contents
  <2>2. ASSUME NEW k \in DOMAIN q PROVE Elems(q[k]) \subseteq Contents(p)
    BY <1>1 DEF Contents
  <2>3. Elems(p[1]) \subseteq Contents(p)
    BY <1>1 DEF Contents
  <2> QED
    BY <2>1, <2>2, <2>3 DEF Contents
<1>4. Elems(p) = Elems(q) \cup {p[1]}
  <2>1. ASSUME NEW k \in DOMAIN p PROVE p[k] \in Elems(q) \cup {p[1]}
    BY <1>2 DEF Elems
  <2>2. ASSUME NEW k \in DOMAIN q PROVE q[k] \in Elems(p)
    BY <1>1 DEF Elems
  <2>3. p[1] \in Elems(p)
    BY <1>1 DEF Elems
  <2> QED
    BY <2>1, <2>2, <2>3 DEF Elems
<1>5. ASSUME Scattered(p) PROVE Scattered(q) /\ Distinct(p[1]) /\ Elems(p[1]) \cap Contents(q) = {}
  <2>1. Distinct(p[1])
    BY <1>1, <1>5 DEF Scattered, Distinct
  <2>2. ASSUME NEW k \in DOMAIN q, NEW l \in DOMAIN q, NEW m \in DOMAIN q[k], NEW n \in DOMAIN q[l], q[k][m] = q[l][n]
        PROVE  k = l /\ m = n
    <3>1. k + 1 = l + 1 /\ m = n
      BY <1>1, <1>5, <2>2 DEF Scattered
    <3> QED
      BY <1>1, <3>1
  <2>3. ASSUME NEW k \in DOMAIN q, NEW m \in DOMAIN q[k], NEW n \in DOMAIN p[1], q[k][m] = p[1][n]
        PROVE  FALSE
    <3>1. k + 1 = 1
      BY <1>1, <1>5, <2>3 DEF Scattered
    <3> QED
      BY <1>1, <3>1
  <2>4. Elems(p[1]) \cap Contents(q) = {}
    BY <2>3 DEF Elems, Contents
  <2> QED
    BY <2>1, <2>2, <2>4 DEF Scattered
<1> QED
  BY <1>1, <1>3, <1>4, <1>5 DEF q

\* One of several lists is replaced.
Replaced(S, D, q, p, t, e) ==
  /\ p \in [D -> Seq(S)] /\ t \in D /\ e \in Seq(S) /\ q = [p EXCEPT ![t] = e] /\ Scattered(p) /\ Distinct(e)
  /\ Elems(e) \cap Contents(p) \subseteq Elems(p[t])

LEMMA ReplaceList ==
  ASSUME NEW S, NEW D, NEW p, NEW t, NEW e, NEW q, Replaced(S, D, q, p, t, e)
  PROVE  q \in [D -> Seq(S)] /\ Scattered(q) /\ Contents(q) = (Contents(p) \ Elems(p[t])) \cup Elems(e)
<1>1. q \in [D -> Seq(S)] /\ DOMAIN p = D /\ DOMAIN q = D /\ q[t] = e /\ \A u \in D : u # t => q[u] = p[u]
  BY DEF Replaced
<1>a. t \in D /\ Scattered(p) /\ Distinct(e) /\ Elems(e) \cap Contents(p) \subseteq Elems(p[t])
  BY DEF Replaced
<1>2. ASSUME NEW u \in D, u # t PROVE Elems(p[u]) \cap Elems(p[t]) = {} /\ Elems(p[u]) \cap Elems(e) = {}
  <2>1. Elems(p[u]) \cap Elems(p[t]) = {}
    BY <1>1, <1>2, <1>a DEF Scattered, Elems
  <2>2. Elems(p[u]) \subseteq Contents(p)
    BY <1>1, <1>a DEF Contents
  <2> QED
    BY <1>a, <2>1, <2>2
<1>3. Contents(q) = (Contents(p) \ Elems(p[t])) \cup Elems(e)
  <2>1. ASSUME NEW u \in D PROVE Elems(q[u]) \subseteq (Contents(p) \ Elems(p[t])) \cup Elems(e)
    <3>1. CASE u = t
      BY <1>1, <1>a, <3>1
    <3>2. CASE u # t
      <4>1. Elems(p[u]) \subseteq Contents(p)
        BY <1>1, <1>a DEF Contents
      <4> QED
        BY <1>1, <1>2, <3>2, <4>1
    <3> QED
      BY <3>1, <3>2
  <2>2. ASSUME NEW u \in D, NEW x \in Elems(p[u]), x \notin Elems(p[t]) PROVE x \in Contents(q)
    <3>1. u # t /\ x \in Elems(q[u])
      BY <1>1, <2>2
    <3> QED
      BY <1>1, <1>a, <3>1 DEF Contents
  <2>3. Elems(e) \subseteq Contents(q)
    BY <1>1, <1>a DEF Contents
  <2>4. Contents(p) \ Elems(p[t]) \subseteq Contents(q)
    BY <1>1, <2>2 DEF Contents
  <2>5. Contents(q) \subseteq (Contents(p) \ Elems(p[t])) \cup Elems(e)
    BY <1>1, <2>1 DEF Contents
  <2> QED
    BY <2>3, <2>4, <2>5
<1>4. Scattered(q)
  <2> SUFFICES ASSUME NEW k \in D, NEW l \in D, NEW m \in DOMAIN q[k], NEW n \in DOMAIN q[l], q[k][m] = q[l][n]
               PROVE  k = l /\ m = n
    BY <1>1, <1>a DEF Scattered
  <2>1. CASE k # t /\ l # t
    BY <1>1, <1>a, <2>1 DEF Scattered
  <2>2. CASE k = t /\ l = t
    BY <1>1, <1>a, <2>2 DEF Distinct
  <2>a. q[k][m] \in Elems(q[k]) /\ q[l][n] \in Elems(q[l])
    BY DEF Elems
  <2>3. CASE k = t /\ l # t
    BY <1>1, <1>2, <2>a, <2>3
  <2>4. CASE k # t /\ l = t
    BY <1>1, <1>2, <2>a, <2>4
  <2> QED
    BY <2>1, <2>2, <2>3, <2>4
<1> QED
  BY <1>1, <1>3, <1>4

LEMMA OneOfLists ==
  ASSUME NEW p, NEW t \in DOMAIN p
  PROVE  Elems(p[t]) \subseteq Contents(p) /\ (Scattered(p) => Distinct(p[t]))
  BY DEF Contents, Scattered, Distinct

\* Some of the lists are erased.
LEMMA ErasedList ==
  ASSUME NEW S, NEW p \in Seq(Seq(S)), NEW gone
  PROVE  /\ Without(p, gone) \in Seq(Seq(S)) /\ Elems(Without(p, gone)) = Elems(p) \ gone
         /\ Scattered(p) => Scattered(Without(p, gone))
<1>1. PICK w \in Seq(Seq(S)) : w = Without(p, gone) /\ Elems(w) = Elems(p) \ gone
  BY WithoutProperties
<1>2. PICK h \in [DOMAIN Without(p, gone) -> DOMAIN p] :
        /\ \A i \in DOMAIN Without(p, gone) : Without(p, gone)[i] = p[h[i]]
        /\ \A i, j \in DOMAIN Without(p, gone) : i < j => h[i] < h[j]
  BY WithoutOrder
<1>3. /\ h \in [DOMAIN w -> DOMAIN p] /\ \A i \in DOMAIN w : w[i] = p[h[i]]
      /\ \A i, j \in DOMAIN w : i < j => h[i] < h[j]
  BY <1>1, <1>2
<1>4. (\A i \in DOMAIN w : i \in Int) /\ (\A i \in DOMAIN p : i \in Int)
  OBVIOUS
<1>5. ASSUME Scattered(p),
             NEW k \in DOMAIN w, NEW l \in DOMAIN w, NEW m \in DOMAIN w[k], NEW n \in DOMAIN w[l], w[k][m] = w[l][n]
      PROVE  k = l /\ m = n
  <2>1. h[k] = h[l] /\ m = n
    BY <1>3, <1>5 DEF Scattered
  <2>2. k \in Int /\ l \in Int /\ h[k] \in Int /\ h[l] \in Int
    BY <1>3, <1>4
  <2>3. (k < l => h[k] < h[l]) /\ (l < k => h[l] < h[k])
    BY <1>3
  <2> QED
    BY <2>1, <2>2, <2>3
<1> QED
  BY <1>1, <1>5 DEF Scattered

\* An element tells the list it is in.
LEMMA ListOfElement ==
  ASSUME NEW p, Scattered(p), NEW q \in Elems(p), NEW r \in Elems(p), NEW x \in Elems(q), x \in Elems(r)
  PROVE  q = r
<1>1. PICK k \in DOMAIN p, l \in DOMAIN p : q = p[k] /\ r = p[l]
  BY DEF Elems
<1>2. PICK m \in DOMAIN q, n \in DOMAIN r : x = q[m] /\ x = r[n]
  BY DEF Elems
<1>3. m \in DOMAIN p[k] /\ n \in DOMAIN p[l] /\ p[k][m] = p[l][n]
  BY <1>1, <1>2
<1>4. k = l
  BY <1>3, Zenon DEF Scattered
<1> QED
  BY <1>1, <1>4

\* A part of a list.
LEMMA SliceFacts ==
  ASSUME NEW S, NEW s \in Seq(S), NEW m \in Nat, NEW n \in Nat, m <= n, n <= Len(s)
  PROVE  LET t == SubSeq(s, m + 1, n) IN
         t \in Seq(S) /\ Len(t) = n - m /\ DOMAIN t = 1 .. (n - m) /\ \A i \in 1 .. (n - m) : m + i \in DOMAIN s /\ t[i] = s[m + i]
<1> DEFINE t == SubSeq(s, m + 1, n)
<1>1. t \in Seq(S) /\ Len(t) = n - m
  OBVIOUS
<1>2. \A i \in 1 .. (n - m) : m + i \in DOMAIN s /\ t[i] = s[m + i]
  OBVIOUS
<1>3. DOMAIN t = 1 .. (n - m)
  BY <1>1
<1> QED
  BY <1>1, <1>2, <1>3

\* A list is cut in two.
LEMMA CutList ==
  ASSUME NEW S, NEW s \in Seq(S), NEW n \in Nat, n <= Len(s)
  PROVE  LET a == SubSeq(s, 1, n)
             b == SubSeq(s, n + 1, Len(s))
         IN /\ a \in Seq(S) /\ b \in Seq(S) /\ Len(a) = n /\ Elems(s) = Elems(a) \cup Elems(b)
            /\ \A i \in DOMAIN a : i \in DOMAIN s /\ a[i] = s[i] /\ i <= n
            /\ \A i \in DOMAIN b : i \in Nat /\ i >= 1 /\ n + i \in DOMAIN s /\ b[i] = s[n + i]
            /\ Distinct(s) => Distinct(a) /\ Distinct(b) /\ Elems(a) \cap Elems(b) = {}
<1> DEFINE a == SubSeq(s, 1, n)
           b == SubSeq(s, n + 1, Len(s))
<1>0. Len(s) \in Nat /\ DOMAIN s = 1 .. Len(s)
  OBVIOUS
<1>1. a \in Seq(S) /\ Len(a) = n /\ DOMAIN a = 1 .. n /\ \A i \in 1 .. n : i \in DOMAIN s /\ a[i] = s[i] /\ i <= n
  <2>1. 0 + 1 = 1 /\ n - 0 = n /\ \A i \in 1 .. n : 0 + i = i
    OBVIOUS
  <2> QED
    BY <2>1, SliceFacts
<1>2. /\ b \in Seq(S) /\ DOMAIN b = 1 .. (Len(s) - n)
      /\ \A i \in 1 .. (Len(s) - n) : i \in Nat /\ i >= 1 /\ n + i \in DOMAIN s /\ b[i] = s[n + i]
  BY <1>0, SliceFacts
<1> HIDE DEF a, b
<1>3. \A i \in DOMAIN s : i \in 1 .. n \/ i - n \in 1 .. (Len(s) - n)
  BY <1>0
<1>4. Elems(s) = Elems(a) \cup Elems(b)
  <2>1. ASSUME NEW i \in DOMAIN s PROVE s[i] \in Elems(a) \cup Elems(b)
    <3>1. CASE i \in 1 .. n
      BY <1>1, <3>1 DEF Elems
    <3>2. CASE i - n \in 1 .. (Len(s) - n)
      <4>1. n + (i - n) = i
        BY <1>0
      <4>2. b[i - n] = s[i]
        BY <1>2, <3>2, <4>1
      <4> QED
        BY <1>2, <3>2, <4>2 DEF Elems
    <3> QED
      BY <1>3, <3>1, <3>2
  <2>2. Elems(a) \subseteq Elems(s)
    BY <1>1 DEF Elems
  <2>3. Elems(b) \subseteq Elems(s)
    BY <1>2 DEF Elems
  <2>4. Elems(s) \subseteq Elems(a) \cup Elems(b)
    BY <2>1 DEF Elems
  <2> QED
    BY <2>2, <2>3, <2>4
<1>5. ASSUME Distinct(s) PROVE Distinct(a) /\ Distinct(b) /\ Elems(a) \cap Elems(b) = {}
  <2>1. Distinct(a)
    BY <1>1, <1>5 DEF Distinct
  <2>2. ASSUME NEW i \in DOMAIN b, NEW j \in DOMAIN b, b[i] = b[j] PROVE i = j
    <3>1. n + i = n + j
      BY <1>2, <1>5, <2>2 DEF Distinct
    <3> QED
      BY <1>2, <3>1
  <2>3. ASSUME NEW i \in DOMAIN a, NEW j \in DOMAIN b, a[i] = b[j] PROVE FALSE
    <3>1. i = n + j
      BY <1>1, <1>2, <1>5, <2>3 DEF Distinct
    <3> QED
      BY <1>1, <1>2, <3>1
  <2> QED
    BY <2>1, <2>2, <2>3 DEF Distinct, Elems
<1> QED
  BY <1>1, <1>2, <1>4, <1>5 DEF a, b

\* The elements of the lists are the elements of one of them.
LEMMA ContentsOf ==
  ASSUME NEW p
  PROVE  \A x : x \in Contents(p) <=> \E q \in Elems(p) : x \in Elems(q)
<1> DEFINE E(q) == Elems(q)
<1>1. Contents(p) = UNION {E(p[k]) : k \in DOMAIN p} /\ Elems(p) = {p[k] : k \in DOMAIN p} /\ \A q : E(q) = Elems(q)
  <2>1. Elems(p) = {p[k] : k \in DOMAIN p}
    BY DEF Elems
  <2> QED
    BY <2>1 DEF Contents
<1> HIDE DEF E
<1> QED
  BY <1>1

\* A number below the modulus.
LEMMA ModSmall ==
  ASSUME NEW a \in Nat, NEW M \in Nat, a < M
  PROVE  a % M = a
  OBVIOUS

-----------------------------------------------------------------------------
(* A list in parts *)

\* Multiples of B are B apart.
LEMMA MultiplesApart ==
  ASSUME NEW a \in Int, NEW b \in Int, NEW B \in Nat, a < b
  PROVE  a * B + B <= b * B /\ a * B \in Int /\ b * B \in Int
<1>1. PICK d \in Nat : b = a + 1 + d
  <2>1. b - a - 1 \in Nat /\ b = a + 1 + (b - a - 1)
    OBVIOUS
  <2> QED
    BY <2>1
<1>2. b * B = a * B + B + d * B
  BY <1>1
<1>3. d * B >= 0 /\ d * B \in Int /\ a * B \in Int
  OBVIOUS
<1> QED
  BY <1>2, <1>3

\* Parts of a list of n elements: enough of them, and each begins in the list.
LEMMA EnoughParts ==
  ASSUME NEW n \in Nat, NEW B \in Nat, B > 0
  PROVE  LET K == (n + B - 1) \div B IN
         /\ K \in Nat /\ n <= K * B /\ \A k \in 1 .. K : (k - 1) * B \in Nat /\ (k - 1) * B < n
<1>0. B \in Nat /\ B > 0
  OBVIOUS
<1>1. PICK m \in Nat : m = n + B - 1
  BY <1>0
<1>2. PICK K \in Nat : K = m \div B /\ K * B <= m /\ m < K * B + B
  <2>1. m \div B \in Nat /\ (m \div B) * B <= m /\ m < (m \div B) * B + B
    BY <1>0
  <2> QED
    BY <2>1
<1>3. K * B \in Nat /\ n <= K * B
  BY <1>0, <1>1, <1>2
<1>4. ASSUME NEW k \in 1 .. K PROVE (k - 1) * B \in Nat /\ (k - 1) * B < n
  <2>1. k - 1 \in Nat /\ k - 1 < K
    BY <1>2
  <2>2. (k - 1) * B \in Nat
    BY <2>1
  <2>3. (k - 1) * B + B <= K * B
    BY <2>1, MultiplesApart
  <2> QED
    BY <1>0, <1>1, <1>2, <1>3, <2>2, <2>3
<1> QED
  BY <1>0, <1>1, <1>2, <1>3, <1>4

\* The parts hold the elements of the list, each of them once, and fit.
LEMMA PartsFacts ==
  ASSUME NEW S, NEW s \in Seq(S), NEW B \in Nat, B > 0
  PROVE  LET p == Parts(s, B) IN
         /\ p \in Seq(Seq(S)) /\ Contents(p) = Elems(s) /\ (Distinct(s) => Scattered(p))
         /\ \A q \in Elems(p) : Len(q) \in 1 .. B
<1> DEFINE p == Parts(s, B)
<1>0. B \in Nat /\ B > 0
  OBVIOUS
<1>1. PICK N \in Nat : N = Len(s) /\ DOMAIN s = 1 .. N
  OBVIOUS
<1>2. PICK K \in Nat : /\ K = (N + B - 1) \div B /\ N <= K * B
                       /\ \A k \in 1 .. K : (k - 1) * B \in Nat /\ (k - 1) * B < N
  BY <1>0, EnoughParts
<1>3. p = [k \in 1 .. K |-> SubSeq(s, (k - 1) * B + 1, Least(k * B, N))]
  BY <1>0, <1>1, <1>2 DEF Parts
<1>4. ASSUME NEW k \in 1 .. K
      PROVE  /\ p[k] \in Seq(S) /\ Len(p[k]) \in 1 .. B /\ DOMAIN p[k] = 1 .. Len(p[k])
             /\ \A i \in DOMAIN p[k] : (k - 1) * B + i \in DOMAIN s /\ p[k][i] = s[(k - 1) * B + i]
             /\ \A i \in 1 .. B : (k - 1) * B + i <= N => i \in DOMAIN p[k]
  <2>1. PICK m \in Nat : m = (k - 1) * B /\ m < N
    BY <1>2
  <2>2. k * B = m + B
    <3>1. (k - 1) * B = k * B - B
      OBVIOUS
    <3> QED
      BY <2>1, <3>1
  <2>3. PICK n \in Nat : n = Least(m + B, N) /\ n <= N /\ n <= m + B /\ m < n /\ (n = N \/ n = m + B)
    <3>1. CASE m + B < N
      <4>1. Least(m + B, N) = m + B
        BY <3>1 DEF Least
      <4> QED
        BY <1>0, <3>1, <4>1
    <3>2. CASE ~(m + B < N)
      <4>1. Least(m + B, N) = N
        BY <3>2 DEF Least
      <4> QED
        BY <2>1, <3>2, <4>1
    <3> QED
      BY <3>1, <3>2
  <2>4. p[k] = SubSeq(s, m + 1, n)
    BY <1>3, <2>1, <2>2, <2>3
  <2>5. /\ p[k] \in Seq(S) /\ Len(p[k]) = n - m /\ DOMAIN p[k] = 1 .. (n - m)
        /\ \A i \in 1 .. (n - m) : m + i \in DOMAIN s /\ p[k][i] = s[m + i]
    BY <1>1, <2>3, <2>4, SliceFacts
  <2>6. n - m \in 1 .. B
    BY <2>3
  <2>7. ASSUME NEW i \in 1 .. B, m + i <= N PROVE i \in 1 .. (n - m)
    BY <2>3, <2>7
  <2> HIDE DEF p
  <2> QED
    BY <2>1, <2>5, <2>6, <2>7
<1>5. p \in Seq(Seq(S)) /\ DOMAIN p = 1 .. K
  <2>1. DOMAIN p = 1 .. K
    BY <1>3
  <2>2. p = [k \in 1 .. K |-> p[k]]
    BY <1>3
  <2> HIDE DEF p
  <2>3. p \in [1 .. K -> Seq(S)]
    BY <1>4, <2>2
  <2> QED
    BY <2>1, <2>3
<1> HIDE DEF p
<1>6. ASSUME NEW j \in DOMAIN s PROVE \E k \in 1 .. K : \E i \in DOMAIN p[k] : p[k][i] = s[j]
  <2>1. j \in Nat /\ j >= 1 /\ j <= N
    BY <1>1
  <2>2. PICK a \in Nat : a = (j - 1) \div B /\ a * B <= j - 1 /\ j - 1 < a * B + B
    <3>1. PICK b \in Nat : b = j - 1
      BY <2>1
    <3>2. b \div B \in Nat /\ (b \div B) * B <= b /\ b < (b \div B) * B + B
      BY <1>0
    <3> QED
      BY <3>1, <3>2
  <2>3. a < K
    <3> SUFFICES ASSUME a >= K PROVE FALSE
      OBVIOUS
    <3>1. a * B >= K * B
      <4>1. CASE a = K
        BY <4>1
      <4>2. CASE a # K
        <5>1. K < a
          BY <4>2
        <5>2. K * B + B <= a * B /\ K * B \in Int /\ a * B \in Int
          BY <5>1, MultiplesApart
        <5> QED
          BY <1>0, <5>2
      <4> QED
        BY <4>1, <4>2
    <3>2. PICK u \in Int, v \in Int : u = a * B /\ v = K * B
      OBVIOUS
    <3>3. u >= v /\ N <= v /\ u <= j - 1
      BY <1>2, <2>2, <3>1, <3>2
    <3> QED
      BY <2>1, <3>3
  <2>4. PICK k \in 1 .. K : k = a + 1 /\ (k - 1) * B = a * B
    <3>1. a + 1 \in 1 .. K /\ (a + 1) - 1 = a
      BY <2>3
    <3> QED
      BY <3>1
  <2>5. PICK u \in Int : u = a * B
    OBVIOUS
  <2>6. PICK i \in 1 .. B : u + i = j
    <3>0. u <= j - 1 /\ j - 1 < u + B
      BY <2>2, <2>5
    <3>1. j - u \in 1 .. B /\ u + (j - u) = j
      BY <1>0, <2>1, <3>0
    <3> QED
      BY <3>1
  <2>7. (k - 1) * B + i = j
    BY <2>4, <2>5, <2>6
  <2>8. i \in DOMAIN p[k]
    BY <1>4, <2>1, <2>7
  <2>9. p[k][i] = s[j]
    BY <1>4, <2>7, <2>8
  <2> QED
    BY <2>8, <2>9
<1>7. Contents(p) = Elems(s)
  <2>1. Elems(s) \subseteq Contents(p)
    BY <1>5, <1>6 DEF Contents, Elems
  <2>2. ASSUME NEW k \in 1 .. K PROVE Elems(p[k]) \subseteq Elems(s)
    BY <1>4 DEF Elems
  <2>3. Contents(p) \subseteq Elems(s)
    BY <1>5, <2>2 DEF Contents
  <2> QED
    BY <2>1, <2>3
<1>8. ASSUME Distinct(s) PROVE Scattered(p)
  <2> SUFFICES ASSUME NEW k \in 1 .. K, NEW l \in 1 .. K, NEW m \in DOMAIN p[k], NEW n \in DOMAIN p[l], p[k][m] = p[l][n]
               PROVE  k = l /\ m = n
    BY <1>5 DEF Scattered
  <2>1. m \in 1 .. B /\ n \in 1 .. B
    <3>1. PICK x \in 1 .. B, y \in 1 .. B : x = Len(p[k]) /\ y = Len(p[l])
      BY <1>4
    <3>2. DOMAIN p[k] = 1 .. x /\ DOMAIN p[l] = 1 .. y
      BY <1>4, <3>1
    <3> QED
      BY <3>2
  <2>2. PICK u \in Nat, v \in Nat : u = (k - 1) * B /\ v = (l - 1) * B
    BY <1>2
  <2>3. u + m = v + n
    <3>1. u + m \in DOMAIN s /\ p[k][m] = s[u + m]
      BY <1>4, <2>2
    <3>2. v + n \in DOMAIN s /\ p[l][n] = s[v + n]
      BY <1>4, <2>2
    <3> QED
      BY <1>8, <3>1, <3>2 DEF Distinct
  <2>4. ASSUME k < l PROVE FALSE
    <3>1. k - 1 < l - 1 /\ k - 1 \in Int /\ l - 1 \in Int
      BY <2>4
    <3>2. u + B <= v
      BY <2>2, <3>1, MultiplesApart
    <3> QED
      BY <2>1, <2>3, <3>2
  <2>5. ASSUME l < k PROVE FALSE
    <3>1. l - 1 < k - 1 /\ k - 1 \in Int /\ l - 1 \in Int
      BY <2>5
    <3>2. v + B <= u
      BY <2>2, <3>1, MultiplesApart
    <3> QED
      BY <2>1, <2>3, <3>2
  <2>6. k = l
    BY <2>4, <2>5
  <2>7. u = v
    BY <2>2, <2>6
  <2> QED
    BY <2>1, <2>3, <2>6, <2>7
<1>9. \A q \in Elems(p) : Len(q) \in 1 .. B
  BY <1>0, <1>4, <1>5 DEF Elems
<1> QED
  BY <1>5, <1>7, <1>8, <1>9 DEF p
==============================================================================
