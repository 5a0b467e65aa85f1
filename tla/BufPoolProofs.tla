---------------------------- MODULE BufPoolProofs ----------------------------
(***************************************************************************)
(* Proofs about BufPool for any number of users, blocks, headers and       *)
(* pools: the safety of the memory, and that BufPool implements            *)
(* ResourcePool; and about Transform, which works on those buffers, for    *)
(* any sizes and queues and any number of calls.                           *)
(***************************************************************************)
EXTENDS BufPool, Transform, SublistsProofs, FiniteSetTheorems

USE DEF bufpool, mempool, service, caller, owned

-----------------------------------------------------------------------------
(* Constants and types *)

LEMMA NoSurfaceTyped == NoSurface \in Surfaces /\ NoSurface.pool = 0
<1>1. (CHOOSE b \in Blocks : TRUE) \in Blocks /\ (CHOOSE h \in Headers : TRUE) \in Headers
  BY BufPoolConstants
<1>2. 0 \in 0 .. MaxPools
  BY BufPoolConstants
<1> QED
  BY <1>1, <1>2 DEF NoSurface, Surfaces

\* Of the pools not yet created the first one is taken.
LEMMA NextPoolUnborn ==
  ASSUME TypeOK, Unborn # {}
  PROVE  NextPool \in Pools /\ life[NextPool] = "none" /\ NextPool # 0
<1>1. Unborn \subseteq Nat /\ Unborn \subseteq Pools
  BY BufPoolConstants DEF Unborn, Pools
<1>2. PICK p \in Unborn : \A q \in Unborn : ~(<<q, p>> \in OpToRel(<, Nat))
  BY <1>1, WFMin, NatLessThanWellFounded
<1>3. \A q \in Unborn : ~(q < p)
  BY <1>1, <1>2, Zenon DEF OpToRel
<1>4. \A q \in Unborn : p <= q
  BY <1>1, <1>3
<1>5. NextPool \in Unborn
  BY <1>4 DEF NextPool
<1> QED
  BY <1>1, <1>5 DEF Unborn, Pools

\* The locals of the calls.
CallerTyped ==
  /\ pc \in [Users -> {"idle", "lock", "attempt", "header", "freehdr"}]
  /\ count \in [Users -> Int]
  /\ retry_cnt \in [Users -> 1 .. 10]
  /\ cur \in [Users -> Surfaces]

LEMMA ReturnedFacts ==
  ASSUME TypeOK, NEW u \in Users, Returned(u)
  PROVE  /\ CallerTyped' /\ pc'[u] = "idle" /\ cur'[u] = NoSurface
         /\ \A v \in Users \ {u} : pc'[v] = pc[v] /\ cur'[v] = cur[v]
  BY NoSurfaceTyped DEF TypeOK, Returned, CallerTyped

LEMMA RetryFacts ==
  ASSUME TypeOK, NEW u \in Users, Retry(u)
  PROVE  /\ CallerTyped' /\ pc'[u] \in {"idle", "lock"} /\ bmutex' = Nobody
         /\ \A v \in Users \ {u} : pc'[v] = pc[v] /\ cur'[v] = cur[v]
<1>1. CASE Returned(u)
  BY <1>1, ReturnedFacts DEF Retry
<1>2. CASE /\ pc' = [pc EXCEPT ![u] = "lock"]
           /\ count' = [count EXCEPT ![u] = @ - retry_cnt[u]]
           /\ retry_cnt' = [retry_cnt EXCEPT ![u] = LeastOf(@ * 2, 10)]
           /\ cur' = [cur EXCEPT ![u] = NoSurface]
  <2>1. retry_cnt[u] \in 1 .. 10 /\ count[u] \in Int
    BY DEF TypeOK
  <2>2. LeastOf(retry_cnt[u] * 2, 10) \in 1 .. 10 /\ count[u] - retry_cnt[u] \in Int
    BY <2>1 DEF LeastOf
  <2> QED
    BY <1>2, <2>2, NoSurfaceTyped DEF TypeOK, CallerTyped, Retry
<1> QED
  BY <1>1, <1>2 DEF Retry

LEMMA HavingTyped ==
  ASSUME TypeOK, NEW u \in Users
  PROVE  /\ Held(u) \subseteq Surfaces /\ Having(u) \subseteq Surfaces
         /\ \A s \in Surfaces : s.pool \in 0 .. MaxPools /\ s.blk \in Blocks /\ s.hdr \in Headers
         /\ \A s \in Surfaces : s.pool # 0 => s.pool \in Pools
<1>1. Held(u) \subseteq Surfaces /\ Having(u) \subseteq Surfaces
  BY DEF Held, Having, TypeOK
<1>2. \A s \in Surfaces : s.pool \in 0 .. MaxPools /\ s.blk \in Blocks /\ s.hdr \in Headers
  BY DEF Surfaces
<1> QED
  BY <1>1, <1>2, BufPoolConstants DEF Pools

-----------------------------------------------------------------------------
(* What the parts of the invariant look at *)

LEMMA HavingFrame ==
  ASSUME UNCHANGED <<wrap, raw>>, NEW u \in Users,
         pc'[u] = "header" <=> pc[u] = "header",
         pc[u] = "header" => cur'[u] = cur[u]
  PROVE  Having(u)' = Having(u) /\ Held(u)' = Held(u)
  BY DEF Having, Held

LEMMA BlocksFrame ==
  ASSUME BlocksApart, UNCHANGED <<cache_, life, leaked, wrap, raw>>,
         \A u \in Users : /\ pc'[u] = "header" <=> pc[u] = "header"
                          /\ pc[u] = "header" => cur'[u] = cur[u]
  PROVE  BlocksApart'
<1>1. \A u \in Users : Having(u)' = Having(u) /\ Held(u)' = Held(u)
  BY HavingFrame
<1> QED
  BY <1>1 DEF BlocksApart

LEMMA HandsFrame ==
  ASSUME HandsApart, UNCHANGED <<wrap, raw>>,
         \A u \in Users : /\ pc'[u] = "header" => pc[u] = "header"
                          /\ pc[u] = "header" => cur'[u] = cur[u]
  PROVE  HandsApart'
  BY DEF HandsApart, Held

LEMMA HeadersFrame ==
  ASSUME HeadersApart, UNCHANGED <<wrap, raw, surfpool_, malloced>>,
         \A u \in Users : /\ pc'[u] = "freehdr" <=> pc[u] = "freehdr"
                          /\ pc[u] = "freehdr" => cur'[u] = cur[u]
  PROVE  HeadersApart'
<1>1. \A u \in Users : Using(u)' = Using(u) /\ Held(u)' = Held(u)
  BY DEF Using, Held
<1> QED
  BY <1>1 DEF HeadersApart

LEMMA MappedFrame ==
  ASSUME MappedHeld, UNCHANGED <<wrap, raw, mapped>>
  PROVE  MappedHeld'
<1>1. \A u \in Users : Held(u)' = Held(u)
  BY DEF Held
<1> QED
  BY <1>1 DEF MappedHeld

LEMMA CountedFrame ==
  ASSUME Counted, UNCHANGED mempool, \A u \in Users : Having(u)' = Having(u)
  PROVE  Counted'
<1>1. \A p \in Pools : Out(p)' = Out(p)
  BY DEF Out
<1> QED
  BY <1>1 DEF Counted

-----------------------------------------------------------------------------
LEMMA InitBuffers == Init => BuffersInv
<1> SUFFICES ASSUME Init PROVE BuffersInv
  OBVIOUS
<1>1. TypeOK
  <2>1. 0 \in 0 .. MaxPools /\ 0 \in 0 .. BlockNum
    BY BufPoolConstants
  <2>2. cur \in [Users -> Surfaces]
    BY NoSurfaceTyped DEF Init
  <2>3. /\ cache_ \in [Pools -> SUBSET Blocks] /\ alloc_count_ \in [Pools -> 0 .. BlockNum]
        /\ wrap \in [Users -> SUBSET Surfaces] /\ raw \in [Users -> SUBSET Surfaces]
        /\ surfpool_ \in SUBSET SurfArray /\ malloced \in SUBSET (Headers \ SurfArray)
    BY <2>1 DEF Init
  <2>4. stopped_ \in BOOLEAN /\ is_vb_pool_ \in [Pools -> BOOLEAN]
    BY DEF Init
  <2> QED
    BY <2>1, <2>2, <2>3, <2>4 DEF Init, TypeOK
<1>2. \A u \in Users : Having(u) = {} /\ Held(u) = {} /\ Using(u) = {}
  BY DEF Init, Having, Held, Using
<1>3. Locks
  BY BufPoolConstants DEF Init, Locks, Owner, Nobody
<1>4. BlocksApart /\ HandsApart
  BY <1>2 DEF Init, BlocksApart, HandsApart
<1>5. HeadersApart /\ MappedHeld /\ NoUseAfterDestroy
  BY <1>2 DEF Init, HeadersApart, MappedHeld, NoUseAfterDestroy
<1>6. Counted
  BY DEF Init, Counted
<1> QED
  BY <1>1, <1>3, <1>4, <1>5, <1>6 DEF BuffersInv

-----------------------------------------------------------------------------
(* Steps of a caller that touch no buffer *)

LEMMA CallStep ==
  ASSUME BuffersInv, NEW u \in Users,
         (\E t \in Timeouts : Get(u, t)) \/ Lock(u) \/ AllocEmpty(u)
  PROVE  BuffersInv'
<1> USE DEF BuffersInv
<1>1. /\ UNCHANGED <<pool_, stopped_, opc, mempool, service, owned, mapped, leaked, crashed>>
      /\ pc[u] \in {"idle", "lock", "attempt"}
      /\ CallerTyped' /\ pc'[u] \in {"idle", "lock", "attempt"}
      /\ \A v \in Users \ {u} : pc'[v] = pc[v] /\ cur'[v] = cur[v]
      /\ \/ pc[u] # "attempt" /\ pc'[u] # "attempt" /\ bmutex' = bmutex
         \/ /\ pc[u] # "attempt" /\ pc'[u] = "attempt" /\ bmutex = Nobody /\ bmutex' = u
            /\ pool_ # 0 /\ ~stopped_
         \/ pc[u] = "attempt" /\ pc'[u] # "attempt" /\ bmutex' = Nobody
  <2>1. ASSUME NEW t \in Timeouts, Get(u, t)
        PROVE  /\ CallerTyped' /\ pc'[u] = "lock" /\ bmutex' = bmutex
               /\ \A v \in Users \ {u} : pc'[v] = pc[v] /\ cur'[v] = cur[v]
    <3>1. t + 1 \in Int
      BY BufPoolConstants
    <3> QED
      BY <2>1, <3>1 DEF Get, TypeOK, CallerTyped
  <2>2. CASE Lock(u)
    <3>1. CASE Returned(u) /\ UNCHANGED bmutex
      BY <2>2, <3>1, ReturnedFacts DEF Lock
    <3>2. CASE pool_ # 0 /\ ~stopped_ /\ bmutex' = u /\ pc' = [pc EXCEPT ![u] = "attempt"]
               /\ UNCHANGED <<count, retry_cnt, cur>>
      BY <2>2, <3>2 DEF Lock, TypeOK, CallerTyped
    <3> QED
      BY <2>2, <3>1, <3>2 DEF Lock
  <2>3. CASE AllocEmpty(u)
    BY <2>3, RetryFacts DEF AllocEmpty
  <2> QED
    BY <2>1, <2>2, <2>3 DEF Get
<1>2. TypeOK'
  BY <1>1 DEF TypeOK, CallerTyped
<1>3. Locks'
  BY <1>1, BufPoolConstants DEF Locks, Owner, Nobody
<1>4. \A v \in Users : /\ pc'[v] = "header" <=> pc[v] = "header"
                       /\ pc[v] = "header" => cur'[v] = cur[v]
                       /\ pc'[v] = "freehdr" <=> pc[v] = "freehdr"
                       /\ pc[v] = "freehdr" => cur'[v] = cur[v]
  BY <1>1
<1>5. BlocksApart' /\ HandsApart' /\ HeadersApart' /\ MappedHeld'
  BY <1>1, <1>4, BlocksFrame, HandsFrame, HeadersFrame, MappedFrame
<1>6. Counted'
  BY <1>1, <1>4, HavingFrame, CountedFrame
<1>7. NoUseAfterDestroy'
  BY <1>1 DEF NoUseAfterDestroy
<1> QED
  BY <1>2, <1>3, <1>5, <1>6, <1>7
-----------------------------------------------------------------------------
(* The owner *)

\* A block the system has is nowhere else.
LEMMA SystemFree ==
  ASSUME TypeOK, NEW b \in System
  PROVE  /\ b \in Blocks /\ b \notin leaked /\ \A p \in Pools : b \notin cache_[p]
         /\ \A u \in Users : \A s \in Having(u) : s.blk # b
<1>1. b \in Blocks /\ b \notin InUse
  BY DEF System
<1>2. b \notin leaked /\ \A p \in Pools : b \notin cache_[p]
  BY <1>1, Zenon DEF InUse
<1>3. ASSUME NEW u \in Users, NEW s \in Having(u) PROVE s.blk # b
  <2>1. s \in UNION {Having(v) : v \in Users}
    BY <1>3
  <2>2. s.blk \in {t.blk : t \in UNION {Having(v) : v \in Users}}
    BY <2>1
  <2>3. s.blk \in InUse
    BY <2>2, Zenon DEF InUse
  <2> QED
    BY <1>1, <2>3
<1> QED
  BY <1>1, <1>2, <1>3

\* Without a live pool every buffer is one without a pool.
LEMMA NoneLive ==
  ASSUME BuffersInv, pool_ = 0 \/ Dangling(pool_)
  PROVE  /\ \A p \in Pools : life[p] # "live" /\ cache_[p] = {} /\ Out(p) = {}
         /\ \A u \in Users : \A s \in Having(u) : s.pool = 0
<1> USE DEF BuffersInv
<1>1. \A p \in Pools : life[p] # "live"
  BY DEF Locks, Dangling, Pools
<1>2. \A u \in Users : \A s \in Having(u) : s.pool = 0
  BY <1>1, HavingTyped DEF BlocksApart
<1>3. \A p \in Pools : p # 0
  BY DEF Pools
<1>4. \A p \in Pools : Out(p) = {}
  BY <1>2, <1>3 DEF Out
<1> QED
  BY <1>1, <1>2, <1>4 DEF BlocksApart

LEMMA CreatePoolStep ==
  ASSUME BuffersInv, NEW vb \in BOOLEAN, NEW S \in SUBSET Blocks, CreatePool(vb, S)
  PROVE  BuffersInv'
<1> USE DEF BuffersInv
<1>0. PICK n \in Pools : n = NextPool /\ life[n] = "none" /\ n # 0
  BY NextPoolUnborn DEF CreatePool, CreatePoolFails
<1>1. /\ crashed = 0 /\ opc = "idle" /\ bmutex = Nobody /\ Unborn # {}
      /\ pool_ = 0 \/ Dangling(pool_)
      /\ S \subseteq System /\ Cardinality(S) = BlockNum
      /\ pool_' = n /\ stopped_' = FALSE
      /\ life' = [life EXCEPT ![n] = "live"]
      /\ is_vb_pool_' = [is_vb_pool_ EXCEPT ![n] = vb]
      /\ cache_' = [cache_ EXCEPT ![n] = S]
      /\ UNCHANGED <<bmutex, opc, alloc_count_, service, caller, owned, mapped,
                     leaked, crashed>>
  BY <1>0 DEF CreatePool
<1>2. n \in Pools /\ life[n] = "none" /\ n # 0
  BY <1>0
<1>3. /\ life'[n] = "live" /\ cache_'[n] = S
      /\ \A p \in Pools \ {n} : life'[p] = life[p] /\ cache_'[p] = cache_[p]
  BY <1>1, <1>2 DEF TypeOK
<1>4. TypeOK'
  <2>1. n \in 0 .. MaxPools
    BY <1>2, BufPoolConstants DEF Pools
  <2> QED
    BY <1>1, <1>2, <2>1 DEF TypeOK
<1>5. /\ \A p \in Pools : life[p] # "live" /\ cache_[p] = {} /\ Out(p) = {}
      /\ \A u \in Users : \A s \in Having(u) : s.pool = 0
  BY <1>1, NoneLive
<1>6. \A u \in Users : Having(u)' = Having(u) /\ Held(u)' = Held(u)
  BY <1>1, HavingFrame
<1>7. \A u \in Users : pc[u] \notin {"attempt", "header"}
  BY <1>1, BufPoolConstants DEF Locks, Nobody
<1>8. Locks'
  BY <1>1, <1>2, <1>3, <1>5, <1>7, BufPoolConstants DEF Locks, Owner, Nobody
<1>9. BlocksApart'
  <2>1. \A b \in S : b \notin leaked /\ \A u \in Users : \A s \in Having(u) : s.blk # b
    BY <1>1, SystemFree
  <2> QED
    BY <1>1, <1>3, <1>5, <1>6, <1>7, <2>1 DEF BlocksApart
<1>10. HandsApart' /\ HeadersApart' /\ MappedHeld'
  BY <1>1, HandsFrame, HeadersFrame, MappedFrame
<1>11. Counted'
  <2>1. \A p \in Pools : Out(p)' = Out(p)
    BY <1>6 DEF Out
  <2>2. IsFiniteSet({}) /\ Cardinality({}) = 0 /\ BlockNum \in Nat
    BY FS_EmptySet, BufPoolConstants
  <2>3. Out(n)' = {} /\ alloc_count_'[n] = 0 /\ cache_'[n] = S
    BY <1>1, <1>2, <1>3, <1>5, <2>1 DEF Counted
  <2>4. /\ IsFiniteSet(Out(n)') /\ Cardinality(cache_'[n]) + Cardinality(Out(n)') = BlockNum
        /\ alloc_count_'[n] = IF is_vb_pool_'[n] THEN 0 ELSE Cardinality(Out(n)')
    BY <1>1, <2>2, <2>3
  <2> QED
    BY <1>1, <1>3, <1>5, <2>4 DEF Counted
<1>12. NoUseAfterDestroy'
  BY <1>1 DEF NoUseAfterDestroy
<1> QED
  BY <1>4, <1>8, <1>9, <1>10, <1>11, <1>12

LEMMA CreatePoolFailsStep ==
  ASSUME BuffersInv, NEW S \in SUBSET Blocks, CreatePoolFails(S)
  PROVE  BuffersInv'
<1> USE DEF BuffersInv
<1>0. PICK n \in Pools : n = NextPool /\ life[n] = "none" /\ n # 0
  BY NextPoolUnborn DEF CreatePool, CreatePoolFails
<1>1. /\ crashed = 0 /\ opc = "idle" /\ bmutex = Nobody /\ Unborn # {}
      /\ pool_ = 0 \/ Dangling(pool_)
      /\ S \subseteq System /\ pool_' = n
      /\ life' = [life EXCEPT ![n] = "failed"] /\ leaked' = leaked \cup S
      /\ UNCHANGED <<stopped_, bmutex, opc, is_vb_pool_, cache_, alloc_count_, service,
                     caller, owned, mapped, crashed>>
  BY <1>0 DEF CreatePoolFails
<1>2. n \in Pools /\ life[n] = "none" /\ n # 0
  BY <1>0
<1>3. life'[n] = "failed" /\ \A p \in Pools \ {n} : life'[p] = life[p]
  BY <1>1, <1>2 DEF TypeOK
<1>4. TypeOK'
  <2>1. n \in 0 .. MaxPools
    BY <1>2, BufPoolConstants DEF Pools
  <2> QED
    BY <1>1, <1>2, <2>1 DEF TypeOK
<1>5. /\ \A p \in Pools : life[p] # "live" /\ cache_[p] = {} /\ Out(p) = {}
      /\ \A u \in Users : \A s \in Having(u) : s.pool = 0
  BY <1>1, NoneLive
<1>6. \A u \in Users : Having(u)' = Having(u) /\ Held(u)' = Held(u)
  BY <1>1, HavingFrame
<1>7. \A u \in Users : pc[u] \notin {"attempt", "header"}
  BY <1>1, BufPoolConstants DEF Locks, Nobody
<1>8. Locks'
  BY <1>1, <1>2, <1>3, <1>5, <1>7, BufPoolConstants DEF Locks, Owner, Nobody
<1>9. BlocksApart'
  <2>1. \A b \in S : b \notin leaked /\ \A u \in Users : \A s \in Having(u) : s.blk # b
    BY <1>1, SystemFree
  <2> QED
    BY <1>1, <1>3, <1>5, <1>6, <1>7, <2>1 DEF BlocksApart
<1>10. HandsApart' /\ HeadersApart' /\ MappedHeld'
  BY <1>1, HandsFrame, HeadersFrame, MappedFrame
<1>11. Counted'
  BY <1>1, <1>3, <1>5 DEF Counted
<1>12. NoUseAfterDestroy'
  BY <1>1 DEF NoUseAfterDestroy
<1> QED
  BY <1>4, <1>8, <1>9, <1>10, <1>11, <1>12

\* DestroyPool, its two ends without deleting a pool, and a call through a pool_
\* that dangles.
LEMMA DestroyQuietStep ==
  ASSUME BuffersInv,
         \/ DestroyPool \/ DestroyRefused \/ DestroyDangling
         \/ \E u \in Users : AllocDangling(u)
  PROVE  BuffersInv'
<1> USE DEF BuffersInv
<1>1. UNCHANGED <<pool_, mempool, service, caller, owned, mapped, leaked>>
  BY DEF DestroyPool, DestroyRefused, DestroyDangling, AllocDangling
<1>2. BlocksApart' /\ HandsApart' /\ HeadersApart' /\ MappedHeld' /\ Counted'
  BY <1>1, BlocksFrame, HandsFrame, HeadersFrame, MappedFrame, HavingFrame, CountedFrame
<1>3. CASE DestroyPool
  <2>1. TypeOK'
    BY <1>1, <1>3 DEF DestroyPool, TypeOK
  <2>2. \A u \in Users : pc[u] \notin {"attempt", "header"}
    BY <1>3, BufPoolConstants DEF DestroyPool, Locks, Nobody
  <2>3. pool_ # 0 => life[pool_] \in {"live", "failed"}
    BY <1>3, BufPoolConstants DEF DestroyPool, Locks, TypeOK, Pools
  <2>4. Locks'
    BY <1>1, <1>3, <2>2, <2>3, BufPoolConstants DEF DestroyPool, Locks, Owner, Nobody
  <2>5. NoUseAfterDestroy'
    BY <1>3 DEF DestroyPool, NoUseAfterDestroy
  <2> QED
    BY <1>2, <2>1, <2>4, <2>5
<1>4. CASE DestroyRefused
  <2>1. TypeOK'
    BY <1>1, <1>4 DEF DestroyRefused, TypeOK
  <2>2. Locks'
    BY <1>1, <1>4, BufPoolConstants DEF DestroyRefused, Locks, Owner, Nobody
  <2>3. NoUseAfterDestroy'
    BY <1>4 DEF DestroyRefused, NoUseAfterDestroy
  <2> QED
    BY <1>2, <2>1, <2>2, <2>3
<1>5. CASE DestroyDangling \/ \E u \in Users : AllocDangling(u)
  <2>1. crashed' = pool_ /\ UNCHANGED bufpool /\ Dangling(pool_)
        /\ (opc = "destroy" \/ \E u \in Users : pc[u] = "attempt")
    BY <1>5 DEF DestroyDangling, AllocDangling
  <2>2. life[pool_] = "failed"
    BY <2>1 DEF Locks, Dangling, Pools
  <2>3. TypeOK' /\ Locks'
    BY <1>1, <2>1 DEF TypeOK, Locks
  <2>4. NoUseAfterDestroy'
    BY <1>1, <2>1, <2>2 DEF NoUseAfterDestroy
  <2> QED
    BY <1>2, <2>3, <2>4
<1> QED
  BY <1>3, <1>4, <1>5

\* When MemPool::Destroy frees the memory every buffer of the pool is back.
LEMMA AllBack ==
  ASSUME BuffersInv, pool_ \in Pools, life[pool_] = "live", MayFree(pool_)
  PROVE  /\ Out(pool_) = {}
         /\ \A u \in Users : \A s \in Having(u) : s.pool = 0
<1> USE DEF BuffersInv
<1>1. /\ IsFiniteSet(Out(pool_)) /\ Cardinality(Out(pool_)) \in Nat
      /\ IsFiniteSet(cache_[pool_]) /\ Cardinality(cache_[pool_]) \in Nat
      /\ Cardinality(cache_[pool_]) + Cardinality(Out(pool_)) = BlockNum
      /\ alloc_count_[pool_] = IF is_vb_pool_[pool_] THEN 0 ELSE Cardinality(Out(pool_))
  <2>1. cache_[pool_] \in SUBSET Blocks
    BY DEF TypeOK
  <2>2. IsFiniteSet(cache_[pool_])
    BY <2>1, FS_Subset, BufPoolConstants
  <2> QED
    BY <2>2, FS_CardinalityType DEF Counted
<1>2. Cardinality(Out(pool_)) = 0
  BY <1>1, BufPoolConstants DEF MayFree
<1>3. Out(pool_) = {}
  BY <1>1, <1>2, FS_EmptySet
<1>4. \A u \in Users : \A s \in Having(u) : s.pool = 0
  <2> SUFFICES ASSUME NEW u \in Users, NEW s \in Having(u), s.pool # 0 PROVE FALSE
    OBVIOUS
  <2>1. s.pool = pool_
    BY HavingTyped DEF BlocksApart, Locks
  <2> QED
    BY <1>3, <2>1 DEF Out
<1> QED
  BY <1>3, <1>4

LEMMA DestroyDoneStep ==
  ASSUME BuffersInv, DestroyDone
  PROVE  BuffersInv'
<1> USE DEF BuffersInv
<1>1. /\ crashed = 0 /\ opc = "destroy" /\ life[pool_] = "live" /\ MayFree(pool_)
      /\ life' = [life EXCEPT ![pool_] = "deleted"]
      /\ cache_' = [cache_ EXCEPT ![pool_] = {}]
      /\ opc' = "idle" /\ bmutex' = Nobody
      /\ UNCHANGED <<pool_, stopped_, is_vb_pool_, alloc_count_, service, caller,
                     owned, mapped, leaked, crashed>>
  BY DEF DestroyDone
<1>2. pool_ \in Pools /\ pool_ # 0 /\ stopped_ /\ \A u \in Users : pc[u] \notin {"attempt", "header"}
  BY <1>1, BufPoolConstants DEF Locks, TypeOK, Pools, Owner
<1>3. \A u \in Users : \A s \in Having(u) : s.pool = 0
  BY <1>1, <1>2, AllBack
<1>4. /\ life'[pool_] = "deleted" /\ cache_'[pool_] = {}
      /\ \A p \in Pools \ {pool_} : life'[p] = life[p] /\ cache_'[p] = cache_[p]
                                    /\ life[p] # "live"
  BY <1>1, <1>2 DEF TypeOK, Locks
<1>5. TypeOK'
  BY <1>1, <1>2 DEF TypeOK
<1>6. Locks'
  BY <1>1, <1>2, <1>4, BufPoolConstants DEF Locks, Owner, Nobody
<1>7. \A u \in Users : Having(u)' = Having(u) /\ Held(u)' = Held(u)
  BY <1>1, HavingFrame
<1>8. BlocksApart'
  BY <1>1, <1>2, <1>3, <1>4, <1>7 DEF BlocksApart
<1>9. HandsApart' /\ HeadersApart' /\ MappedHeld'
  BY <1>1, HandsFrame, HeadersFrame, MappedFrame
<1>10. Counted'
  BY <1>1, <1>4 DEF Counted
<1>11. NoUseAfterDestroy'
  BY <1>1 DEF NoUseAfterDestroy
<1> QED
  BY <1>5, <1>6, <1>8, <1>9, <1>10, <1>11
-----------------------------------------------------------------------------
(* A buffer leaves the pool or comes back *)

\* The arithmetic of alloc_count_ never wraps.
LEMMA CountDown ==
  ASSUME NEW n \in 0 .. BlockNum
  PROVE  /\ n < BlockNum => (n + 1) % CounterMod = n + 1
         /\ n > 0 => (n - 1) % CounterMod = n - 1
  BY BufPoolConstants

LEMMA LiveCounts ==
  ASSUME BuffersInv, NEW p \in Pools, life[p] = "live"
  PROVE  /\ IsFiniteSet(cache_[p]) /\ IsFiniteSet(Out(p))
         /\ Cardinality(cache_[p]) \in Nat /\ Cardinality(Out(p)) \in Nat
         /\ Cardinality(cache_[p]) + Cardinality(Out(p)) = BlockNum
         /\ alloc_count_[p] = IF is_vb_pool_[p] THEN 0 ELSE Cardinality(Out(p))
<1>1. cache_[p] \in SUBSET Blocks
  BY DEF TypeOK, BuffersInv
<1>2. IsFiniteSet(cache_[p]) /\ IsFiniteSet(Out(p))
  BY <1>1, FS_Subset, BufPoolConstants DEF Counted, BuffersInv
<1> QED
  BY <1>2, FS_CardinalityType DEF Counted, BuffersInv

LEMMA AllocStep ==
  ASSUME BuffersInv, NEW u \in Users, Alloc(u)
  PROVE  BuffersInv'
<1> USE DEF BuffersInv
<1>1. PICK b \in cache_[pool_] :
        /\ cur' = [cur EXCEPT ![u] = [@ EXCEPT !.pool = pool_, !.blk = b]]
        /\ cache_' = [cache_ EXCEPT ![pool_] = @ \ {b}]
  BY DEF Alloc
<1>2. PICK p \in Pools : p = pool_ /\ life[p] = "live"
  BY DEF Alloc, Locks, TypeOK, Pools
<1>3. PICK s \in Surfaces : s = cur'[u] /\ s.pool = p /\ s.blk = b
  <2>1. b \in Blocks /\ cur[u] \in Surfaces /\ p \in 0 .. MaxPools
    BY <1>2 DEF TypeOK
  <2>2. cur'[u] = [cur[u] EXCEPT !.pool = pool_, !.blk = b]
    BY <1>1 DEF TypeOK
  <2>3. cur'[u] \in Surfaces /\ cur'[u].pool = p /\ cur'[u].blk = b
    BY <1>2, <2>1, <2>2 DEF Surfaces
  <2> QED
    BY <2>3
<1>4. /\ crashed = 0 /\ pc[u] = "attempt" /\ pc' = [pc EXCEPT ![u] = "header"]
      /\ pc'[u] = "header"
      /\ alloc_count_' = [alloc_count_ EXCEPT
           ![p] = IF is_vb_pool_[p] THEN 0 ELSE (@ + 1) % CounterMod]
      /\ \A v \in Users \ {u} : pc'[v] = pc[v] /\ cur'[v] = cur[v]
      /\ UNCHANGED <<bufpool, life, is_vb_pool_, service, count, retry_cnt,
                     owned, mapped, leaked, crashed>>
  BY <1>1, <1>2 DEF Alloc, TypeOK
<1>5. /\ cache_'[p] = cache_[p] \ {b} /\ b \in cache_[p]
      /\ \A q \in Pools \ {p} : cache_'[q] = cache_[q]
      /\ cache_' \in [Pools -> SUBSET Blocks]
  BY <1>1, <1>2 DEF TypeOK
<1>6. /\ \A v \in Users : Held(v)' = Held(v)
      /\ Having(u)' = Having(u) \cup {s} /\ Having(u) = Held(u)
      /\ \A v \in Users \ {u} : Having(v)' = Having(v)
  BY <1>3, <1>4 DEF Held, Having
<1>7. \A v \in Users : \A t \in Having(v) : t.blk # b
  BY <1>2, <1>5 DEF BlocksApart
<1>8. BlocksApart'
  <2>1. b \notin leaked
    BY <1>2, <1>5 DEF BlocksApart
  <2>2. \A q \in Pools : cache_'[q] \subseteq cache_[q] /\ b \notin cache_'[q]
    BY <1>2, <1>5 DEF BlocksApart, Locks
  <2>3. \A v \in Users : \A t \in Having(v)' : t \in Having(v) \/ (v = u /\ t = s)
    BY <1>6
  <2>4. \A v, w \in Users : \A x \in Having(v)', y \in Having(w)' :
          x.blk = y.blk => v = w /\ x = y
    BY <1>3, <1>7, <2>3 DEF BlocksApart
  <2> QED
    BY <1>2, <1>3, <1>4, <2>1, <2>2, <2>3, <2>4 DEF BlocksApart
<1>9. HandsApart'
  <2>1. s \notin Held(u)
    BY <1>3, <1>6, <1>7
  <2> QED
    BY <1>3, <1>4, <1>6, <2>1 DEF HandsApart
<1>10. HeadersApart' /\ MappedHeld'
  BY <1>4, HeadersFrame, MappedFrame
<1>11. /\ Out(p)' = Out(p) \cup {s} /\ s \notin Out(p)
       /\ \A q \in Pools \ {p} : Out(q)' = Out(q)
  <2>1. s \in Having(u)' /\ \A v \in Users : Having(v) \subseteq Having(v)'
    BY <1>6
  <2>2. \A v \in Users : \A t \in Having(v)' : t \in Having(v) \/ t = s
    BY <1>6
  <2>3. s \notin Out(p)
    BY <1>3, <1>7 DEF Out
  <2> QED
    BY <1>3, <2>1, <2>2, <2>3 DEF Out
<1>12. /\ IsFiniteSet(Out(p)') /\ Cardinality(Out(p)') = Cardinality(Out(p)) + 1
       /\ Cardinality(cache_'[p]) = Cardinality(cache_[p]) - 1
       /\ Cardinality(Out(p)) < BlockNum
  <2>1. IsFiniteSet(Out(p)') /\ Cardinality(Out(p)') = Cardinality(Out(p)) + 1
    <3>1. IsFiniteSet(Out(p)) /\ s \notin Out(p) /\ Out(p)' = Out(p) \cup {s}
      BY <1>2, <1>11, LiveCounts
    <3>2. /\ IsFiniteSet(Out(p) \cup {s})
          /\ Cardinality(Out(p) \cup {s}) = Cardinality(Out(p)) + 1
      BY <3>1, FS_AddElement, Zenon
    <3> QED
      BY <3>1, <3>2
  <2>2. Cardinality(cache_'[p]) = Cardinality(cache_[p]) - 1 /\ IsFiniteSet(cache_'[p])
    <3>1. IsFiniteSet(cache_[p]) /\ b \in cache_[p] /\ cache_'[p] = cache_[p] \ {b}
      BY <1>2, <1>5, LiveCounts
    <3>2. /\ IsFiniteSet(cache_[p] \ {b})
          /\ Cardinality(cache_[p] \ {b}) = Cardinality(cache_[p]) - 1
      BY <3>1, FS_RemoveElement, Zenon
    <3> QED
      BY <3>1, <3>2
  <2>3. Cardinality(cache_'[p]) \in Nat
    BY <2>2, FS_CardinalityType
  <2> QED
    BY <1>2, <2>1, <2>2, <2>3, LiveCounts, BufPoolConstants
<1>13. /\ alloc_count_'[p] = IF is_vb_pool_[p] THEN 0 ELSE Cardinality(Out(p)')
       /\ \A q \in Pools \ {p} : alloc_count_'[q] = alloc_count_[q]
       /\ alloc_count_' \in [Pools -> 0 .. BlockNum]
  <2>1. Cardinality(Out(p)) \in 0 .. BlockNum /\ BlockNum \in Nat
        /\ Cardinality(Out(p)) + 1 \in 0 .. BlockNum /\ 0 \in 0 .. BlockNum
    BY <1>2, <1>12, LiveCounts, BufPoolConstants
  <2>2. (Cardinality(Out(p)) + 1) % CounterMod = Cardinality(Out(p)) + 1
    BY <1>12, <2>1, CountDown
  <2>3. alloc_count_'[p] = IF is_vb_pool_[p] THEN 0 ELSE (alloc_count_[p] + 1) % CounterMod
    BY <1>4 DEF TypeOK
  <2>4. alloc_count_'[p] = IF is_vb_pool_[p] THEN 0 ELSE Cardinality(Out(p)')
    BY <1>2, <1>12, <2>2, <2>3, LiveCounts
  <2>5. alloc_count_'[p] \in 0 .. BlockNum
    BY <1>12, <2>1, <2>4
  <2> QED
    BY <1>4, <2>4, <2>5 DEF TypeOK
<1>14. Counted'
  <2>1. Cardinality(cache_'[p]) + Cardinality(Out(p)') = BlockNum
    BY <1>2, <1>12, LiveCounts, BufPoolConstants
  <2>2. /\ life'[p] = "live" /\ IsFiniteSet(Out(p)')
        /\ alloc_count_'[p] = IF is_vb_pool_'[p] THEN 0 ELSE Cardinality(Out(p)')
    BY <1>2, <1>4, <1>12, <1>13
  <2>3. ASSUME NEW q \in Pools \ {p}
        PROVE  /\ life'[q] = life[q] /\ Out(q)' = Out(q) /\ cache_'[q] = cache_[q]
               /\ alloc_count_'[q] = alloc_count_[q] /\ is_vb_pool_'[q] = is_vb_pool_[q]
    BY <1>4, <1>5, <1>11, <1>13
  <2> QED
    BY <2>1, <2>2, <2>3 DEF Counted
<1>15. TypeOK'
  <2>1. cur' \in [Users -> Surfaces]
    BY <1>1, <1>3 DEF TypeOK
  <2> QED
    BY <1>4, <1>5, <1>13, <2>1 DEF TypeOK
<1>16. Locks' /\ NoUseAfterDestroy'
  BY <1>2, <1>3, <1>4, BufPoolConstants DEF Locks, Owner, Nobody, NoUseAfterDestroy
<1> QED
  BY <1>8, <1>9, <1>10, <1>14, <1>15, <1>16

\* The block of s goes back to the queue of its pool.
LEMMA GivenBack ==
  ASSUME BuffersInv, NEW u \in Users, NEW s \in Having(u), s.pool # 0, PutBack(s),
         UNCHANGED <<life, is_vb_pool_, leaked>>,
         Having(u)' = Having(u) \ {s},
         \A v \in Users \ {u} : Having(v)' = Having(v)
  PROVE  /\ BlocksApart' /\ Counted'
         /\ cache_' \in [Pools -> SUBSET Blocks] /\ alloc_count_' \in [Pools -> 0 .. BlockNum]
<1> USE DEF BuffersInv
<1>1. PICK p \in Pools : p = s.pool /\ life[p] = "live" /\ p = pool_
  BY HavingTyped DEF BlocksApart, Locks
<1>2. PICK b \in Blocks : b = s.blk
  BY HavingTyped
<1>3. /\ cache_' = [cache_ EXCEPT ![p] = @ \cup {b}]
      /\ alloc_count_' = [alloc_count_ EXCEPT
           ![p] = IF is_vb_pool_[p] THEN 0 ELSE (@ - 1) % CounterMod]
  BY <1>1, <1>2 DEF PutBack
<1>4. /\ cache_'[p] = cache_[p] \cup {b} /\ b \notin cache_[p]
      /\ \A q \in Pools \ {p} : cache_'[q] = cache_[q]
      /\ cache_' \in [Pools -> SUBSET Blocks]
  BY <1>1, <1>2, <1>3 DEF TypeOK, BlocksApart
<1>5. \A v \in Users : \A t \in Having(v)' : t \in Having(v) /\ t # s /\ t.blk # b
  BY <1>2 DEF BlocksApart
<1>6. BlocksApart'
  <2>1. b \notin leaked
    BY <1>2 DEF BlocksApart
  <2>2. \A q \in Pools : life'[q] # "live" => cache_'[q] = {}
    BY <1>1, <1>4 DEF BlocksApart
  <2>3. \A q \in Pools : \A x \in cache_'[q] : x \in cache_[q] \/ x = b
    BY <1>4
  <2>4. \A q \in Pools : cache_'[q] \cap leaked = {}
    BY <2>1, <2>3 DEF BlocksApart
  <2>5. \A v \in Users : \A t \in Having(v)', q \in Pools : t.blk \notin cache_'[q]
    BY <1>5, <2>3 DEF BlocksApart
  <2> QED
    BY <1>5, <2>2, <2>4, <2>5 DEF BlocksApart
<1>7. /\ Out(p)' = Out(p) \ {s} /\ s \in Out(p)
      /\ \A q \in Pools \ {p} : Out(q)' = Out(q)
  <2>1. \A v \in Users : \A t \in Having(v) : t # s => t \in Having(v)'
    OBVIOUS
  <2>2. s \in Out(p)
    BY <1>1 DEF Out
  <2>3. ASSUME NEW q \in Pools, NEW t \in Out(q), t # s PROVE t \in Out(q)'
    <3>1. PICK v \in Users : t \in Having(v) /\ t.pool = q
      BY <2>3 DEF Out
    <3>2. t \in Having(v)'
      BY <2>1, <2>3, <3>1
    <3> QED
      BY <3>1, <3>2 DEF Out
  <2>4. ASSUME NEW q \in Pools, NEW t \in Out(q)' PROVE t \in Out(q) /\ t # s
    <3>1. PICK v \in Users : t \in Having(v)' /\ t.pool = q
      BY <2>4 DEF Out
    <3>2. t \in Having(v) /\ t # s
      BY <1>5, <3>1
    <3> QED
      BY <3>1, <3>2 DEF Out
  <2>5. \A q \in Pools \ {p} : s \notin Out(q)
    BY <1>1 DEF Out
  <2> QED
    BY <2>2, <2>3, <2>4, <2>5
<1>8. /\ IsFiniteSet(Out(p)') /\ Cardinality(Out(p)') = Cardinality(Out(p)) - 1
      /\ Cardinality(cache_'[p]) = Cardinality(cache_[p]) + 1
      /\ Cardinality(Out(p)') \in Nat
  <2>1. IsFiniteSet(Out(p)') /\ Cardinality(Out(p)') = Cardinality(Out(p)) - 1
    BY <1>1, <1>7, LiveCounts, FS_RemoveElement
  <2>2. Cardinality(cache_'[p]) = Cardinality(cache_[p]) + 1
    BY <1>1, <1>4, LiveCounts, FS_AddElement
  <2> QED
    BY <2>1, <2>2, FS_CardinalityType
<1>9. /\ alloc_count_'[p] = IF is_vb_pool_[p] THEN 0 ELSE Cardinality(Out(p)')
      /\ \A q \in Pools \ {p} : alloc_count_'[q] = alloc_count_[q]
      /\ alloc_count_' \in [Pools -> 0 .. BlockNum]
  <2>1. Cardinality(Out(p)) \in 0 .. BlockNum /\ BlockNum \in Nat /\ Cardinality(Out(p)) > 0
        /\ Cardinality(Out(p)) - 1 \in 0 .. BlockNum /\ 0 \in 0 .. BlockNum
    BY <1>1, <1>8, LiveCounts, BufPoolConstants
  <2>2. (Cardinality(Out(p)) - 1) % CounterMod = Cardinality(Out(p)) - 1
    BY <2>1, CountDown
  <2>3. alloc_count_'[p] = IF is_vb_pool_[p] THEN 0 ELSE (alloc_count_[p] - 1) % CounterMod
    BY <1>3 DEF TypeOK
  <2>4. alloc_count_'[p] = IF is_vb_pool_[p] THEN 0 ELSE Cardinality(Out(p)')
    BY <1>1, <1>8, <2>2, <2>3, LiveCounts
  <2>5. alloc_count_'[p] \in 0 .. BlockNum
    BY <1>8, <2>1, <2>4
  <2> QED
    BY <1>3, <2>4, <2>5 DEF TypeOK
<1>10. Counted'
  <2>1. Cardinality(cache_'[p]) + Cardinality(Out(p)') = BlockNum
    BY <1>1, <1>8, LiveCounts, BufPoolConstants
  <2> QED
    BY <1>1, <1>4, <1>7, <1>8, <1>9, <2>1 DEF Counted
<1> QED
  BY <1>4, <1>6, <1>9, <1>10

-----------------------------------------------------------------------------
(* BufSurfaceService: the structs *)

\* AllocSurface returns a struct that nobody has.
LEMMA HeaderTaken ==
  ASSUME TypeOK, HeadersApart, NEW u \in Users, NEW h \in Headers, NEW n,
         TakeHeader(h), n.hdr = h, Using(u)' = Using(u) \cup {n}, pc'[u] # "freehdr",
         \A v \in Users \ {u} : /\ pc'[v] = pc[v] /\ cur'[v] = cur[v]
                                /\ Held(v)' = Held(v) /\ Using(v)' = Using(v)
  PROVE  /\ HeadersApart'
         /\ surfpool_' \in SUBSET SurfArray /\ malloced' \in SUBSET (Headers \ SurfArray)
<1>1. \A v \in Users : \A s \in Using(v) : s.hdr # h
  BY DEF TakeHeader, Fresh, HeadersApart, TypeOK
<1>2. /\ surfpool_' = surfpool_ \ {h} /\ malloced \subseteq malloced'
      /\ \A g \in malloced' : g \in malloced \/ g = h
      /\ h \in SurfArray \/ h \in malloced'
      /\ surfpool_' \in SUBSET SurfArray /\ malloced' \in SUBSET (Headers \ SurfArray)
  BY DEF TakeHeader, TypeOK
<1>3. \A v \in Users : \A s \in Using(v)' : s \in Using(v) \/ (v = u /\ s = n)
  OBVIOUS
<1>4. n \in Using(u)' /\ \A v \in Users : Using(v) \subseteq Using(v)'
  OBVIOUS
<1>5. \A v, w \in Users : \A s \in Using(v)', t \in Using(w)' :
        s.hdr = t.hdr => v = w /\ s = t
  BY <1>1, <1>3 DEF HeadersApart
<1>6. \A v \in Users : \A s \in Using(v)' :
        (s.hdr \in SurfArray \ surfpool_') \/ s.hdr \in malloced'
  BY <1>2, <1>3 DEF HeadersApart
<1>7. \A g \in malloced' : \E v \in Users : \E s \in Using(v)' : s.hdr = g
  BY <1>2, <1>4 DEF HeadersApart
<1> QED
  BY <1>2, <1>5, <1>6, <1>7 DEF HeadersApart

LEMMA MakeWrapperStep ==
  ASSUME BuffersInv, NEW u \in Users, NEW h \in Headers, MakeWrapper(u, h)
  PROVE  BuffersInv'
<1> USE DEF BuffersInv
<1>1. PICK c \in Surfaces : c = cur[u] /\ c \in Having(u) /\ c \notin Held(u)
        /\ c.pool = pool_ /\ Having(u) = Held(u) \cup {c}
  BY DEF MakeWrapper, TypeOK, Having, HandsApart, Locks
<1>2. PICK n \in Surfaces : n = [c EXCEPT !.hdr = h] /\ n.pool = c.pool /\ n.blk = c.blk
                            /\ n.hdr = h
  <2>1. [c EXCEPT !.hdr = h] \in Surfaces
    BY <1>1 DEF Surfaces
  <2> QED
    BY <1>1, <2>1 DEF Surfaces
<1>3. /\ pc[u] = "header" /\ TakeHeader(h) /\ wrap' = [wrap EXCEPT ![u] = @ \cup {n}]
      /\ Returned(u) /\ bmutex' = Nobody
      /\ UNCHANGED <<pool_, stopped_, opc, mempool, raw, mapped, leaked, crashed>>
  BY <1>1, <1>2 DEF MakeWrapper
<1>4. /\ CallerTyped' /\ pc'[u] = "idle"
      /\ \A v \in Users \ {u} : pc'[v] = pc[v] /\ cur'[v] = cur[v]
  BY <1>3, ReturnedFacts
<1>5. /\ wrap'[u] = wrap[u] \cup {n} /\ \A v \in Users \ {u} : wrap'[v] = wrap[v]
      /\ wrap' \in [Users -> SUBSET Surfaces]
  BY <1>3 DEF TypeOK
<1>6. /\ Held(u)' = Held(u) \cup {n} /\ Having(u)' = Held(u) \cup {n}
      /\ Using(u)' = Using(u) \cup {n} /\ Using(u) = Held(u)
      /\ \A v \in Users \ {u} : /\ Held(v)' = Held(v) /\ Having(v)' = Having(v)
                                /\ Using(v)' = Using(v)
  BY <1>3, <1>4, <1>5 DEF Held, Having, Using
<1>7. \A v \in Users : \A t \in Having(v) : t.blk = n.blk => v = u /\ t = c
  BY <1>1, <1>2 DEF BlocksApart
<1>8. n \notin Held(u)
  BY <1>1, <1>7
<1>9. BlocksApart'
  <2>1. \A v \in Users : \A t \in Having(v)' : (t \in Having(v) /\ t # c) \/ (v = u /\ t = n)
    <3>1. \A v \in Users \ {u} : \A t \in Having(v) : t # c
      BY <1>2, <1>7
    <3> QED
      BY <1>1, <1>6, <3>1
  <2>2. \A v, w \in Users : \A x \in Having(v)', y \in Having(w)' :
          x.blk = y.blk => v = w /\ x = y
    BY <1>7, <2>1 DEF BlocksApart
  <2>3. /\ \A q \in Pools : n.blk \notin cache_[q]
        /\ n.blk \notin leaked /\ (n.pool # 0 => life[n.pool] = "live")
    BY <1>1, <1>2 DEF BlocksApart
  <2> QED
    BY <1>3, <2>1, <2>2, <2>3 DEF BlocksApart
<1>10. HandsApart'
  BY <1>3, <1>4, <1>5, <1>6, <1>8 DEF HandsApart, Held
<1>11. HeadersApart' /\ surfpool_' \in SUBSET SurfArray
       /\ malloced' \in SUBSET (Headers \ SurfArray)
  BY <1>2, <1>3, <1>4, <1>6, HeaderTaken
<1>12. MappedHeld'
  <2>1. \A v \in Users : Held(v) \subseteq Held(v)'
    BY <1>6
  <2> QED
    BY <1>3, <2>1 DEF MappedHeld
<1>13. Counted'
  <2>1. PICK p \in Pools : p = pool_ /\ life[p] = "live" /\ c.pool = p /\ n.pool = p
    BY <1>1, <1>2, <1>3 DEF Locks, TypeOK, Pools
  <2>2. \A q \in Pools \ {p} : Out(q)' = Out(q)
    <3> SUFFICES ASSUME NEW q \in Pools \ {p} PROVE Out(q)' = Out(q)
      OBVIOUS
    <3>1. ASSUME NEW t \in Out(q) PROVE t \in Out(q)'
      <4>1. PICK v \in Users : t \in Having(v) /\ t.pool = q
        BY DEF Out
      <4>2. t \in Having(v)'
        BY <1>1, <1>6, <2>1, <4>1
      <4> QED
        BY <4>1, <4>2 DEF Out
    <3>2. ASSUME NEW t \in Out(q)' PROVE t \in Out(q)
      <4>1. PICK v \in Users : t \in Having(v)' /\ t.pool = q
        BY DEF Out
      <4>2. t \in Having(v)
        BY <1>1, <1>6, <2>1, <4>1
      <4> QED
        BY <4>1, <4>2 DEF Out
    <3> QED
      BY <3>1, <3>2
  <2>3. Out(p)' = (Out(p) \ {c}) \cup {n} /\ c \in Out(p) /\ n \notin Out(p) \ {c}
    <3>1. c \in Out(p) /\ n \in Out(p)'
      BY <1>1, <1>6, <2>1 DEF Out
    <3>2. ASSUME NEW t \in Out(p), t # c PROVE t \in Out(p)' /\ t # n
      <4>1. PICK v \in Users : t \in Having(v) /\ t.pool = p
        BY DEF Out
      <4>2. t \in Having(v)' /\ t # n
        BY <1>1, <1>6, <1>7, <3>2, <4>1
      <4> QED
        BY <4>1, <4>2 DEF Out
    <3>3. ASSUME NEW t \in Out(p)' PROVE t = n \/ (t \in Out(p) /\ t # c)
      <4>1. PICK v \in Users : t \in Having(v)' /\ t.pool = p
        BY DEF Out
      <4>2. t = n \/ (t \in Having(v) /\ t # c)
        BY <1>1, <1>2, <1>6, <1>7, <4>1
      <4> QED
        BY <4>1, <4>2 DEF Out
    <3> QED
      BY <3>1, <3>2, <3>3
  <2>4. IsFiniteSet(Out(p)') /\ Cardinality(Out(p)') = Cardinality(Out(p))
    <3>1. IsFiniteSet(Out(p)) /\ Cardinality(Out(p)) \in Nat
      BY <2>1, LiveCounts
    <3>2. /\ IsFiniteSet(Out(p) \ {c})
          /\ Cardinality(Out(p) \ {c}) = Cardinality(Out(p)) - 1
      BY <2>3, <3>1, FS_RemoveElement, Zenon
    <3>3. /\ IsFiniteSet((Out(p) \ {c}) \cup {n})
          /\ Cardinality((Out(p) \ {c}) \cup {n}) = Cardinality(Out(p) \ {c}) + 1
      BY <2>3, <3>2, FS_AddElement, Zenon
    <3> QED
      BY <2>3, <3>1, <3>2, <3>3
  <2> QED
    BY <1>3, <2>2, <2>4 DEF Counted
<1>14. TypeOK'
  BY <1>3, <1>4, <1>5, <1>11 DEF TypeOK, CallerTyped
<1>15. Locks' /\ NoUseAfterDestroy'
  BY <1>3, <1>4, BufPoolConstants DEF Locks, Owner, Nobody, NoUseAfterDestroy
<1> QED
  BY <1>9, <1>10, <1>11, <1>12, <1>13, <1>14, <1>15

LEMMA NoHeaderStep ==
  ASSUME BuffersInv, NEW u \in Users, NoHeader(u)
  PROVE  BuffersInv'
<1> USE DEF BuffersInv
<1>1. PICK c \in Surfaces : c = cur[u] /\ c \in Having(u) /\ c \notin Held(u)
        /\ c.pool # 0 /\ Having(u) = Held(u) \cup {c}
  BY DEF NoHeader, TypeOK, Having, HandsApart, Locks
<1>2. /\ pc[u] = "header" /\ PutBack(c) /\ Retry(u)
      /\ UNCHANGED <<pool_, stopped_, opc, life, is_vb_pool_, service, owned, mapped,
                     leaked, crashed>>
  BY <1>1 DEF NoHeader
<1>3. /\ CallerTyped' /\ pc'[u] \in {"idle", "lock"} /\ bmutex' = Nobody
      /\ \A v \in Users \ {u} : pc'[v] = pc[v] /\ cur'[v] = cur[v]
  BY <1>2, RetryFacts
<1>4. /\ Having(u)' = Having(u) \ {c} /\ \A v \in Users : Held(v)' = Held(v)
      /\ \A v \in Users \ {u} : Having(v)' = Having(v)
  BY <1>1, <1>2, <1>3 DEF Held, Having
<1>5. /\ BlocksApart' /\ Counted'
      /\ cache_' \in [Pools -> SUBSET Blocks] /\ alloc_count_' \in [Pools -> 0 .. BlockNum]
  BY <1>1, <1>2, <1>4, GivenBack
<1>6. HandsApart' /\ HeadersApart' /\ MappedHeld'
  <2>1. \A v \in Users : /\ pc'[v] = "header" => pc[v] = "header" /\ cur'[v] = cur[v]
                         /\ pc'[v] = "freehdr" <=> pc[v] = "freehdr"
                         /\ pc[v] = "freehdr" => cur'[v] = cur[v]
    BY <1>2, <1>3
  <2>2. HandsApart'
    BY <1>2, <1>4, <2>1 DEF HandsApart
  <2> QED
    BY <1>2, <2>1, <2>2, HeadersFrame, MappedFrame
<1>7. TypeOK'
  BY <1>2, <1>3, <1>5 DEF TypeOK, CallerTyped
<1>8. Locks' /\ NoUseAfterDestroy'
  BY <1>2, <1>3, BufPoolConstants DEF Locks, Owner, Nobody, NoUseAfterDestroy
<1> QED
  BY <1>5, <1>6, <1>7, <1>8

LEMMA CreateSurfaceStep ==
  ASSUME BuffersInv, NEW u \in Users, NEW b \in Blocks, NEW h \in Headers,
         CreateSurface(u, b, h)
  PROVE  BuffersInv'
<1> USE DEF BuffersInv
<1>1. PICK n \in Surfaces : n = [pool |-> 0, blk |-> b, hdr |-> h] /\ n.pool = 0
                            /\ n.blk = b /\ n.hdr = h
  <2>1. 0 \in 0 .. MaxPools
    BY BufPoolConstants
  <2>2. [pool |-> 0, blk |-> b, hdr |-> h] \in Surfaces
    BY <2>1 DEF Surfaces
  <2> QED
    BY <2>2
<1>2. /\ pc[u] = "idle" /\ b \in System /\ TakeHeader(h)
      /\ raw' = [raw EXCEPT ![u] = @ \cup {n}]
      /\ UNCHANGED <<bufpool, mempool, caller, wrap, mapped, leaked, crashed>>
  BY <1>1 DEF CreateSurface
<1>3. /\ raw'[u] = raw[u] \cup {n} /\ \A v \in Users \ {u} : raw'[v] = raw[v]
      /\ raw' \in [Users -> SUBSET Surfaces]
  BY <1>2 DEF TypeOK
<1>4. /\ Held(u)' = Held(u) \cup {n} /\ Having(u)' = Having(u) \cup {n}
      /\ Using(u)' = Using(u) \cup {n} /\ Having(u) = Held(u)
      /\ \A v \in Users \ {u} : /\ Held(v)' = Held(v) /\ Having(v)' = Having(v)
                                /\ Using(v)' = Using(v)
  BY <1>2, <1>3 DEF Held, Having, Using
<1>5. /\ b \notin leaked /\ \A p \in Pools : b \notin cache_[p]
      /\ \A v \in Users : \A s \in Having(v) : s.blk # b
  BY <1>2, SystemFree
<1>6. n \notin Held(u)
  BY <1>1, <1>4, <1>5
<1>7. \A v \in Users : \A t \in Having(v)' : t \in Having(v) \/ (v = u /\ t = n)
  BY <1>4
<1>8. BlocksApart'
  <2>1. \A v, w \in Users : \A x \in Having(v)', y \in Having(w)' :
          x.blk = y.blk => v = w /\ x = y
    BY <1>1, <1>5, <1>7 DEF BlocksApart
  <2> QED
    BY <1>1, <1>2, <1>5, <1>7, <2>1 DEF BlocksApart
<1>9. HandsApart'
  BY <1>2, <1>3, <1>4, <1>6 DEF HandsApart, Held
<1>10. HeadersApart' /\ surfpool_' \in SUBSET SurfArray
       /\ malloced' \in SUBSET (Headers \ SurfArray)
  BY <1>1, <1>2, <1>4, HeaderTaken
<1>11. MappedHeld'
  <2>1. \A v \in Users : Held(v) \subseteq Held(v)'
    BY <1>4
  <2> QED
    BY <1>2, <2>1 DEF MappedHeld
<1>12. Counted'
  <2>1. \A p \in Pools : Out(p)' = Out(p)
    <3> SUFFICES ASSUME NEW p \in Pools PROVE Out(p)' = Out(p)
      OBVIOUS
    <3>1. p # 0 /\ \A v \in Users : \A t : t.pool = p => (t \in Having(v)' <=> t \in Having(v))
      BY <1>1, <1>4 DEF Pools
    <3> QED
      BY <3>1 DEF Out
  <2> QED
    BY <1>2, <2>1 DEF Counted
<1>13. TypeOK'
  BY <1>2, <1>3, <1>10 DEF TypeOK
<1>14. Locks' /\ NoUseAfterDestroy'
  BY <1>2 DEF Locks, NoUseAfterDestroy
<1> QED
  BY <1>8, <1>9, <1>10, <1>11, <1>12, <1>13, <1>14

-----------------------------------------------------------------------------
(* BufSurfaceWrapper *)

LEMMA WrapperStep ==
  ASSUME BuffersInv, NEW u \in Users, NEW s \in Held(u),
         BufSurfaceChown(u, s) \/ GetHostData(u, s)
  PROVE  BuffersInv'
<1> USE DEF BuffersInv
<1>1. CASE BufSurfaceChown(u, s)
  <2>1. /\ pc[u] = "idle" /\ s \in wrap[u] /\ s \in Surfaces
        /\ wrap'[u] = wrap[u] \ {s} /\ raw'[u] = raw[u] \cup {s}
        /\ \A v \in Users \ {u} : wrap'[v] = wrap[v] /\ raw'[v] = raw[v]
        /\ UNCHANGED <<bufpool, mempool, service, caller, mapped, leaked, crashed>>
    BY <1>1 DEF BufSurfaceChown, TypeOK
  <2>2. \A v \in Users : Held(v)' = Held(v)
    BY <2>1 DEF Held
  <2>3. \A v \in Users : Having(v)' = Having(v) /\ Using(v)' = Using(v)
    BY <2>1, <2>2 DEF Having, Using
  <2>4. TypeOK'
    BY <1>1, <2>1 DEF BufSurfaceChown, TypeOK
  <2>5. BlocksApart' /\ HandsApart'
    BY <2>1, <2>2, <2>3 DEF BlocksApart, HandsApart
  <2>6. HeadersApart' /\ MappedHeld'
    BY <2>1, <2>2, <2>3 DEF HeadersApart, MappedHeld
  <2>7. Counted'
    BY <2>1, <2>3, CountedFrame
  <2>8. Locks' /\ NoUseAfterDestroy'
    BY <2>1 DEF Locks, NoUseAfterDestroy
  <2> QED
    BY <2>4, <2>5, <2>6, <2>7, <2>8
<1>2. CASE GetHostData(u, s)
  <2>1. /\ s.pool # 0 /\ mapped' = mapped \cup {s.blk}
        /\ UNCHANGED <<bufpool, mempool, service, caller, owned, leaked, crashed>>
    BY <1>2 DEF GetHostData
  <2>2. s.blk \in Blocks
    BY HavingTyped
  <2>3. TypeOK'
    BY <2>1, <2>2 DEF TypeOK
  <2>4. BlocksApart' /\ HandsApart' /\ HeadersApart' /\ Counted'
    BY <2>1, BlocksFrame, HandsFrame, HeadersFrame, HavingFrame, CountedFrame
  <2>5. MappedHeld'
    <3>1. \A v \in Users : Held(v)' = Held(v)
      BY <2>1 DEF Held
    <3> QED
      BY <2>1, <3>1 DEF MappedHeld
  <2>6. Locks' /\ NoUseAfterDestroy'
    BY <2>1 DEF Locks, NoUseAfterDestroy
  <2> QED
    BY <2>3, <2>4, <2>5, <2>6
<1> QED
  BY <1>1, <1>2

\* The thread lets go of s and still has its struct.
LEMMA Dropped ==
  ASSUME BuffersInv, NEW u \in Users, NEW s \in Held(u), pc[u] = "idle", Drop(u, s)
  PROVE  /\ wrap' \in [Users -> SUBSET Surfaces] /\ raw' \in [Users -> SUBSET Surfaces]
         /\ pc' \in [Users -> {"idle", "lock", "attempt", "header", "freehdr"}]
         /\ cur' \in [Users -> Surfaces]
         /\ pc'[u] = "freehdr" /\ cur'[u] = s
         /\ \A v \in Users \ {u} : pc'[v] = pc[v] /\ cur'[v] = cur[v]
         /\ Held(u)' = Held(u) \ {s} /\ \A v \in Users \ {u} : Held(v)' = Held(v)
         /\ Having(u)' = Having(u) \ {s} /\ s \in Having(u)
         /\ \A v \in Users \ {u} : Having(v)' = Having(v)
         /\ HandsApart'
         /\ UNCHANGED <<surfpool_, malloced>> => HeadersApart'
<1> USE DEF BuffersInv
<1>0. s \in Surfaces
  BY HavingTyped
<1>1. /\ wrap' \in [Users -> SUBSET Surfaces] /\ raw' \in [Users -> SUBSET Surfaces]
      /\ pc' \in [Users -> {"idle", "lock", "attempt", "header", "freehdr"}]
      /\ cur' \in [Users -> Surfaces]
      /\ pc'[u] = "freehdr" /\ cur'[u] = s
      /\ wrap'[u] = wrap[u] \ {s} /\ raw'[u] = raw[u] \ {s}
      /\ \A v \in Users \ {u} : /\ pc'[v] = pc[v] /\ cur'[v] = cur[v]
                                /\ wrap'[v] = wrap[v] /\ raw'[v] = raw[v]
  BY <1>0 DEF Drop, TypeOK
<1>2. Held(u)' = Held(u) \ {s} /\ \A v \in Users \ {u} : Held(v)' = Held(v)
  BY <1>1 DEF Held
<1>3. /\ Having(u)' = Having(u) \ {s} /\ s \in Having(u)
      /\ \A v \in Users \ {u} : Having(v)' = Having(v)
  BY <1>1, <1>2 DEF Having
<1>4. \A v \in Users : Using(v)' = Using(v)
  BY <1>1, <1>2 DEF Using
<1>5. HandsApart'
  BY <1>1, <1>2 DEF HandsApart
<1>6. ASSUME UNCHANGED <<surfpool_, malloced>> PROVE HeadersApart'
  BY <1>1, <1>2, <1>4, <1>6 DEF HeadersApart
<1> QED
  BY <1>1, <1>2, <1>3, <1>5, <1>6

LEMMA FreeStep ==
  ASSUME BuffersInv, NEW u \in Users, NEW s \in Held(u), Free(u, s)
  PROVE  BuffersInv'
<1> USE DEF BuffersInv
<1>1. /\ crashed = 0 /\ pc[u] = "idle" /\ s.pool # 0 /\ PutBack(s) /\ Drop(u, s)
      /\ mapped' = mapped \ {s.blk}
      /\ UNCHANGED <<bufpool, life, is_vb_pool_, service, count, retry_cnt, leaked, crashed>>
  BY DEF Free
<1>2. /\ wrap' \in [Users -> SUBSET Surfaces] /\ raw' \in [Users -> SUBSET Surfaces]
      /\ pc' \in [Users -> {"idle", "lock", "attempt", "header", "freehdr"}]
      /\ cur' \in [Users -> Surfaces]
      /\ pc'[u] = "freehdr"
      /\ \A v \in Users \ {u} : pc'[v] = pc[v] /\ cur'[v] = cur[v]
      /\ Held(u)' = Held(u) \ {s} /\ \A v \in Users \ {u} : Held(v)' = Held(v)
      /\ Having(u)' = Having(u) \ {s} /\ s \in Having(u)
      /\ \A v \in Users \ {u} : Having(v)' = Having(v)
      /\ HandsApart' /\ HeadersApart'
  BY <1>1, Dropped
<1>3. /\ BlocksApart' /\ Counted'
      /\ cache_' \in [Pools -> SUBSET Blocks] /\ alloc_count_' \in [Pools -> 0 .. BlockNum]
  BY <1>1, <1>2, GivenBack
<1>4. MappedHeld'
  <2> SUFFICES ASSUME NEW b \in mapped, b # s.blk
               PROVE  \E v \in Users : \E t \in Held(v)' : t.blk = b /\ t.pool # 0
    BY <1>1 DEF MappedHeld
  <2>1. PICK v \in Users : \E t \in Held(v) : t.blk = b /\ t.pool # 0
    BY DEF MappedHeld
  <2>2. PICK t \in Held(v) : t.blk = b /\ t.pool # 0
    BY <2>1
  <2>3. t \in Held(v)'
    BY <1>2, <2>2
  <2> QED
    BY <2>2, <2>3
<1>5. TypeOK'
  BY <1>1, <1>2, <1>3 DEF TypeOK
<1>6. Locks' /\ NoUseAfterDestroy'
  BY <1>1, <1>2 DEF Locks, NoUseAfterDestroy
<1> QED
  BY <1>2, <1>3, <1>4, <1>5, <1>6

LEMMA DestroySurfaceStep ==
  ASSUME BuffersInv, NEW u \in Users, NEW s \in Held(u), DestroySurface(u, s)
  PROVE  BuffersInv'
<1> USE DEF BuffersInv
<1>1. /\ crashed = 0 /\ pc[u] = "idle" /\ s.pool = 0 /\ Drop(u, s)
      /\ UNCHANGED <<bufpool, mempool, service, count, retry_cnt, mapped, leaked, crashed>>
  BY DEF DestroySurface
<1>2. /\ wrap' \in [Users -> SUBSET Surfaces] /\ raw' \in [Users -> SUBSET Surfaces]
      /\ pc' \in [Users -> {"idle", "lock", "attempt", "header", "freehdr"}]
      /\ cur' \in [Users -> Surfaces]
      /\ pc'[u] = "freehdr"
      /\ \A v \in Users \ {u} : pc'[v] = pc[v] /\ cur'[v] = cur[v]
      /\ Held(u)' = Held(u) \ {s} /\ \A v \in Users \ {u} : Held(v)' = Held(v)
      /\ Having(u)' = Having(u) \ {s} /\ s \in Having(u)
      /\ \A v \in Users \ {u} : Having(v)' = Having(v)
      /\ HandsApart' /\ HeadersApart'
  BY <1>1, Dropped
<1>3. BlocksApart'
  <2>1. \A v \in Users : \A t \in Having(v)' : t \in Having(v)
    BY <1>2
  <2> QED
    BY <1>1, <2>1 DEF BlocksApart
<1>4. MappedHeld'
  <2> SUFFICES ASSUME NEW b \in mapped
               PROVE  \E v \in Users : \E t \in Held(v)' : t.blk = b /\ t.pool # 0
    BY <1>1 DEF MappedHeld
  <2>1. PICK v \in Users : \E t \in Held(v) : t.blk = b /\ t.pool # 0
    BY DEF MappedHeld
  <2>2. PICK t \in Held(v) : t.blk = b /\ t.pool # 0
    BY <2>1
  <2>3. t \in Held(v)'
    BY <1>1, <1>2, <2>2
  <2> QED
    BY <2>2, <2>3
<1>5. Counted'
  <2>1. \A p \in Pools : Out(p)' = Out(p)
    <3> SUFFICES ASSUME NEW p \in Pools PROVE Out(p)' = Out(p)
      OBVIOUS
    <3>1. p # 0 /\ \A v \in Users : \A t : t.pool = p => (t \in Having(v)' <=> t \in Having(v))
      BY <1>1, <1>2 DEF Pools
    <3> QED
      BY <3>1 DEF Out
  <2> QED
    BY <1>1, <2>1 DEF Counted
<1>6. TypeOK'
  BY <1>1, <1>2 DEF TypeOK
<1>7. Locks' /\ NoUseAfterDestroy'
  BY <1>1, <1>2 DEF Locks, NoUseAfterDestroy
<1> QED
  BY <1>2, <1>3, <1>4, <1>5, <1>6, <1>7

LEMMA FreeSurfaceStep ==
  ASSUME BuffersInv, NEW u \in Users, FreeSurface(u)
  PROVE  BuffersInv'
<1> USE DEF BuffersInv
<1>1. PICK c \in Surfaces : c = cur[u] /\ c \in Using(u) /\ c \notin Held(u)
        /\ Using(u) = Held(u) \cup {c}
  BY DEF FreeSurface, TypeOK, Using, HeadersApart
<1>2. /\ pc[u] = "freehdr" /\ Returned(u)
      /\ surfpool_' = surfpool_ \cup ({c.hdr} \cap SurfArray)
      /\ malloced' = malloced \ {c.hdr}
      /\ UNCHANGED <<bufpool, mempool, owned, mapped, leaked, crashed>>
  BY <1>1 DEF FreeSurface
<1>3. /\ CallerTyped' /\ pc'[u] = "idle"
      /\ \A v \in Users \ {u} : pc'[v] = pc[v] /\ cur'[v] = cur[v]
  BY <1>2, ReturnedFacts
<1>4. \A v \in Users : /\ pc'[v] = "header" <=> pc[v] = "header"
                       /\ pc[v] = "header" => cur'[v] = cur[v]
  BY <1>2, <1>3
<1>5. BlocksApart' /\ HandsApart' /\ MappedHeld'
  BY <1>2, <1>4, BlocksFrame, HandsFrame, MappedFrame
<1>6. Counted'
  BY <1>2, <1>4, HavingFrame, CountedFrame
<1>7. HeadersApart'
  <2>1. /\ \A v \in Users : Held(v)' = Held(v) /\ Using(v)' = Using(v) \ {c}
    <3>1. \A v \in Users : Held(v)' = Held(v)
      BY <1>2 DEF Held
    <3>2. Using(u)' = Using(u) \ {c}
      BY <1>1, <1>3, <3>1 DEF Using
    <3>3. \A v \in Users \ {u} : Using(v)' = Using(v) /\ c \notin Using(v)
      BY <1>1, <1>3, <3>1 DEF Using, HeadersApart
    <3> QED
      BY <3>1, <3>2, <3>3
  <2>2. \A v \in Users : \A t \in Using(v)' : t \in Using(v) /\ t.hdr # c.hdr
    BY <1>1, <2>1 DEF HeadersApart
  <2>3. \A v \in Users : \A t \in Using(v)' :
          (t.hdr \in SurfArray \ surfpool_') \/ t.hdr \in malloced'
    BY <1>2, <2>2 DEF HeadersApart
  <2>4. \A h \in malloced' : \E v \in Users : \E t \in Using(v)' : t.hdr = h
    BY <1>2, <2>1 DEF HeadersApart
  <2>5. \A v \in Users : pc'[v] = "freehdr" => cur'[v] \notin Held(v)'
    BY <1>3, <2>1 DEF HeadersApart
  <2> QED
    BY <2>2, <2>3, <2>4, <2>5 DEF HeadersApart
<1>8. TypeOK'
  BY <1>2, <1>3 DEF TypeOK, CallerTyped
<1>9. Locks' /\ NoUseAfterDestroy'
  BY <1>2, <1>3, BufPoolConstants DEF Locks, Owner, Nobody, NoUseAfterDestroy
<1> QED
  BY <1>5, <1>6, <1>7, <1>8, <1>9

\* A buffer that is out keeps its pool alive: opaque never dangles.
LEMMA NeverFreeDangling ==
  ASSUME BuffersInv, NEW u \in Users, NEW s \in Held(u)
  PROVE  ~FreeDangling(u, s)
<1>1. s \in Having(u)
  BY DEF Having
<1>2. s.pool # 0 => life[s.pool] = "live"
  BY <1>1 DEF BuffersInv, BlocksApart
<1> QED
  BY <1>2 DEF FreeDangling, Dangling

-----------------------------------------------------------------------------
LEMMA BuffersStep == BuffersInv /\ [Next]_vars => BuffersInv'
<1> SUFFICES ASSUME BuffersInv, [Next]_vars PROVE BuffersInv'
  OBVIOUS
<1>1. CASE UNCHANGED vars
  <2>1. UNCHANGED <<bufpool, mempool, service, caller, owned, mapped, leaked, crashed>>
    BY <1>1 DEF vars
  <2>2. \A u \in Users : Having(u)' = Having(u) /\ Held(u)' = Held(u)
    BY <2>1, HavingFrame
  <2>3. TypeOK' /\ Locks' /\ NoUseAfterDestroy'
    BY <2>1 DEF BuffersInv, TypeOK, Locks, NoUseAfterDestroy
  <2> QED
    BY <2>1, <2>2, <2>3, BlocksFrame, HandsFrame, HeadersFrame, MappedFrame, CountedFrame
       DEF BuffersInv
<1>2. CASE OwnerStep
  BY <1>2, CreatePoolStep, CreatePoolFailsStep, DestroyQuietStep, DestroyDoneStep
     DEF OwnerStep
<1>3. ASSUME NEW u \in Users, UserStep(u) PROVE BuffersInv'
  <2>1. CASE GetStep(u)
    BY <2>1, CallStep, AllocStep, DestroyQuietStep, MakeWrapperStep, NoHeaderStep DEF GetStep
  <2>2. CASE GiveBack(u)
    BY <2>2, FreeStep, NeverFreeDangling, DestroySurfaceStep, FreeSurfaceStep DEF GiveBack, GiveBackPooled
  <2> QED
    BY <1>3, <2>1, <2>2, CallStep, CreateSurfaceStep, WrapperStep DEF UserStep
<1> QED
  BY <1>1, <1>2, <1>3 DEF Next

LEMMA BuffersInvariant == Spec => []BuffersInv
  BY InitBuffers, BuffersStep, PTL DEF Spec

-----------------------------------------------------------------------------
(* What the invariant says *)

LEMMA AtMostOne ==
  ASSUME NEW S, \A x, y \in S : x = y
  PROVE  Cardinality(S) <= 1
<1>1. CASE S = {}
  BY <1>1, FS_EmptySet
<1>2. CASE S # {}
  <2>1. PICK x : S = {x}
    BY <1>2
  <2> QED
    BY <2>1, FS_Singleton
<1> QED
  BY <1>1, <1>2

LEMMA OnePlace == BuffersInv => BlockInOnePlace
<1> SUFFICES ASSUME BuffersInv, NEW b \in Blocks, NEW x \in Places(b), NEW y \in Places(b)
             PROVE  x = y
  BY AtMostOne DEF BlockInOnePlace
<1> USE DEF BuffersInv
<1> DEFINE InQueue(z) == \E p \in Pools : z = <<"pool", p>> /\ b \in cache_[p]
           With(z, k) == \E v \in Users : \E s \in Having(v) :
                           /\ z = <<k, v>> /\ s.blk = b
                           /\ k = "wrap" => s \in wrap[v]
                           /\ k = "raw" => s \in raw[v]
                           /\ k = "hand" => pc[v] = "header" /\ s = cur[v]
           Lost(z) == z = <<"lost", 0>> /\ b \in leaked
<1>1. ASSUME NEW z \in Places(b)
      PROVE  InQueue(z) \/ With(z, "wrap") \/ With(z, "raw") \/ With(z, "hand") \/ Lost(z)
  <2>1. CASE z \in {<<"pool", p>> : p \in {q \in Pools : b \in cache_[q]}}
    BY <2>1
  <2>2. CASE z \in {<<"wrap", u>> : u \in {v \in Users : \E s \in wrap[v] : s.blk = b}}
    <3>1. PICK v \in Users : z = <<"wrap", v>> /\ \E s \in wrap[v] : s.blk = b
      BY <2>2
    <3>2. PICK s \in wrap[v] : s.blk = b
      BY <3>1
    <3>3. s \in Having(v)
      BY <3>2 DEF Having, Held
    <3> QED
      BY <3>1, <3>2, <3>3
  <2>3. CASE z \in {<<"raw", u>> : u \in {v \in Users : \E s \in raw[v] : s.blk = b}}
    <3>1. PICK v \in Users : z = <<"raw", v>> /\ \E s \in raw[v] : s.blk = b
      BY <2>3
    <3>2. PICK s \in raw[v] : s.blk = b
      BY <3>1
    <3>3. s \in Having(v)
      BY <3>2 DEF Having, Held
    <3> QED
      BY <3>1, <3>2, <3>3
  <2>4. CASE z \in {<<"hand", u>> : u \in {v \in Users : pc[v] = "header" /\ cur[v].blk = b}}
    <3>1. PICK v \in Users : z = <<"hand", v>> /\ pc[v] = "header" /\ cur[v].blk = b
      BY <2>4
    <3>2. cur[v] \in Having(v)
      BY <3>1 DEF Having
    <3> QED
      BY <3>1, <3>2
  <2>5. CASE z \in {<<"lost", 0>> : w \in {0} \cap (IF b \in leaked THEN {0} ELSE {})}
    BY <2>5
  <2> QED
    BY <2>1, <2>2, <2>3, <2>4, <2>5 DEF Places
<1>2. \A p, q \in Pools : b \in cache_[p] /\ b \in cache_[q] => p = q
  BY DEF BlocksApart, Locks
<1>3. \A p \in Pools : b \in cache_[p] => b \notin leaked
  BY DEF BlocksApart
<1>4. \A v \in Users : \A s \in Having(v) : s.blk = b =>
        b \notin leaked /\ \A p \in Pools : b \notin cache_[p]
  BY DEF BlocksApart
<1>5. \A v, w \in Users : \A s \in Having(v), t \in Having(w) :
        s.blk = b /\ t.blk = b => v = w /\ s = t
  BY DEF BlocksApart
<1>6. \A v \in Users : wrap[v] \cap raw[v] = {} /\ (pc[v] = "header" => cur[v] \notin wrap[v] \cup raw[v])
  BY DEF HandsApart, Held
<1>7. CASE InQueue(x)
  BY <1>1, <1>2, <1>3, <1>4, <1>7
<1>8. CASE Lost(x)
  BY <1>1, <1>3, <1>4, <1>8
<1>9. CASE With(x, "wrap")
  BY <1>1, <1>4, <1>5, <1>6, <1>9
<1>10. CASE With(x, "raw")
  BY <1>1, <1>4, <1>5, <1>6, <1>10
<1>11. CASE With(x, "hand")
  BY <1>1, <1>4, <1>5, <1>6, <1>11
<1> HIDE DEF InQueue, With, Lost
<1> QED
  BY <1>1, <1>7, <1>8, <1>9, <1>10, <1>11

LEMMA OneHeader == BuffersInv => HeaderInOnePlace
<1> SUFFICES ASSUME BuffersInv, NEW h \in Headers
             PROVE  LET users == {u \in Users : \/ \E s \in Held(u) : s.hdr = h
                                                \/ pc[u] = "freehdr" /\ cur[u].hdr = h}
                    IN /\ Cardinality(users) <= 1
                       /\ users # {} => (h \in SurfArray /\ h \notin surfpool_) \/ h \in malloced
                       /\ users = {} => h \notin malloced
  BY DEF HeaderInOnePlace
<1> DEFINE users == {u \in Users : \/ \E s \in Held(u) : s.hdr = h
                                   \/ pc[u] = "freehdr" /\ cur[u].hdr = h}
<1> USE DEF BuffersInv
<1>1. \A u \in Users : u \in users <=> \E s \in Using(u) : s.hdr = h
  BY DEF Using
<1>2. users \subseteq Users
  OBVIOUS
<1> HIDE DEF users
<1>3. \A u, v \in users : u = v
  BY <1>1, <1>2 DEF HeadersApart
<1>4. users # {} => (h \in SurfArray /\ h \notin surfpool_) \/ h \in malloced
  BY <1>1, <1>2 DEF HeadersApart
<1>5. users = {} => h \notin malloced
  BY <1>1, <1>2 DEF HeadersApart
<1>6. Cardinality(users) <= 1
  BY <1>3, AtMostOne
<1> QED
  BY <1>4, <1>5, <1>6 DEF users

LEMMA InvImpliesSafe == BuffersInv => PoolSafe
<1> SUFFICES ASSUME BuffersInv PROVE PoolSafe
  OBVIOUS
<1> USE DEF BuffersInv
<1>1. AllocCountExact
  BY DEF AllocCountExact, Counted, Out
<1>2. NoStaleMapping
  <2> SUFFICES ASSUME NEW p \in Pools, NEW b \in cache_[p], b \in mapped PROVE FALSE
    BY DEF NoStaleMapping
  <2>1. PICK u \in Users : \E s \in Held(u) : s.blk = b
    BY DEF MappedHeld
  <2>2. PICK s \in Having(u) : s.blk = b
    BY <2>1 DEF Having
  <2> QED
    BY <2>2 DEF BlocksApart
<1> QED
  BY <1>1, <1>2, OnePlace, OneHeader DEF PoolSafe

\* BufPool, MemPool and BufSurfaceService keep the memory safe for every number of
\* threads, blocks, structs, pools and attempts: a block and a struct are in one
\* place, alloc_count_ is the number of buffers out, no pool is used after
\* MemPool::Destroy, and no mapping outlives its wrapper.
THEOREM PoolIsSafe == Spec => []PoolSafe
  BY BuffersInvariant, InvImpliesSafe, PTL

-----------------------------------------------------------------------------
(* BufPool implements ResourcePool *)

\* Blocks of the pool that thread u has.
BlocksOf(u) == {s.blk : s \in {x \in Having(u) : x.pool = pool_ /\ pool_ # 0}}

LEMMA PoolOutIs ==
  /\ PoolOut = [u \in Users |-> BlocksOf(u)]
  /\ PoolOut' = [u \in Users |-> BlocksOf(u)']
  BY DEF PoolOut, BlocksOf

LEMMA BlocksOfMembers ==
  ASSUME NEW u \in Users
  PROVE  /\ \A b : b \in BlocksOf(u) <=>
              pool_ # 0 /\ \E s \in Having(u) : s.blk = b /\ s.pool = pool_
         /\ \A b : b \in BlocksOf(u)' <=>
              pool_' # 0 /\ \E s \in Having(u)' : s.blk = b /\ s.pool = pool_'
  BY DEF BlocksOf

\* A step that leaves the pool, its queue and its buffers alone is not seen.
LEMMA Unseen ==
  ASSUME UNCHANGED <<pool_, stopped_, life, cache_>>,
         \A u \in Users : BlocksOf(u)' = BlocksOf(u)
  PROVE  UNCHANGED Pool!pvars
<1>1. PoolPhase' = PoolPhase /\ PoolInside' = PoolInside
  BY DEF PoolPhase, PoolInside, Dangling
<1>2. PoolOut' = PoolOut
  BY PoolOutIs
<1> QED
  BY <1>1, <1>2 DEF Pool!pvars

\* Without a pool there is nothing to see.
LEMMA AbsentPool ==
  ASSUME BuffersInv, pool_ = 0 \/ Dangling(pool_)
  PROVE  PoolPhase = "absent" /\ PoolInside = {} /\ \A u \in Users : BlocksOf(u) = {}
<1>1. /\ \A p \in Pools : cache_[p] = {}
      /\ \A u \in Users : \A s \in Having(u) : s.pool = 0
  BY NoneLive
<1>2. pool_ # 0 => pool_ \in Pools
  BY DEF Dangling
<1>3. PoolInside = {}
  BY <1>1, <1>2 DEF PoolInside
<1>4. \A u \in Users : BlocksOf(u) = {}
  BY <1>1 DEF BlocksOf
<1> QED
  BY <1>3, <1>4 DEF PoolPhase

LEMMA CreatePoolMaps ==
  ASSUME BuffersInv, NEW vb \in BOOLEAN, NEW S \in SUBSET Blocks, CreatePool(vb, S)
  PROVE  Pool!Open(S)
<1>0. PICK n \in Pools : n = NextPool /\ n # 0
  BY NextPoolUnborn DEF CreatePool, BuffersInv
<1>1. /\ pool_ = 0 \/ Dangling(pool_)
      /\ Cardinality(S) = BlockNum
      /\ pool_' = n /\ stopped_' = FALSE
      /\ life' = [life EXCEPT ![n] = "live"]
      /\ cache_' = [cache_ EXCEPT ![n] = S]
      /\ UNCHANGED <<caller, owned>>
  BY <1>0 DEF CreatePool
<1>2. PoolPhase = "absent" /\ \A u \in Users : BlocksOf(u) = {}
  BY <1>1, AbsentPool
<1>3. life'[n] = "live" /\ cache_'[n] = S
  BY <1>1 DEF BuffersInv, TypeOK
<1>4. PoolPhase' = "open" /\ PoolInside' = S
  BY <1>0, <1>1, <1>3 DEF PoolPhase, PoolInside, Dangling
<1>5. \A u \in Users : BlocksOf(u)' = {}
  <2>1. \A u \in Users : \A s \in Having(u) : s.pool = 0
    BY <1>1, NoneLive
  <2>2. \A u \in Users : Having(u)' = Having(u)
    BY <1>1, HavingFrame
  <2> QED
    BY <1>0, <1>1, <2>1, <2>2 DEF BlocksOf
<1>6. S # {}
  <2>1. Cardinality({}) = 0 /\ BlockNum # 0
    BY FS_EmptySet, BufPoolConstants
  <2> QED
    BY <1>1, <2>1
<1>7. PoolOut' = PoolOut
  BY <1>2, <1>5, PoolOutIs
<1> QED
  BY <1>2, <1>4, <1>6, <1>7 DEF Pool!Open

LEMMA CreatePoolFailsMaps ==
  ASSUME BuffersInv, BuffersInv', NEW S \in SUBSET Blocks, CreatePoolFails(S)
  PROVE  UNCHANGED Pool!pvars
<1>0. PICK n \in Pools : n = NextPool /\ n # 0 /\ life[n] = "none"
  BY NextPoolUnborn DEF CreatePoolFails, BuffersInv
<1>1. /\ pool_ = 0 \/ Dangling(pool_)
      /\ pool_' = n /\ life' = [life EXCEPT ![n] = "failed"]
      /\ UNCHANGED <<cache_, caller, owned>>
  BY <1>0 DEF CreatePoolFails
<1>2. PoolPhase = "absent" /\ PoolInside = {} /\ \A u \in Users : BlocksOf(u) = {}
  BY <1>1, AbsentPool
<1>3. life'[n] = "failed"
  BY <1>1 DEF BuffersInv, TypeOK
<1>4. PoolPhase' = "absent" /\ PoolInside' = {}
  <2>1. cache_[n] = {}
    BY <1>0 DEF BuffersInv, BlocksApart
  <2> QED
    BY <1>0, <1>1, <1>3, <2>1 DEF PoolPhase, PoolInside, Dangling
<1>5. \A u \in Users : BlocksOf(u)' = {}
  <2>1. \A u \in Users : \A s \in Having(u) : s.pool = 0
    BY <1>1, NoneLive
  <2>2. \A u \in Users : Having(u)' = Having(u)
    BY <1>1, HavingFrame
  <2> QED
    BY <1>0, <1>1, <2>1, <2>2 DEF BlocksOf
<1>6. PoolOut' = PoolOut
  BY <1>2, <1>5, PoolOutIs
<1> QED
  BY <1>2, <1>4, <1>6 DEF Pool!pvars

LEMMA DestroyPoolMaps ==
  ASSUME BuffersInv, DestroyPool
  PROVE  Pool!Close \/ UNCHANGED Pool!pvars
<1>1. ~stopped_ /\ stopped_' = TRUE
      /\ UNCHANGED <<pool_, mempool, caller, owned>>
  BY DEF DestroyPool
<1>2. \A u \in Users : Having(u)' = Having(u)
  BY <1>1, HavingFrame
<1>3. \A u \in Users : BlocksOf(u)' = BlocksOf(u)
  BY <1>1, <1>2 DEF BlocksOf
<1>4. PoolOut' = PoolOut /\ PoolInside' = PoolInside
  BY <1>1, <1>3, PoolOutIs DEF PoolInside
<1>5. CASE pool_ = 0 \/ Dangling(pool_)
  <2>1. PoolPhase' = PoolPhase
    BY <1>1, <1>5 DEF PoolPhase, Dangling
  <2> QED
    BY <1>4, <2>1 DEF Pool!pvars
<1>6. CASE ~(pool_ = 0 \/ Dangling(pool_))
  <2>1. PoolPhase = "open" /\ PoolPhase' = "closing"
    BY <1>1, <1>6 DEF PoolPhase, Dangling
  <2> QED
    BY <1>4, <2>1 DEF Pool!Close
<1> QED
  BY <1>5, <1>6

LEMMA DestroyDoneMaps ==
  ASSUME BuffersInv, DestroyDone
  PROVE  Pool!Release
<1>1. /\ opc = "destroy" /\ life[pool_] = "live" /\ MayFree(pool_)
      /\ life' = [life EXCEPT ![pool_] = "deleted"]
      /\ cache_' = [cache_ EXCEPT ![pool_] = {}]
      /\ UNCHANGED <<pool_, stopped_, caller, owned>>
  BY DEF DestroyDone
<1>2. pool_ \in Pools /\ pool_ # 0 /\ stopped_
  BY <1>1, BufPoolConstants DEF BuffersInv, Locks, TypeOK, Pools
<1>3. \A u \in Users : \A s \in Having(u) : s.pool = 0
  BY <1>1, <1>2, AllBack
<1>4. life'[pool_] = "deleted" /\ cache_'[pool_] = {}
  BY <1>1, <1>2 DEF BuffersInv, TypeOK
<1>5. PoolPhase = "closing" /\ PoolPhase' = "absent" /\ PoolInside' = {}
  BY <1>1, <1>2, <1>4 DEF PoolPhase, PoolInside, Dangling
<1>6. \A u \in Users : BlocksOf(u) = {} /\ BlocksOf(u)' = {}
  <2>1. \A u \in Users : Having(u)' = Having(u)
    BY <1>1, HavingFrame
  <2> QED
    BY <1>1, <1>2, <1>3, <2>1 DEF BlocksOf
<1>7. PoolOut' = PoolOut /\ \A u \in Users : PoolOut[u] = {}
  BY <1>6, PoolOutIs
<1> QED
  BY <1>5, <1>7 DEF Pool!Release

LEMMA AllocMaps ==
  ASSUME BuffersInv, NEW u \in Users, Alloc(u)
  PROVE  \E b \in Blocks : Pool!Take(u, b)
<1>1. PICK b \in cache_[pool_] :
        /\ cur' = [cur EXCEPT ![u] = [@ EXCEPT !.pool = pool_, !.blk = b]]
        /\ cache_' = [cache_ EXCEPT ![pool_] = @ \ {b}]
  BY DEF Alloc
<1>2. /\ pc[u] = "attempt" /\ life[pool_] = "live" /\ pc' = [pc EXCEPT ![u] = "header"]
      /\ UNCHANGED <<pool_, stopped_, life, wrap, raw>>
  BY DEF Alloc
<1>3. pool_ \in Pools /\ pool_ # 0 /\ ~stopped_
  BY <1>2 DEF BuffersInv, Locks, TypeOK, Pools
<1>4. b \in Blocks /\ cache_'[pool_] = cache_[pool_] \ {b}
  BY <1>1, <1>3 DEF BuffersInv, TypeOK
<1>5. cur'[u].pool = pool_ /\ cur'[u].blk = b
  <2>1. cur[u] \in Surfaces /\ cur'[u] = [cur[u] EXCEPT !.pool = pool_, !.blk = b]
    BY <1>1 DEF BuffersInv, TypeOK
  <2> QED
    BY <2>1 DEF Surfaces
<1>6. /\ Having(u)' = Having(u) \cup {cur'[u]}
      /\ \A v \in Users \ {u} : Having(v)' = Having(v)
  BY <1>1, <1>2 DEF Having, Held, BuffersInv, TypeOK
<1>7. BlocksOf(u)' = BlocksOf(u) \cup {b}
  <2>1. \A x : x \in BlocksOf(u)' <=> x \in BlocksOf(u) \/ x = b
    BY <1>2, <1>3, <1>5, <1>6, BlocksOfMembers
  <2> QED
    BY <2>1
<1>8. \A v \in Users \ {u} : BlocksOf(v)' = BlocksOf(v)
  BY <1>2, <1>6 DEF BlocksOf
<1>9. PoolOut' = [PoolOut EXCEPT ![u] = @ \cup {b}]
  BY <1>7, <1>8, PoolOutIs
<1>10. PoolPhase = "open" /\ PoolPhase' = "open" /\ PoolInside = cache_[pool_]
       /\ PoolInside' = cache_[pool_] \ {b}
  BY <1>2, <1>3, <1>4 DEF PoolPhase, PoolInside, Dangling
<1>11. Pool!Take(u, b)
  BY <1>1, <1>9, <1>10 DEF Pool!Take
<1> QED
  BY <1>4, <1>11

\* NoHeader and Free.
LEMMA GiveMaps ==
  ASSUME BuffersInv, NEW u \in Users, NEW s \in Having(u), s.pool # 0, PutBack(s),
         UNCHANGED <<pool_, stopped_, life>>,
         Having(u)' = Having(u) \ {s},
         \A v \in Users \ {u} : Having(v)' = Having(v)
  PROVE  \E b \in Blocks : Pool!Give(u, b)
<1> USE DEF BuffersInv
<1>1. s.pool \in Pools /\ s.pool = pool_ /\ life[pool_] = "live" /\ s.blk \in Blocks
  BY HavingTyped DEF BlocksApart, Locks
<1>2. cache_'[pool_] = cache_[pool_] \cup {s.blk}
  BY <1>1 DEF PutBack, TypeOK
<1>3. \A t \in Having(u) : t.blk = s.blk => t = s
  BY DEF BlocksApart
<1>4. BlocksOf(u)' = BlocksOf(u) \ {s.blk} /\ s.blk \in BlocksOf(u)
  <2>1. s.blk \in BlocksOf(u)
    BY <1>1, BlocksOfMembers
  <2>2. ASSUME NEW x PROVE x \in BlocksOf(u)' <=> x \in BlocksOf(u) /\ x # s.blk
    BY <1>1, <1>3, BlocksOfMembers
  <2> QED
    BY <2>1, <2>2
<1>5. \A v \in Users \ {u} : BlocksOf(v)' = BlocksOf(v)
  BY DEF BlocksOf
<1>6. PoolOut' = [PoolOut EXCEPT ![u] = @ \ {s.blk}] /\ s.blk \in PoolOut[u]
  BY <1>4, <1>5, PoolOutIs
<1>7. /\ PoolPhase # "absent" /\ PoolPhase' = PoolPhase
      /\ PoolInside' = PoolInside \cup {s.blk}
  BY <1>1, <1>2 DEF PoolPhase, PoolInside, Dangling
<1>8. Pool!Give(u, s.blk)
  BY <1>6, <1>7 DEF Pool!Give
<1> QED
  BY <1>1, <1>8

\* The steps of a thread that the pool does not see.
LEMMA UserUnseen ==
  ASSUME BuffersInv, NEW u \in Users,
         \/ (\E t \in Timeouts : Get(u, t)) \/ Lock(u) \/ AllocEmpty(u) \/ AllocDangling(u)
         \/ \E h \in Headers : MakeWrapper(u, h)
         \/ \E b \in Blocks, h \in Headers : CreateSurface(u, b, h)
         \/ \E s \in Held(u) : BufSurfaceChown(u, s) \/ GetHostData(u, s) \/ DestroySurface(u, s)
         \/ FreeSurface(u)
  PROVE  UNCHANGED Pool!pvars
<1> USE DEF BuffersInv
<1>1. UNCHANGED <<pool_, stopped_, life, cache_>>
  BY DEF Get, Lock, AllocEmpty, AllocDangling, MakeWrapper, CreateSurface, BufSurfaceChown,
         GetHostData, DestroySurface, FreeSurface
<1>2. ASSUME \A v \in Users : Having(v)' = Having(v) PROVE UNCHANGED Pool!pvars
  <2>1. \A v \in Users : BlocksOf(v)' = BlocksOf(v)
    BY <1>1, <1>2 DEF BlocksOf
  <2> QED
    BY <1>1, <2>1, Unseen
<1>3. ASSUME NEW t \in Timeouts, Get(u, t) PROVE UNCHANGED Pool!pvars
  <2>1. \A v \in Users : Having(v)' = Having(v)
    BY <1>3 DEF Get, Having, Held, TypeOK
  <2> QED
    BY <1>2, <2>1
<1>4. CASE Lock(u) \/ AllocEmpty(u) \/ FreeSurface(u)
  <2>1. /\ pc[u] # "header" /\ pc'[u] # "header" /\ UNCHANGED <<wrap, raw>>
        /\ \A v \in Users \ {u} : pc'[v] = pc[v] /\ cur'[v] = cur[v]
    <3>1. CASE Lock(u)
      <4>1. CASE Returned(u)
        BY <3>1, <4>1, ReturnedFacts DEF Lock
      <4>2. CASE pc' = [pc EXCEPT ![u] = "attempt"] /\ UNCHANGED cur
        BY <3>1, <4>2 DEF Lock, TypeOK
      <4> QED
        BY <3>1, <4>1, <4>2 DEF Lock
    <3>2. CASE AllocEmpty(u)
      BY <3>2, RetryFacts DEF AllocEmpty
    <3>3. CASE FreeSurface(u)
      BY <3>3, ReturnedFacts DEF FreeSurface
    <3> QED
      BY <1>4, <3>1, <3>2, <3>3
  <2>2. \A v \in Users : Having(v)' = Having(v)
    BY <2>1, HavingFrame
  <2> QED
    BY <1>2, <2>2
<1>5. CASE AllocDangling(u) \/ \E s \in Held(u) : GetHostData(u, s)
  <2>1. UNCHANGED <<pc, cur, wrap, raw>>
    BY <1>5 DEF AllocDangling, GetHostData
  <2> QED
    BY <1>2, <2>1, HavingFrame
<1>6. ASSUME NEW s \in Held(u), BufSurfaceChown(u, s) PROVE UNCHANGED Pool!pvars
  <2>1. /\ s \in wrap[u] /\ wrap'[u] = wrap[u] \ {s} /\ raw'[u] = raw[u] \cup {s}
        /\ \A v \in Users \ {u} : wrap'[v] = wrap[v] /\ raw'[v] = raw[v]
        /\ UNCHANGED <<pc, cur>>
    BY <1>6 DEF BufSurfaceChown, TypeOK
  <2>2. \A v \in Users : Having(v)' = Having(v)
    BY <2>1 DEF Having, Held
  <2> QED
    BY <1>2, <2>2
<1>7. ASSUME NEW h \in Headers, MakeWrapper(u, h) PROVE UNCHANGED Pool!pvars
  <2>1. PICK n \in Surfaces : /\ n = [cur[u] EXCEPT !.hdr = h]
                              /\ n.pool = cur[u].pool /\ n.blk = cur[u].blk
    <3>1. cur[u] \in Surfaces
      BY DEF TypeOK
    <3>2. [cur[u] EXCEPT !.hdr = h] \in Surfaces
      BY <3>1 DEF Surfaces
    <3> QED
      BY <3>1, <3>2 DEF Surfaces
  <2>2. /\ pc[u] = "header" /\ wrap' = [wrap EXCEPT ![u] = @ \cup {n}]
        /\ Returned(u) /\ UNCHANGED raw
    BY <1>7, <2>1 DEF MakeWrapper
  <2>3. pc'[u] = "idle" /\ \A v \in Users \ {u} : pc'[v] = pc[v] /\ cur'[v] = cur[v]
    BY <2>2, ReturnedFacts
  <2>4. /\ Having(u) = Held(u) \cup {cur[u]} /\ Having(u)' = Held(u) \cup {n}
        /\ \A v \in Users \ {u} : Having(v)' = Having(v)
    BY <2>2, <2>3 DEF Having, Held, TypeOK
  <2>5. \A v \in Users : BlocksOf(v)' = BlocksOf(v)
    <3>1. BlocksOf(u)' = BlocksOf(u)
      <4>1. ASSUME NEW b
            PROVE  (\E s \in Having(u)' : s.blk = b /\ s.pool = pool_)
                     <=> \E s \in Having(u) : s.blk = b /\ s.pool = pool_
        BY <2>1, <2>4
      <4>2. ASSUME NEW b PROVE b \in BlocksOf(u)' <=> b \in BlocksOf(u)
        BY <1>1, <4>1, BlocksOfMembers
      <4> QED
        BY <4>2
    <3> QED
      BY <1>1, <2>4, <3>1 DEF BlocksOf
  <2> QED
    BY <1>1, <2>5, Unseen
\* The buffers without a pool come and go.
<1>8. ASSUME NEW n, n.pool = 0, \A v \in Users : \A t : t # n => (t \in Having(v)' <=> t \in Having(v))
      PROVE  UNCHANGED Pool!pvars
  <2>1. ASSUME NEW v \in Users, NEW b PROVE b \in BlocksOf(v)' <=> b \in BlocksOf(v)
    BY <1>1, <1>8, BlocksOfMembers
  <2>2. \A v \in Users : BlocksOf(v)' = BlocksOf(v)
    BY <2>1
  <2> QED
    BY <1>1, <2>2, Unseen
<1>9. ASSUME NEW b \in Blocks, NEW h \in Headers, CreateSurface(u, b, h)
      PROVE  UNCHANGED Pool!pvars
  <2>1. PICK n \in Surfaces : n = [pool |-> 0, blk |-> b, hdr |-> h] /\ n.pool = 0
    <3>1. 0 \in 0 .. MaxPools
      BY BufPoolConstants
    <3>2. [pool |-> 0, blk |-> b, hdr |-> h] \in Surfaces
      BY <3>1 DEF Surfaces
    <3> QED
      BY <3>2
  <2>2. /\ raw' = [raw EXCEPT ![u] = @ \cup {n}] /\ UNCHANGED <<pc, cur, wrap>>
    BY <1>9, <2>1 DEF CreateSurface
  <2>3. \A v \in Users : \A t : t # n => (t \in Having(v)' <=> t \in Having(v))
    BY <2>2 DEF Having, Held, TypeOK
  <2> QED
    BY <1>8, <2>1, <2>3
<1>10. ASSUME NEW s \in Held(u), DestroySurface(u, s) PROVE UNCHANGED Pool!pvars
  <2>1. pc[u] = "idle" /\ s.pool = 0 /\ Drop(u, s)
    BY <1>10 DEF DestroySurface
  <2>2. Having(u)' = Having(u) \ {s} /\ \A v \in Users \ {u} : Having(v)' = Having(v)
    BY <2>1, Dropped
  <2> QED
    BY <1>8, <2>1, <2>2
<1> QED
  BY <1>3, <1>4, <1>5, <1>6, <1>7, <1>9, <1>10

LEMMA UserMaps ==
  ASSUME BuffersInv, NEW u \in Users, UserStep(u)
  PROVE  Pool!PNext \/ UNCHANGED Pool!pvars
<1>1. ASSUME NEW b \in Blocks, Pool!Take(u, b) \/ Pool!Give(u, b) PROVE Pool!PNext
  BY <1>1 DEF Pool!PNext
<1>2. CASE Alloc(u)
  BY <1>1, <1>2, AllocMaps
<1>3. CASE NoHeader(u)
  <2>1. PICK c : c = cur[u] /\ c \in Having(u) /\ c \notin Held(u) /\ c.pool # 0
                 /\ Having(u) = Held(u) \cup {c}
    BY <1>3 DEF NoHeader, Having, BuffersInv, HandsApart, Locks
  <2>2. /\ PutBack(c) /\ Retry(u) /\ UNCHANGED <<pool_, stopped_, life, wrap, raw>>
    BY <1>3, <2>1 DEF NoHeader
  <2>3. /\ pc'[u] \in {"idle", "lock"}
        /\ \A v \in Users \ {u} : pc'[v] = pc[v] /\ cur'[v] = cur[v]
    BY <2>2, RetryFacts DEF BuffersInv
  <2>4. /\ Having(u)' = Having(u) \ {c}
        /\ \A v \in Users \ {u} : Having(v)' = Having(v)
    BY <2>1, <2>2, <2>3 DEF Held, Having
  <2> QED
    BY <1>1, <2>1, <2>2, <2>4, GiveMaps
<1>4. ASSUME NEW s \in Held(u), Free(u, s) PROVE Pool!PNext
  <2>1. /\ pc[u] = "idle" /\ s.pool # 0 /\ PutBack(s) /\ Drop(u, s)
        /\ UNCHANGED <<pool_, stopped_, life>>
    BY <1>4 DEF Free
  <2>2. /\ Having(u)' = Having(u) \ {s} /\ s \in Having(u)
        /\ \A v \in Users \ {u} : Having(v)' = Having(v)
    BY <2>1, Dropped
  <2> QED
    BY <1>1, <2>1, <2>2, GiveMaps
<1>5. CASE GetStep(u)
  BY <1>2, <1>3, <1>5, UserUnseen DEF GetStep
<1>6. CASE GiveBack(u)
  BY <1>4, <1>6, NeverFreeDangling, UserUnseen DEF GiveBack, GiveBackPooled
<1> QED
  BY <1>5, <1>6, UserUnseen DEF UserStep

LEMMA OwnerMaps ==
  ASSUME BuffersInv, BuffersInv', OwnerStep
  PROVE  Pool!PNext \/ UNCHANGED Pool!pvars
<1>1. ASSUME NEW vb \in BOOLEAN, NEW S \in SUBSET Blocks, CreatePool(vb, S) PROVE Pool!PNext
  BY <1>1, CreatePoolMaps DEF Pool!PNext
<1>2. ASSUME NEW S \in SUBSET Blocks, CreatePoolFails(S) PROVE UNCHANGED Pool!pvars
  BY <1>2, CreatePoolFailsMaps
<1>3. CASE DestroyPool
  BY <1>3, DestroyPoolMaps DEF Pool!PNext
<1>4. CASE DestroyDone
  BY <1>4, DestroyDoneMaps DEF Pool!PNext
<1>5. CASE DestroyRefused \/ DestroyDangling
  <2>1. UNCHANGED <<pool_, stopped_, life, cache_, pc, cur, wrap, raw>>
    BY <1>5 DEF DestroyRefused, DestroyDangling
  <2>2. \A u \in Users : BlocksOf(u)' = BlocksOf(u)
    BY <2>1, HavingFrame DEF BlocksOf
  <2> QED
    BY <2>1, <2>2, Unseen
<1> QED
  BY <1>1, <1>2, <1>3, <1>4, <1>5 DEF OwnerStep

LEMMA PoolStep ==
  BuffersInv /\ BuffersInv' /\ [Next]_vars => [Pool!PNext]_(Pool!pvars)
<1> SUFFICES ASSUME BuffersInv, BuffersInv', [Next]_vars
             PROVE  Pool!PNext \/ UNCHANGED Pool!pvars
  OBVIOUS
<1>1. CASE UNCHANGED vars
  <2>1. UNCHANGED <<pool_, stopped_, life, cache_, pc, cur, wrap, raw>>
    BY <1>1 DEF vars
  <2>2. \A u \in Users : BlocksOf(u)' = BlocksOf(u)
    BY <2>1, HavingFrame DEF BlocksOf
  <2> QED
    BY <2>1, <2>2, Unseen
<1> QED
  BY <1>1, UserMaps, OwnerMaps DEF Next

LEMMA PoolStart == Init => Pool!PInit
<1> SUFFICES ASSUME Init PROVE Pool!PInit
  OBVIOUS
<1>1. pool_ = 0
  BY DEF Init
<1>2. PoolPhase = "absent" /\ PoolInside = {}
  BY <1>1 DEF PoolPhase, PoolInside
<1>3. PoolOut = [u \in Users |-> {}]
  BY <1>1, PoolOutIs DEF BlocksOf
<1> QED
  BY <1>2, <1>3 DEF Pool!PInit

\* BufPool implements ResourcePool: GetBufSurfaceWrapper takes a block of an open
\* pool, a wrapper or a failed attempt gives it back, and MemPool::Destroy
\* releases the memory of a pool that is closing only when nothing is out.
THEOREM PoolIsImplemented == Spec => ImplementsPool
  BY BuffersInvariant, PoolStart, PoolStep, PTL DEF ImplementsPool, Spec, Pool!PSpec

-----------------------------------------------------------------------------
(* Transform: the contexts a thread keeps, its queues and its calls *)

\* Arrays that are large enough stay, others are made anew: they suit the batch unless memory ran out.
LEMMA GrowFacts ==
  ASSUME NEW c \in ContextRecords, NEW n \in Nat, NEW pi \in {1, 2}, NEW po \in {1, 2}, NEW fail,
         NEW g, g = Grow(c, n, pi, po, fail)
  PROVE  /\ g \in ContextRecords /\ g.queue = c.queue
         /\ g.workspace_ = c.workspace_ /\ g.workspace_size_ = c.workspace_size_
         /\ c.batch_size_ >= n => g = c
         /\ c.batch_size_ < n /\ fail \notin {"input", "output"}
              => g.batch_size_ = n /\ g.cpu = n /\ g.mlu_input_ = pi * n /\ g.mlu_output_ = po * n
<1>1. c.batch_size_ \in Nat /\ {pi * n, po * n, n} \subseteq Nat
  BY DEF ContextRecords
<1>2. \A b : b \in Pointers => Released(b) \in Pointers
  BY DEF Pointers, Released, Freed, Null
<1>3. CASE c.batch_size_ >= n
  BY <1>1, <1>3 DEF Grow
<1>4. CASE c.batch_size_ < n /\ fail = "input"
  BY <1>1, <1>2, <1>4 DEF Grow, ContextRecords, Pointers
<1>5. CASE c.batch_size_ < n /\ fail = "output"
  BY <1>1, <1>2, <1>5 DEF Grow, ContextRecords, Pointers
<1>6. CASE c.batch_size_ < n /\ fail \notin {"input", "output"}
  <2>1. PICK a \in Nat, z \in Nat : a = pi * n /\ z = po * n
    BY <1>1
  <2>2. g = [c EXCEPT !.batch_size_ = n, !.mlu_input_ = a, !.mlu_output_ = z, !.cpu = n]
    BY <1>1, <1>6, <2>1 DEF Grow
  <2>3. /\ g \in ContextRecords /\ g.queue = c.queue /\ g.workspace_ = c.workspace_
        /\ g.workspace_size_ = c.workspace_size_
        /\ g.batch_size_ = n /\ g.cpu = n /\ g.mlu_input_ = a /\ g.mlu_output_ = z
    BY <2>2 DEF ContextRecords, Pointers
  <2> QED
    BY <1>1, <1>6, <2>1, <2>3
<1> QED
  BY <1>1, <1>3, <1>4, <1>5, <1>6

\* The same of the workspace.
LEMMA WorkspaceFacts ==
  ASSUME NEW c \in ContextRecords, NEW req \in Nat, NEW fail, NEW w, w = Workspace(c, req, fail)
  PROVE  /\ w \in ContextRecords /\ w.queue = c.queue /\ w.batch_size_ = c.batch_size_ /\ w.cpu = c.cpu
         /\ w.mlu_input_ = c.mlu_input_ /\ w.mlu_output_ = c.mlu_output_ /\ w.workspace_size_ = req
         /\ c.workspace_size_ = req => w.workspace_ = c.workspace_
         /\ c.workspace_size_ # req /\ fail # "workspace" => w.workspace_ = req
<1>1. \A b : b \in Pointers => Released(b) \in Pointers
  BY DEF Pointers, Released, Freed, Null
<1>2. CASE c.workspace_size_ = req
  BY <1>2 DEF Workspace
<1>3. CASE c.workspace_size_ # req /\ fail = "workspace"
  BY <1>1, <1>3 DEF Workspace, ContextRecords, Pointers
<1>4. CASE c.workspace_size_ # req /\ fail # "workspace"
  BY <1>4 DEF Workspace, ContextRecords, Pointers
<1> QED
  BY <1>2, <1>3, <1>4

\* A call leaves a context that suits it, unless an allocation failed in it, and
\* uses no short or freed buffer of a context that suited it.
LEMMA ProcessFacts ==
  ASSUME NEW c \in ContextRecords, NEW k, NEW n \in Nat, NEW len \in Nat, NEW req \in Nat, NEW fail,
         NEW r, r = Process(c, n, len, PlanesIn(k), PlanesOut(k), req, fail)
  PROVE  /\ r.ctx \in ContextRecords /\ r.ctx.queue = c.queue /\ (r.over => n > len)
         /\ Suits(k, c) => r.good /\ (r.nomem \/ Suits(k, r.ctx))
<1> DEFINE pi == PlanesIn(k)
           po == PlanesOut(k)
           g == Grow(c, n, pi, po, fail)
           grows == c.batch_size_ < n
           short == grows /\ fail \in {"input", "output"}
           ws == Workspace(g, req, fail)
           w == IF short THEN g ELSE ws
           nows == ~short /\ c.workspace_size_ # req /\ fail = "workspace"
           freedwell == /\ grows => c.mlu_input_ # Freed /\ (fail # "input" => c.mlu_output_ # Freed)
                        /\ ~short /\ c.workspace_size_ # req => c.workspace_ # Freed
           usedwell == short \/ ( /\ w.cpu >= n /\ w.mlu_input_ >= pi * n /\ w.mlu_output_ >= po * n
                                  /\ nows \/ w.workspace_ >= req )
<1>1. pi \in {1, 2} /\ po \in {1, 2}
  BY DEF PlanesIn, PlanesOut
<1>2. /\ r.ctx = w /\ r.nomem = (short \/ nows) /\ r.good = (freedwell /\ usedwell)
      /\ r.over = (~short /\ n > len)
  BY DEF Process
<1>3. /\ g \in ContextRecords /\ g.queue = c.queue
      /\ g.workspace_ = c.workspace_ /\ g.workspace_size_ = c.workspace_size_
      /\ c.batch_size_ >= n => g = c
      /\ c.batch_size_ < n /\ fail \notin {"input", "output"}
              => g.batch_size_ = n /\ g.cpu = n /\ g.mlu_input_ = pi * n /\ g.mlu_output_ = po * n
  BY <1>1, GrowFacts
<1>4. /\ ws \in ContextRecords /\ ws.queue = g.queue /\ ws.batch_size_ = g.batch_size_ /\ ws.cpu = g.cpu
      /\ ws.mlu_input_ = g.mlu_input_ /\ ws.mlu_output_ = g.mlu_output_ /\ ws.workspace_size_ = req
      /\ g.workspace_size_ = req => ws.workspace_ = g.workspace_
      /\ g.workspace_size_ # req /\ fail # "workspace" => ws.workspace_ = req
  BY <1>3, WorkspaceFacts
<1>5. w \in ContextRecords /\ w.queue = c.queue
  BY <1>3, <1>4
<1>6. ASSUME Suits(k, c) PROVE r.good /\ (r.nomem \/ Suits(k, r.ctx))
  <2>1. /\ c.batch_size_ \in Nat /\ c.cpu = c.batch_size_ /\ c.workspace_ = c.workspace_size_ /\ c.workspace_size_ \in Nat
        /\ c.mlu_input_ = pi * c.batch_size_ /\ c.mlu_output_ = po * c.batch_size_
    BY <1>6 DEF Suits, ContextRecords
  <2>2. c.mlu_input_ \in Nat /\ c.mlu_output_ \in Nat
    BY <1>1, <2>1
  <2>3. freedwell
    BY <2>1, <2>2 DEF Freed
  <2>4. CASE short
    BY <1>2, <2>3, <2>4
  <2>5. CASE ~short
    <3>1. w = ws
      BY <2>5
    <3>2. /\ g.batch_size_ \in Nat /\ g.batch_size_ >= n /\ g.cpu = g.batch_size_
          /\ g.mlu_input_ = pi * g.batch_size_ /\ g.mlu_output_ = po * g.batch_size_
      <4>1. CASE c.batch_size_ >= n
        BY <1>3, <2>1, <4>1
      <4>2. CASE c.batch_size_ < n
        BY <1>3, <2>5, <4>2
      <4> QED
        BY <2>1, <4>1, <4>2
    <3>3. w.cpu >= n /\ w.mlu_input_ >= pi * n /\ w.mlu_output_ >= po * n
      <4>1. pi * g.batch_size_ >= pi * n /\ po * g.batch_size_ >= po * n
        BY <1>1, <3>2
      <4> QED
        BY <1>4, <3>1, <3>2, <4>1
    <3>4. nows \/ ws.workspace_ = req
      BY <1>3, <1>4, <2>1, <2>5
    <3>5. usedwell
      BY <3>1, <3>3, <3>4
    <3>6. nows \/ Suits(k, w)
      BY <1>4, <3>1, <3>2, <3>4 DEF Suits
    <3> QED
      BY <1>2, <2>3, <3>5, <3>6
  <2> QED
    BY <2>4, <2>5
<1> QED
  BY <1>2, <1>5, <1>6

\* The same of the scratch memory that two contexts of a chain share.
LEMMA ScratchFacts ==
  ASSUME NEW b \in ScratchRecords, NEW need \in Nat, NEW fail, NEW r, r = Scratch(b, need, fail)
  PROVE  /\ r.buf \in ScratchRecords
         /\ b.ptr = b.size => r.good /\ (r.ok => r.buf.ptr = r.buf.size)
<1>1. \A x : x \in Pointers => Released(x) \in Pointers
  BY DEF Pointers, Released, Freed, Null
<1>2. b.ptr \in Pointers /\ b.size \in Nat
  BY DEF ScratchRecords
<1> DEFINE grows == b.size < need
<1>3. /\ r.buf = IF ~grows THEN b
                 ELSE IF fail = "scratch" THEN [b EXCEPT !.ptr = Released(@)]
                 ELSE [ptr |-> need, size |-> need]
      /\ r.ok = ~(grows /\ fail = "scratch")
      /\ r.good = IF grows THEN b.ptr # Freed ELSE b.ptr >= need
  BY Zenon DEF Scratch
<1>4. CASE ~grows
  <2>1. r.buf = b /\ r.good = (b.ptr >= need)
    BY <1>3, <1>4
  <2>2. b.ptr = b.size => b.ptr >= need
    BY <1>2, <1>4
  <2> QED
    BY <2>1, <2>2, Zenon
<1>5. CASE grows /\ fail = "scratch"
  <2>1. r.buf = [b EXCEPT !.ptr = Released(@)] /\ r.ok = FALSE /\ r.good = (b.ptr # Freed)
    BY <1>3, <1>5
  <2>2. r.buf \in ScratchRecords
    BY <1>1, <1>2, <2>1 DEF ScratchRecords
  <2>3. b.ptr = b.size => b.ptr # Freed
    BY <1>2 DEF Freed
  <2> QED
    BY <2>1, <2>2, <2>3, Zenon
<1>6. CASE grows /\ fail # "scratch"
  <2>1. r.buf = [ptr |-> need, size |-> need] /\ r.good = (b.ptr # Freed)
    BY <1>3, <1>6
  <2>2. b.ptr = b.size => b.ptr # Freed
    BY <1>2 DEF Freed
  <2>3. r.buf \in ScratchRecords /\ r.buf.ptr = r.buf.size
    BY <2>1 DEF ScratchRecords, Pointers
  <2> QED
    BY <2>1, <2>2, <2>3, Zenon
<1> QED
  BY <1>4, <1>5, <1>6

\* What a call leaves behind, wherever it failed.
EffectFits(c, new, e) ==
  /\ DOMAIN e.ctx = DOMAIN new /\ e.ctx \in [DOMAIN new -> ContextRecords]
  /\ e.scratch \in [ScratchNames -> ScratchRecords]
  /\ \A k \in DOMAIN new : e.ctx[k].queue = new[k].queue
  /\ \A k \in DOMAIN new \ (failed \cup e.nomem) : Suits(k, e.ctx[k])
  /\ \A b \in ScratchNames \ (failed \cup e.nomem) : e.scratch[b].ptr = e.scratch[b].size
  /\ e.bad \subseteq failed \cup e.nomem /\ e.used \subseteq DOMAIN new
  /\ e.over \subseteq DOMAIN new /\ (e.over # {} => c.n > Room(c))
  /\ e.out \in [0 .. (c.dn - 1) -> Int]
  /\ e.ret = 0 /\ (Op(c) # "rgbx2yuv" \/ c.filled = 1) => \A i \in 0 .. (c.filled - 1) : i < c.dn => e.out[i] = i

\* A function whose value at k is replaced.
LEMMA ReplacedContext ==
  ASSUME NEW D, NEW S, NEW new \in [D -> S], NEW k \in D, NEW x \in S, NEW f, f = [new EXCEPT ![k] = x]
  PROVE  /\ f \in [D -> S] /\ DOMAIN f = D /\ f[k] = x /\ \A j \in D : j # k => f[j] = new[j]
  OBVIOUS

\* The elements a run of a context writes.
LEMMA Targets ==
  ASSUME NEW c \in Transforms
  PROVE  /\ c.n \in Nat /\ c.dn \in Nat /\ c.filled \in Nat /\ c.filled >= 1 /\ c.filled <= c.n /\ c.n > 0 /\ c.dn > 0
         /\ Nothing(c) \in [0 .. (c.dn - 1) -> Int]
         /\ FromEach(c) \in [0 .. (c.dn - 1) -> Int]
         /\ \A i \in 0 .. (c.filled - 1) : i < c.dn => FromEach(c)[i] = i
         /\ \A n \in Nat : n > 0 =>
              /\ FromFirst(c, n) \in [0 .. (c.dn - 1) -> Int]
              /\ c.filled = 1 => \A i \in 0 .. (c.filled - 1) : i < c.dn => FromFirst(c, n)[i] = i
<1>1. c.n \in Nat /\ c.dn \in Nat /\ c.filled \in Nat /\ c.filled >= 1 /\ c.filled <= c.n /\ c.n > 0 /\ c.dn > 0
  BY TransformConstants
<1>2. Nothing(c) \in [0 .. (c.dn - 1) -> Int]
  BY <1>1 DEF Nothing
<1>3. /\ FromEach(c) \in [0 .. (c.dn - 1) -> Int]
      /\ \A i \in 0 .. (c.filled - 1) : i < c.dn => FromEach(c)[i] = i
  BY <1>1 DEF FromEach
<1>4. ASSUME NEW n \in Nat, n > 0
      PROVE  /\ FromFirst(c, n) \in [0 .. (c.dn - 1) -> Int]
             /\ c.filled = 1 => \A i \in 0 .. (c.filled - 1) : i < c.dn => FromFirst(c, n)[i] = i
  BY <1>1, <1>4 DEF FromFirst
<1> QED
  BY <1>1, <1>2, <1>3, <1>4

\* The contexts and scratch memory a call finds.
FoundContexts(new) ==
  /\ new \in [DOMAIN new -> ContextRecords] /\ scratch \in [ScratchNames -> ScratchRecords]
  /\ \A k \in DOMAIN new \ failed : Suits(k, new[k])
  /\ \A b \in ScratchNames \ failed : scratch[b].ptr = scratch[b].size

\* A call that fails before any context runs leaves what it found.
LEMMA RefusedFits ==
  ASSUME NEW c \in Transforms, NEW new, FoundContexts(new), NEW e, e = Refused(c, new)
  PROVE  EffectFits(c, new, e)
<1>1. /\ e.ctx = new /\ e.scratch = scratch /\ e.ret = -1 /\ e.out = Nothing(c)
      /\ e.nomem = {} /\ e.bad = {} /\ e.over = {} /\ e.used = {}
  BY DEF Refused
<1> QED
  BY <1>1, Targets DEF EffectFits, FoundContexts

\* An operation of one context.
LEMMA SingleFits ==
  ASSUME NEW c \in Transforms, NEW new, FoundContexts(new), NEW k \in DOMAIN new, NEW req \in Nat, NEW fail,
         NEW e, e = Single(c, k, new, req, fail), Op(c) # "rgbx2yuv"
  PROVE  EffectFits(c, new, e)
<1>1. PICK r : r = Process(new[k], c.n, c.dn, PlanesIn(k), PlanesOut(k), req, fail)
  OBVIOUS
<1>2. /\ e.ctx = [new EXCEPT ![k] = r.ctx] /\ e.scratch = scratch
      /\ e.out = IF r.ok THEN FromEach(c) ELSE Nothing(c)
      /\ e.ret = IF r.ok THEN 0 ELSE -1
      /\ e.nomem = Unless(~r.nomem, k) /\ e.bad = Unless(r.good, k)
      /\ e.over = Unless(~r.over, k) /\ e.used = {k}
  BY <1>1, Zenon DEF Single
<1>3. new[k] \in ContextRecords /\ c.n \in Nat /\ c.dn \in Nat
  BY Targets DEF FoundContexts
<1>4. /\ r.ctx \in ContextRecords /\ r.ctx.queue = new[k].queue /\ (r.over => c.n > c.dn)
      /\ Suits(k, new[k]) => r.good /\ (r.nomem \/ Suits(k, r.ctx))
  BY <1>1, <1>3, ProcessFacts
<1>5. /\ e.ctx \in [DOMAIN new -> ContextRecords] /\ DOMAIN e.ctx = DOMAIN new /\ e.ctx[k] = r.ctx
      /\ \A j \in DOMAIN new : j # k => e.ctx[j] = new[j]
  BY <1>2, <1>4, ReplacedContext DEF FoundContexts
<1>6. e.bad \subseteq failed \cup e.nomem
  BY <1>2, <1>4 DEF FoundContexts, Unless
<1>7. \A j \in DOMAIN new \ (failed \cup e.nomem) : Suits(j, e.ctx[j])
  BY <1>2, <1>4, <1>5 DEF FoundContexts, Unless
<1>8. e.out \in [0 .. (c.dn - 1) -> Int]
  BY <1>2, Targets
<1>9. e.ret = 0 => \A i \in 0 .. (c.filled - 1) : i < c.dn => e.out[i] = i
  BY <1>2, Targets
<1>10. e.over \subseteq DOMAIN new /\ (e.over # {} => c.n > Room(c))
  BY <1>2, <1>4 DEF Room, Unless
<1> QED
  BY <1>2, <1>4, <1>5, <1>6, <1>7, <1>8, <1>9, <1>10 DEF EffectFits, FoundContexts

\* A resize and then a mean and deviation, with the scratch memory between them.
LEMMA ResizeMeanStdFits ==
  ASSUME NEW c \in Transforms, NEW new, FoundContexts(new), {"rms.Yuv2Rgbx", "rms.MeanStd"} \subseteq DOMAIN new,
         NEW req \in Nat, NEW stage, NEW fail, NEW e, e = ResizeMeanStd(c, new, req, stage, fail),
         Op(c) # "rgbx2yuv"
  PROVE  EffectFits(c, new, e)
<1> DEFINE p == "mlu_ptr_"
           k == "rms.Yuv2Rgbx"
           l == "rms.MeanStd"
           norms(b, r) == b.ok /\ r.ok /\ FloatType(c)
<1>1. PICK b, r, m : /\ b = Scratch(scratch[p], c.dn * c.dwidth, fail)
                     /\ r = Process(new[k], c.n, c.dn, 2, 1, req, IF stage = 1 THEN fail ELSE "none")
                     /\ m = Process(new[l], c.dn, c.dn, 1, 1, req, IF stage = 2 THEN fail ELSE "none")
  OBVIOUS
<1>2. PICK conv : conv = IF b.ok THEN [new EXCEPT ![k] = r.ctx] ELSE new
  OBVIOUS
<1>3. /\ e.ctx = IF norms(b, r) THEN [conv EXCEPT ![l] = m.ctx] ELSE conv
      /\ e.scratch = [scratch EXCEPT ![p] = b.buf]
      /\ e.ret = IF norms(b, r) /\ m.ok THEN 0 ELSE -1
      /\ e.out = IF norms(b, r) /\ m.ok THEN FromEach(c) ELSE Nothing(c)
      /\ e.nomem = Unless(b.ok, p) \cup Unless(~(b.ok /\ r.nomem), k) \cup Unless(~(norms(b, r) /\ m.nomem), l)
      /\ e.bad = Unless(b.good, p) \cup Unless(~b.ok \/ r.good, k) \cup Unless(~norms(b, r) \/ m.good, l)
      /\ e.over = Unless(~(b.ok /\ r.over), k) \cup Unless(~(norms(b, r) /\ m.over), l)
      /\ e.used = Unless(~b.ok, k) \cup Unless(~norms(b, r), l)
  BY <1>1, <1>2, Zenon DEF ResizeMeanStd
<1>4. new[k] \in ContextRecords /\ new[l] \in ContextRecords /\ scratch[p] \in ScratchRecords
  BY DEF FoundContexts, ScratchNames
<1>5. c.n \in Nat /\ c.dn \in Nat /\ c.dn * c.dwidth \in Nat
  <2>1. c.dn \in Nat /\ c.dwidth \in Nat /\ c.n \in Nat
    BY TransformConstants
  <2> QED
    BY <2>1
<1>6. PlanesIn(k) = 2 /\ PlanesOut(k) = 1 /\ PlanesIn(l) = 1 /\ PlanesOut(l) = 1
  BY DEF PlanesIn, PlanesOut
<1>7. b.buf \in ScratchRecords /\ (scratch[p].ptr = scratch[p].size => b.good /\ (b.ok => b.buf.ptr = b.buf.size))
  BY <1>1, <1>4, <1>5, ScratchFacts
<1>8. /\ r.ctx \in ContextRecords /\ r.ctx.queue = new[k].queue /\ (r.over => c.n > c.dn)
      /\ Suits(k, new[k]) => r.good /\ (r.nomem \/ Suits(k, r.ctx))
  <2>1. r = Process(new[k], c.n, c.dn, PlanesIn(k), PlanesOut(k), req, IF stage = 1 THEN fail ELSE "none")
    BY <1>1, <1>6
  <2> QED
    BY <1>4, <1>5, <2>1, ProcessFacts
<1>9. /\ m.ctx \in ContextRecords /\ m.ctx.queue = new[l].queue /\ (m.over => c.dn > c.dn)
      /\ Suits(l, new[l]) => m.good /\ (m.nomem \/ Suits(l, m.ctx))
  <2>1. m = Process(new[l], c.dn, c.dn, PlanesIn(l), PlanesOut(l), req, IF stage = 2 THEN fail ELSE "none")
    BY <1>1, <1>6
  <2> QED
    BY <1>4, <1>5, <2>1, ProcessFacts
<1>10. /\ conv \in [DOMAIN new -> ContextRecords] /\ DOMAIN conv = DOMAIN new
       /\ conv[k] = IF b.ok THEN r.ctx ELSE new[k]
       /\ \A j \in DOMAIN new : j # k => conv[j] = new[j]
  BY <1>2, <1>8 DEF FoundContexts
<1>11. /\ e.ctx \in [DOMAIN new -> ContextRecords] /\ DOMAIN e.ctx = DOMAIN new
       /\ e.ctx[l] = IF norms(b, r) THEN m.ctx ELSE new[l]
       /\ e.ctx[k] = IF b.ok THEN r.ctx ELSE new[k]
       /\ \A j \in DOMAIN new : j # k /\ j # l => e.ctx[j] = new[j]
  BY <1>3, <1>9, <1>10
<1>12. /\ e.scratch \in [ScratchNames -> ScratchRecords] /\ e.scratch[p] = b.buf
       /\ \A x \in ScratchNames : x # p => e.scratch[x] = scratch[x]
  BY <1>3, <1>7 DEF FoundContexts, ScratchNames
<1>13. e.bad \subseteq failed \cup e.nomem
  <2>1. p \in failed \/ b.good
    BY <1>7 DEF FoundContexts, ScratchNames
  <2>2. k \in failed \/ r.good
    BY <1>8 DEF FoundContexts
  <2>3. l \in failed \/ m.good
    BY <1>9 DEF FoundContexts
  <2> QED
    BY <1>3, <2>1, <2>2, <2>3 DEF Unless
<1>14. \A j \in DOMAIN new \ (failed \cup e.nomem) : Suits(j, e.ctx[j])
  <2> SUFFICES ASSUME NEW j \in DOMAIN new, j \notin failed, j \notin e.nomem
               PROVE  Suits(j, e.ctx[j])
    OBVIOUS
  <2>0. Suits(j, new[j])
    BY DEF FoundContexts
  <2>1. CASE j = k
    <3>1. ~(b.ok /\ r.nomem)
      BY <1>3, <2>1 DEF Unless
    <3> QED
      BY <1>8, <1>11, <2>0, <2>1, <3>1
  <2>2. CASE j = l
    <3>1. ~(norms(b, r) /\ m.nomem)
      BY <1>3, <2>2 DEF Unless
    <3> QED
      BY <1>9, <1>11, <2>0, <2>2, <3>1
  <2>3. CASE j # k /\ j # l
    BY <1>11, <2>0, <2>3
  <2> QED
    BY <2>1, <2>2, <2>3
<1>15. \A x \in ScratchNames \ (failed \cup e.nomem) : e.scratch[x].ptr = e.scratch[x].size
  <2>1. p \in e.nomem \/ b.ok
    BY <1>3 DEF Unless
  <2> QED
    BY <1>7, <1>12, <2>1 DEF FoundContexts
<1>16. e.out \in [0 .. (c.dn - 1) -> Int] /\ (e.ret = 0 => \A i \in 0 .. (c.filled - 1) : i < c.dn => e.out[i] = i)
  BY <1>3, Targets
<1>17. e.used \subseteq DOMAIN new
  BY <1>3 DEF Unless
<1>18. \A j \in DOMAIN new : e.ctx[j].queue = new[j].queue
  BY <1>8, <1>9, <1>11
<1>19. e.over \subseteq DOMAIN new /\ (e.over # {} => c.n > Room(c))
  <2>1. ~m.over
    BY <1>5, <1>9
  <2>2. e.over \subseteq {k} /\ (e.over # {} => r.over)
    BY <1>3, <2>1 DEF Unless
  <2>3. Room(c) = c.dn
    BY DEF Room
  <2> QED
    BY <1>8, <2>2, <2>3
<1> QED
  BY <1>11, <1>12, <1>13, <1>14, <1>15, <1>16, <1>17, <1>18, <1>19 DEF EffectFits

\* RGB to YUV of one element.
LEMMA RgbxToYuvFits ==
  ASSUME NEW c \in Transforms, NEW new, FoundContexts(new), "r2y.RgbxToYuv" \in DOMAIN new, NEW fail,
         NEW e, e = RgbxToYuv(c, new, fail), Op(c) = "rgbx2yuv", c.width = c.dwidth
  PROVE  EffectFits(c, new, e)
<1>1. /\ e.ctx = new /\ e.scratch = scratch /\ e.out \in {Nothing(c), FromFirst(c, c.n)}
      /\ e.ret = 0 => e.out = FromFirst(c, c.n)
      /\ e.nomem = {} /\ e.bad = {} /\ e.used = {"r2y.RgbxToYuv"}
      /\ e.over = Unless(fail = "kernel" \/ c.n <= c.dn, "r2y.RgbxToYuv")
  BY DEF RgbxToYuv
<1>2. e.over \subseteq DOMAIN new /\ (e.over # {} => c.n > Room(c))
  BY <1>1, Targets DEF Room, Unless
<1> QED
  BY <1>1, <1>2, Targets DEF EffectFits, FoundContexts

\* RGB to YUV and then a resize, with the scratch memory between them.
LEMMA RgbxToYuvResizeFits ==
  ASSUME NEW c \in Transforms, NEW new, FoundContexts(new), {"r2y.RgbxToYuv", "r2y.YuvResize"} \subseteq DOMAIN new,
         NEW req \in Nat, NEW stage, NEW fail, NEW e, e = RgbxToYuvResize(c, new, req, stage, fail), Op(c) = "rgbx2yuv",
         c.width # c.dwidth
  PROVE  EffectFits(c, new, e)
<1> DEFINE p == "src_yuv_mlu_"
           k == "r2y.YuvResize"
<1>1. PICK b, fails, r : /\ b = Scratch(scratch[p], c.width, fail)
                         /\ fails = IF stage = 2 THEN fail ELSE "none"
                         /\ r = Process(new[k], 1, c.dn, 2, 2, req, fails)
  OBVIOUS
<1>0. PICK resizes \in BOOLEAN : resizes = (b.ok /\ ~(stage = 1 /\ fail = "kernel"))
  OBVIOUS
<1>2. /\ e.ctx = IF resizes THEN [new EXCEPT ![k] = r.ctx] ELSE new
      /\ e.scratch = [scratch EXCEPT ![p] = b.buf]
      /\ e.ret = IF resizes /\ r.ok THEN 0 ELSE -1
      /\ e.out = IF resizes /\ r.ok THEN FromFirst(c, 1) ELSE Nothing(c)
      /\ e.nomem = Unless(b.ok, p) \cup Unless(~(resizes /\ r.nomem), k)
      /\ e.bad = Unless(b.good, p) \cup Unless(~resizes \/ r.good, k)
      /\ e.over = Unless(~resizes \/ c.n <= 1, "r2y.RgbxToYuv") \cup Unless(~(resizes /\ r.over), k)
      /\ e.used = Unless(~b.ok, "r2y.RgbxToYuv") \cup Unless(~resizes, k)
  BY <1>0, <1>1, Zenon DEF RgbxToYuvResize
<1>3. new[k] \in ContextRecords /\ scratch[p] \in ScratchRecords /\ c.width \in Nat /\ c.dn \in Nat
  <2>1. c.width \in Nat /\ c.dn \in Nat
    BY TransformConstants
  <2> QED
    BY <2>1 DEF FoundContexts, ScratchNames
<1>4. b.buf \in ScratchRecords /\ (scratch[p].ptr = scratch[p].size => b.good /\ (b.ok => b.buf.ptr = b.buf.size))
  BY <1>1, <1>3, ScratchFacts
<1>5. /\ r.ctx \in ContextRecords /\ r.ctx.queue = new[k].queue /\ (r.over => 1 > c.dn)
      /\ Suits(k, new[k]) => r.good /\ (r.nomem \/ Suits(k, r.ctx))
  <2>1. r = Process(new[k], 1, c.dn, PlanesIn(k), PlanesOut(k), req, fails)
    BY <1>1 DEF PlanesIn, PlanesOut
  <2> QED
    BY <1>3, <2>1, ProcessFacts
<1>6. /\ e.ctx \in [DOMAIN new -> ContextRecords] /\ DOMAIN e.ctx = DOMAIN new
      /\ e.ctx[k] = IF resizes THEN r.ctx ELSE new[k]
      /\ \A j \in DOMAIN new : j # k => e.ctx[j] = new[j]
  BY <1>2, <1>5 DEF FoundContexts
<1>7. /\ e.scratch \in [ScratchNames -> ScratchRecords] /\ e.scratch[p] = b.buf
      /\ \A x \in ScratchNames : x # p => e.scratch[x] = scratch[x]
  BY <1>2, <1>4 DEF FoundContexts, ScratchNames
<1>8. e.bad \subseteq failed \cup e.nomem
  <2>1. p \in failed \/ b.good
    BY <1>4 DEF FoundContexts, ScratchNames
  <2>2. k \in failed \/ r.good
    BY <1>5 DEF FoundContexts
  <2> QED
    BY <1>2, <2>1, <2>2 DEF Unless
<1>9. \A j \in DOMAIN new \ (failed \cup e.nomem) : Suits(j, e.ctx[j])
  <2> SUFFICES ASSUME NEW j \in DOMAIN new, j \notin failed, j \notin e.nomem
               PROVE  Suits(j, e.ctx[j])
    OBVIOUS
  <2>0. Suits(j, new[j])
    BY DEF FoundContexts
  <2>1. CASE j = k
    <3>1. ~(resizes /\ r.nomem)
      BY <1>2, <2>1 DEF Unless
    <3> QED
      BY <1>5, <1>6, <2>0, <2>1, <3>1
  <2>2. CASE j # k
    BY <1>6, <2>0, <2>2
  <2> QED
    BY <2>1, <2>2
<1>10. \A x \in ScratchNames \ (failed \cup e.nomem) : e.scratch[x].ptr = e.scratch[x].size
  <2>1. p \in e.nomem \/ b.ok
    BY <1>2 DEF Unless
  <2> QED
    BY <1>4, <1>7, <2>1 DEF FoundContexts
<1>11. /\ e.out \in [0 .. (c.dn - 1) -> Int]
       /\ e.ret = 0 /\ c.filled = 1 => \A i \in 0 .. (c.filled - 1) : i < c.dn => e.out[i] = i
  BY <1>2, Targets
<1>12. e.used \subseteq DOMAIN new
  BY <1>2 DEF Unless
<1>13. e.over \subseteq DOMAIN new /\ (e.over # {} => c.n > Room(c))
  <2>1. c.n \in Nat /\ ~r.over
    BY <1>5, Targets
  <2>2. e.over = Unless(~resizes \/ c.n <= 1, "r2y.RgbxToYuv")
    BY <1>2, <2>1 DEF Unless
  <2> QED
    BY <2>1, <2>2 DEF Room, Unless
<1> QED
  BY <1>2, <1>5, <1>6, <1>7, <1>8, <1>9, <1>10, <1>11, <1>12, <1>13 DEF EffectFits

\* The contexts an operation runs.
LEMMA ContextsOfOperation ==
  ASSUME NEW op
  PROVE  /\ Contexts(op) \in Seq(ContextNames) /\ Elems(Contexts(op)) \subseteq ContextNames
         /\ op = "resize" => Elems(Contexts(op)) = {"YuvResize"}
         /\ op = "convert" => Elems(Contexts(op)) = {"Yuv2Rgbx"}
         /\ op = "meanstd" => Elems(Contexts(op)) = {"MeanStd"}
         /\ op = "resize_meanstd" => Elems(Contexts(op)) = {"rms.MeanStd", "rms.Yuv2Rgbx"}
         /\ op = "rgbx2yuv" => Elems(Contexts(op)) = {"r2y.RgbxToYuv", "r2y.YuvResize"}
<1>1. /\ \A x \in ContextNames : Elems(<<x>>) = {x} /\ <<x>> \in Seq(ContextNames)
      /\ \A x, y \in ContextNames : Elems(<<x, y>>) = {x, y} /\ <<x, y>> \in Seq(ContextNames)
  BY DEF Elems
<1>2. \A S : <<>> \in Seq(S) /\ Elems(<<>>) = {}
  BY DEF Elems
<1>3. CASE op = "resize"
  <2>1. Contexts(op) = <<"YuvResize">>
    BY <1>3 DEF Contexts
  <2>2. {"YuvResize"} \subseteq ContextNames
    BY DEF ContextNames
  <2>3. Elems(<<"YuvResize">>) = {"YuvResize"} /\ <<"YuvResize">> \in Seq(ContextNames)
    BY <1>1, <2>2
  <2> QED
    BY <1>3, <2>1, <2>2, <2>3
<1>4. CASE op = "convert"
  <2>1. Contexts(op) = <<"Yuv2Rgbx">>
    BY <1>4 DEF Contexts
  <2>2. {"Yuv2Rgbx"} \subseteq ContextNames
    BY DEF ContextNames
  <2>3. Elems(<<"Yuv2Rgbx">>) = {"Yuv2Rgbx"} /\ <<"Yuv2Rgbx">> \in Seq(ContextNames)
    BY <1>1, <2>2
  <2> QED
    BY <1>4, <2>1, <2>2, <2>3
<1>5. CASE op = "meanstd"
  <2>1. Contexts(op) = <<"MeanStd">>
    BY <1>5 DEF Contexts
  <2>2. {"MeanStd"} \subseteq ContextNames
    BY DEF ContextNames
  <2>3. Elems(<<"MeanStd">>) = {"MeanStd"} /\ <<"MeanStd">> \in Seq(ContextNames)
    BY <1>1, <2>2
  <2> QED
    BY <1>5, <2>1, <2>2, <2>3
<1>6. CASE op = "resize_meanstd"
  <2>1. Contexts(op) = <<"rms.MeanStd", "rms.Yuv2Rgbx">>
    BY <1>6 DEF Contexts
  <2>2. {"rms.MeanStd", "rms.Yuv2Rgbx"} \subseteq ContextNames
    BY DEF ContextNames
  <2>3. Elems(<<"rms.MeanStd", "rms.Yuv2Rgbx">>) = {"rms.MeanStd", "rms.Yuv2Rgbx"} /\ <<"rms.MeanStd", "rms.Yuv2Rgbx">> \in Seq(ContextNames)
    BY <1>1, <2>2
  <2> QED
    BY <1>6, <2>1, <2>2, <2>3
<1>7. CASE op = "rgbx2yuv"
  <2>1. Contexts(op) = <<"r2y.RgbxToYuv", "r2y.YuvResize">>
    BY <1>7 DEF Contexts
  <2>2. {"r2y.RgbxToYuv", "r2y.YuvResize"} \subseteq ContextNames
    BY DEF ContextNames
  <2>3. Elems(<<"r2y.RgbxToYuv", "r2y.YuvResize">>) = {"r2y.RgbxToYuv", "r2y.YuvResize"} /\ <<"r2y.RgbxToYuv", "r2y.YuvResize">> \in Seq(ContextNames)
    BY <1>1, <2>2
  <2> QED
    BY <1>7, <2>1, <2>2, <2>3
<1>8. CASE op \notin {"resize", "convert", "meanstd", "resize_meanstd", "rgbx2yuv"}
  <2>1. Contexts(op) = <<>>
    BY <1>8 DEF Contexts
  <2> QED
    BY <1>2, <1>8, <2>1
<1> QED
  BY <1>3, <1>4, <1>5, <1>6, <1>7, <1>8

\* A context that was just made holds nothing and needs nothing.
LEMMA NewContextFits ==
  ASSUME TransformTypeOK, NEW k, NEW q, q = IF queue = Null THEN OwnQueue ELSE queue
  PROVE  NewContext(q) \in ContextRecords /\ NewContext(q).queue = q /\ Suits(k, NewContext(q))
<1>1. q \in Queues \cup {OwnQueue}
  BY DEF TransformTypeOK
<1>2. PICK x : x = NewContext(q)
  OBVIOUS
<1>3. /\ x \in ContextRecords /\ x.queue = q /\ x.batch_size_ = 0 /\ x.mlu_input_ = 0 /\ x.mlu_output_ = 0
      /\ x.cpu = 0 /\ x.workspace_ = 0 /\ x.workspace_size_ = 0
  BY <1>1, <1>2 DEF NewContext, ContextRecords, Pointers, Null
<1>4. PlanesIn(k) * 0 = 0 /\ PlanesOut(k) * 0 = 0
  BY DEF PlanesIn, PlanesOut
<1>5. Suits(k, x)
  BY <1>3, <1>4 DEF Suits
<1> QED
  BY <1>2, <1>3, <1>5

\* The contexts an operation finds when it begins.
LEMMA NowFacts ==
  ASSUME TransformTypeOK, KeptTyped, SizesTrue, NEW op, NEW new, new = Now(op)
  PROVE  /\ FoundContexts(new) /\ DOMAIN new = DOMAIN ctx \cup Elems(Contexts(op))
         /\ \A k \in DOMAIN ctx : new[k] = ctx[k]
         /\ \A k \in DOMAIN new \ DOMAIN ctx : new[k].queue = IF queue = Null THEN OwnQueue ELSE queue
<1>1. PICK q : q = IF queue = Null THEN OwnQueue ELSE queue
  OBVIOUS
<1>2. NewContext(q) \in ContextRecords /\ NewContext(q).queue = q /\ \A k : Suits(k, NewContext(q))
  BY <1>1, NewContextFits
<1>3. /\ DOMAIN new = DOMAIN ctx \cup Elems(Contexts(op))
      /\ \A k \in DOMAIN new : new[k] = IF k \in DOMAIN ctx THEN ctx[k] ELSE NewContext(q)
      /\ new = [k \in DOMAIN new |-> new[k]]
  BY <1>1 DEF Now
<1>4. \A k \in DOMAIN ctx : ctx[k] \in ContextRecords
  BY DEF KeptTyped
<1>5. new \in [DOMAIN new -> ContextRecords]
  BY <1>2, <1>3, <1>4
<1>6. \A k \in DOMAIN new \ failed : Suits(k, new[k])
  BY <1>2, <1>3 DEF SizesTrue
<1> QED
  BY <1>1, <1>2, <1>3, <1>5, <1>6 DEF FoundContexts, KeptTyped, SizesTrue

\* Every operation, at every stage at which it can fail.
LEMMA CncvFits ==
  ASSUME NEW c \in Transforms, NEW new, new = Now(Op(c)), FoundContexts(new), NEW req \in Nat, NEW stage, NEW fail,
         NEW e, e = CncvTransform(c, req, stage, fail), Elems(Contexts(Op(c))) \subseteq DOMAIN new
  PROVE  EffectFits(c, new, e)
<1>1. e = IF Op(c) = "unsupported" THEN Refused(c, new)
          ELSE IF Op(c) = "meanstd" THEN MeanStd(c, new, req, fail)
          ELSE IF Op(c) = "resize_meanstd" THEN ResizeMeanStd(c, new, req, stage, fail)
          ELSE IF Op(c) = "rgbx2yuv" THEN Rgbx2Yuv(c, new, req, stage, fail)
          ELSE IF Op(c) = "resize" THEN YuvResize(c, new, req, fail)
          ELSE Yuv2Rgbx(c, new, req, fail)
  BY Zenon DEF CncvTransform
<1>2. Op(c) \in {"unsupported", "meanstd", "resize_meanstd", "rgbx2yuv", "resize", "convert"}
  BY DEF Op
<1>3. CASE Op(c) = "unsupported"
  BY <1>1, <1>3, RefusedFits
<1>4. CASE Op(c) = "meanstd"
  <2>1. "MeanStd" \in DOMAIN new
    BY <1>4, ContextsOfOperation
  <2>2. e = Single(c, "MeanStd", new, req, fail) \/ e = Refused(c, new)
    BY <1>1, <1>4 DEF MeanStd
  <2> QED
    BY <1>4, <2>1, <2>2, SingleFits, RefusedFits
<1>5. CASE Op(c) = "resize_meanstd"
  <2>1. {"rms.Yuv2Rgbx", "rms.MeanStd"} \subseteq DOMAIN new
    BY <1>5, ContextsOfOperation
  <2>2. e = ResizeMeanStd(c, new, req, stage, fail)
    BY <1>1, <1>5
  <2> QED
    BY <1>5, <2>1, <2>2, ResizeMeanStdFits
<1>6. CASE Op(c) = "rgbx2yuv"
  <2>1. {"r2y.RgbxToYuv", "r2y.YuvResize"} \subseteq DOMAIN new
    BY <1>6, ContextsOfOperation
  <2>2. \/ e = RgbxToYuv(c, new, fail) /\ c.width = c.dwidth
        \/ e = RgbxToYuvResize(c, new, req, stage, fail) /\ c.width # c.dwidth
    BY <1>1, <1>6 DEF Rgbx2Yuv
  <2> QED
    BY <1>6, <2>1, <2>2, RgbxToYuvFits, RgbxToYuvResizeFits
<1>7. CASE Op(c) = "resize"
  <2>1. "YuvResize" \in DOMAIN new
    BY <1>7, ContextsOfOperation
  <2>2. e = Single(c, "YuvResize", new, req, fail)
    BY <1>1, <1>7 DEF YuvResize
  <2> QED
    BY <1>7, <2>1, <2>2, SingleFits
<1>8. CASE Op(c) = "convert"
  <2>1. "Yuv2Rgbx" \in DOMAIN new
    BY <1>8, ContextsOfOperation
  <2>2. e = Single(c, "Yuv2Rgbx", new, req, fail)
    BY <1>1, <1>8 DEF Yuv2Rgbx
  <2> QED
    BY <1>8, <2>1, <2>2, SingleFits
<1> QED
  BY <1>2, <1>3, <1>4, <1>5, <1>6, <1>7, <1>8

-----------------------------------------------------------------------------
(* Queues *)

TheSession == [queue |-> queue, dead |-> deadq, bad |-> badq]
QueuesNamed == Queues \cup {OwnQueue}
SessionStates == [queue : QueuesNamed \cup {Null}, dead : SUBSET QueuesNamed, bad : BOOLEAN]

LEMMA SessionKept ==
  ASSUME NEW st \in SessionStates, NEW q, q \in {Null, st.queue}
  PROVE  Session(st, q) = st
BY DEF Session

LEMMA SessionReplaced ==
  ASSUME NEW st \in SessionStates, NEW q \in QueuesNamed, q \notin {Null, st.queue}
  PROVE  /\ Session(st, q) \in SessionStates /\ Session(st, q).queue = q
         /\ Session(st, q).dead = IF st.queue = Null THEN st.dead ELSE st.dead \cup {st.queue}
         /\ ~st.bad /\ st.queue \notin st.dead => ~Session(st, q).bad
<1>1. st.queue \in QueuesNamed \cup {Null} /\ st.dead \in SUBSET QueuesNamed /\ st.bad \in BOOLEAN
  BY DEF SessionStates
<1>2. PICK d, b : /\ d = IF st.queue = Null THEN st.dead ELSE st.dead \cup {st.queue}
                  /\ b = (st.bad \/ st.queue \in st.dead)
  OBVIOUS
<1>3. Session(st, q) = [queue |-> q, dead |-> d, bad |-> b]
  BY <1>2, Zenon DEF Session
<1>4. d \in SUBSET QueuesNamed
  BY <1>1, <1>2
<1>5. b \in BOOLEAN
  BY <1>2, Zenon
<1>6. Session(st, q).queue = q /\ Session(st, q).dead = d /\ Session(st, q).bad = b /\ Session(st, q) \in SessionStates
  BY <1>3, <1>4, <1>5 DEF SessionStates
<1> QED
  BY <1>2, <1>6, Zenon

\* A context that ends leaves a state of the session.
LEMMA SessionTypes ==
  ASSUME NEW st \in SessionStates, NEW q \in QueuesNamed \cup {Null}
  PROVE  Session(st, q) \in SessionStates /\ (st.queue # Null => Session(st, q).queue # Null)
<1>1. CASE q \in {Null, st.queue}
  BY <1>1, SessionKept
<1>2. CASE q \notin {Null, st.queue}
  BY <1>2, SessionReplaced
<1> QED
  BY <1>1, <1>2

\* The recursive function Unwound exists and obeys its equation.
LEMMA UnwoundDef ==
  ASSUME KeptTyped, Elems(made) = DOMAIN ctx, TheSession \in SessionStates
  PROVE  /\ Unwound \in [0 .. Len(made) -> SessionStates] /\ Unwound[0] = TheSession
         /\ \A i \in Nat : i + 1 <= Len(made) =>
              \E k \in DOMAIN ctx : Unwound[i + 1] = Session(Unwound[i], ctx[k].queue)
<1> DEFINE Step(i) == ctx[made[Len(made) + 1 - i]].queue
           Body(f, i) == IF i = 0 THEN TheSession ELSE Session(f[i - 1], Step(i))
           Ok(n) == \E f \in [0 .. n -> SessionStates] : \A i \in 0 .. n : f[i] = Body(f, i)
           P == Unwound
<1>0. Len(made) \in Nat /\ DOMAIN made = 1 .. Len(made)
  BY DEF KeptTyped
<1>a. ASSUME NEW i \in Nat, i >= 1, i <= Len(made)
      PROVE  Step(i) \in QueuesNamed \cup {Null} /\ \E k \in DOMAIN ctx : Step(i) = ctx[k].queue
  <2>1. Len(made) + 1 - i \in DOMAIN made
    BY <1>0, <1>a
  <2>2. made[Len(made) + 1 - i] \in DOMAIN ctx
    BY <2>1 DEF Elems
  <2>3. ctx[made[Len(made) + 1 - i]] \in ContextRecords
    BY <2>2 DEF KeptTyped
  <2> QED
    BY <2>2, <2>3 DEF ContextRecords, QueuesNamed
<1> HIDE DEF Step
<1>1. Ok(0)
  <2> DEFINE f0 == [i \in 0 .. 0 |-> TheSession]
  <2>1. f0 \in [0 .. 0 -> SessionStates] /\ \A i \in 0 .. 0 : f0[i] = Body(f0, i)
    BY DEF TheSession
  <2> QED
    BY <2>1
<1>2. ASSUME NEW n \in Nat, n + 1 <= Len(made), Ok(n) PROVE Ok(n + 1)
  <2>1. PICK f \in [0 .. n -> SessionStates] : \A i \in 0 .. n : f[i] = Body(f, i)
    BY <1>2
  <2>2. PICK x \in SessionStates : x = Session(f[n], Step(n + 1))
    <3>1. f[n] \in SessionStates /\ Step(n + 1) \in QueuesNamed \cup {Null}
      BY <1>0, <1>2, <1>a
    <3> QED
      BY <3>1, SessionTypes
  <2> DEFINE g == [i \in 0 .. (n + 1) |-> IF i = n + 1 THEN x ELSE f[i]]
  <2>4. g \in [0 .. (n + 1) -> SessionStates]
    OBVIOUS
  <2>5. ASSUME NEW i \in 0 .. (n + 1) PROVE g[i] = Body(g, i)
    <3>1. CASE i = n + 1
      <4>1. g[i] = x /\ i - 1 = n /\ g[n] = f[n] /\ i # 0
        BY <3>1
      <4> HIDE DEF g
      <4>2. Session(g[i - 1], Step(i)) = Session(f[n], Step(n + 1))
        BY <3>1, <4>1
      <4> QED
        BY <2>2, <4>1, <4>2, Zenon
    <3>2. CASE i = 0
      <4>1. g[0] = f[0] /\ 0 \in 0 .. n
        OBVIOUS
      <4>2. f[0] = TheSession
        BY <2>1, <4>1
      <4> HIDE DEF g
      <4> QED
        BY <3>2, <4>1, <4>2
    <3>3. CASE i # 0 /\ i # n + 1
      <4>1. i \in 0 .. n /\ i - 1 \in 0 .. n /\ g[i] = f[i] /\ g[i - 1] = f[i - 1]
        BY <3>3
      <4> HIDE DEF g
      <4> QED
        BY <2>1, <3>3, <4>1
    <3> QED
      BY <3>1, <3>2, <3>3
  <2> HIDE DEF g
  <2> QED
    BY <2>4, <2>5
<1>3. Ok(Len(made))
  <2> DEFINE T == {n \in Nat : n <= Len(made) => Ok(n)}
  <2> HIDE DEF Ok
  <2>1. 0 \in T
    BY <1>1
  <2>2. ASSUME NEW n \in T PROVE n + 1 \in T
    BY <1>0, <1>2, <2>2
  <2>3. T = Nat
    <3> HIDE DEF T
    <3>1. T \in SUBSET Nat
      BY DEF T
    <3> QED
      BY <2>1, <2>2, <3>1, SetInduction
  <2> QED
    BY <1>0, <2>3
<1>4. PICK f \in [0 .. Len(made) -> SessionStates] : f = [i \in 0 .. Len(made) |-> Body(f, i)]
  <2>1. PICK f \in [0 .. Len(made) -> SessionStates] : \A i \in 0 .. Len(made) : f[i] = Body(f, i)
    BY <1>3
  <2>2. f = [i \in 0 .. Len(made) |-> Body(f, i)]
    BY <2>1
  <2> QED
    BY <2>2
<1>5. P = [i \in 0 .. Len(made) |-> Body(P, i)]
  BY <1>4, Zenon DEF Unwound, TheSession, Step
<1> HIDE DEF P
<1>6. P[0] = TheSession
  BY <1>0, <1>5
<1>7. ASSUME NEW i \in Nat, i + 1 <= Len(made) PROVE P[i + 1] = Session(P[i], Step(i + 1))
  <2>1. i + 1 \in 0 .. Len(made) /\ i + 1 # 0 /\ (i + 1) - 1 = i
    BY <1>0, <1>7
  <2> QED
    BY <1>5, <2>1
<1>8. \A n \in Nat : n <= Len(made) => P[n] \in SessionStates
  <2> DEFINE T == {n \in Nat : n <= Len(made) => P[n] \in SessionStates}
  <2>1. 0 \in T
    BY <1>6
  <2>2. ASSUME NEW n \in T PROVE n + 1 \in T
    <3> SUFFICES ASSUME n + 1 <= Len(made) PROVE P[n + 1] \in SessionStates
      BY <2>2
    <3>1. n \in Nat /\ P[n] \in SessionStates /\ Step(n + 1) \in QueuesNamed \cup {Null}
      BY <1>0, <1>a, <2>2
    <3> QED
      BY <1>7, <3>1, SessionTypes
  <2>3. T = Nat
    <3> HIDE DEF T
    <3>1. T \in SUBSET Nat
      BY DEF T
    <3> QED
      BY <2>1, <2>2, <3>1, SetInduction
  <2> QED
    BY <2>3
<1>9. P \in [0 .. Len(made) -> SessionStates]
  BY <1>0, <1>5, <1>8
<1>10. ASSUME NEW i \in Nat, i + 1 <= Len(made)
       PROVE  \E k \in DOMAIN ctx : P[i + 1] = Session(P[i], ctx[k].queue)
  <2>1. P[i + 1] = Session(P[i], Step(i + 1))
    BY <1>7, <1>10
  <2>2. \E k \in DOMAIN ctx : Step(i + 1) = ctx[k].queue
    BY <1>10, <1>a
  <2> QED
    BY <2>1, <2>2
<1> QED
  BY <1>6, <1>9, <1>10 DEF P

\* At the end of the thread its queue stays when all contexts have it.
LEMMA UnwoundEnd ==
  ASSUME KeptTyped, Elems(made) = DOMAIN ctx, TheSession \in SessionStates
  PROVE  /\ Unwound[Len(made)] \in SessionStates
         /\ (\A k \in DOMAIN ctx : ctx[k].queue = queue) => Unwound[Len(made)] = TheSession
<1>0. Len(made) \in Nat
  BY DEF KeptTyped
<1>1. Unwound[Len(made)] \in SessionStates
  BY <1>0, UnwoundDef
<1>2. ASSUME \A k \in DOMAIN ctx : ctx[k].queue = queue PROVE Unwound[Len(made)] = TheSession
  <2> DEFINE T == {n \in Nat : n <= Len(made) => Unwound[n] = TheSession}
  <2>1. 0 \in T
    BY UnwoundDef
  <2>2. ASSUME NEW n \in T PROVE n + 1 \in T
    <3>1. CASE n + 1 <= Len(made)
      <4>1. PICK k \in DOMAIN ctx : Unwound[n + 1] = Session(Unwound[n], ctx[k].queue)
        BY <3>1, UnwoundDef
      <4>2. Unwound[n] = TheSession
        BY <1>0, <3>1
      <4>3. Session(TheSession, queue) = TheSession
        BY SessionKept DEF TheSession
      <4> QED
        BY <1>2, <4>1, <4>2, <4>3
    <3> QED
      BY <1>0, <3>1
  <2>3. T = Nat
    <3> HIDE DEF T
    <3>1. T \in SUBSET Nat
      BY DEF T
    <3> QED
      BY <2>1, <2>2, <3>1, SetInduction
  <2> QED
    BY <1>0, <2>3
<1> QED
  BY <1>1, <1>2

\* A thread that has a queue has one at its end.
LEMMA UnwoundKeepsQueue ==
  ASSUME KeptTyped, Elems(made) = DOMAIN ctx, TheSession \in SessionStates, queue # Null
  PROVE  Unwound[Len(made)].queue # Null
<1>0. Len(made) \in Nat
  BY DEF KeptTyped
<1> DEFINE T == {n \in Nat : n <= Len(made) => Unwound[n].queue # Null}
<1>1. 0 \in T
  BY UnwoundDef DEF TheSession
<1>2. ASSUME NEW n \in T PROVE n + 1 \in T
  <2>1. CASE n + 1 <= Len(made)
    <3>1. PICK k \in DOMAIN ctx : Unwound[n + 1] = Session(Unwound[n], ctx[k].queue)
      BY <2>1, UnwoundDef
    <3>2. Unwound[n].queue # Null /\ Unwound[n] \in SessionStates
      BY <1>0, <2>1, UnwoundDef
    <3>3. ctx[k].queue \in QueuesNamed \cup {Null}
      BY DEF KeptTyped, ContextRecords, QueuesNamed
    <3>4. Session(Unwound[n], ctx[k].queue).queue # Null
      BY <3>2, <3>3, SessionTypes
    <3> QED
      BY <3>1, <3>4
  <2> QED
    BY <1>0, <2>1
<1>3. T = Nat
  <2> HIDE DEF T
  <2>1. T \in SUBSET Nat
    BY DEF T
  <2> QED
    BY <1>1, <1>2, <2>1, SetInduction
<1> QED
  BY <1>0, <1>3

-----------------------------------------------------------------------------
(* TransformInv *)

\* The invariant holds at first.
LEMMA TransformStart == TransformInit => TransformInv
<1> SUFFICES ASSUME TransformInit PROVE TransformInv
  OBVIOUS
<1>1. ctx = <<>> /\ made = <<>> /\ DOMAIN ctx = {} /\ DOMAIN made = {} /\ Elems(made) = {} /\ made \in Seq(ContextNames)
  BY DEF TransformInit, Elems
<1>2. /\ platform \in {"CE3226", "MLU"} /\ mode = "DEFAULT" /\ queue = Null /\ deadq = {} /\ call.args.n = 0
      /\ failed = {} /\ misused = {} /\ overran = {} /\ replaced = FALSE /\ badq = FALSE /\ transforms = 0
  BY DEF TransformInit, NoTransform
<1>3. /\ scratch \in [ScratchNames -> ScratchRecords]
      /\ \A b \in ScratchNames : scratch[b].ptr = scratch[b].size
  <2>1. [ptr |-> Null, size |-> 0] \in ScratchRecords
    BY DEF ScratchRecords, Pointers, Null
  <2> QED
    BY <2>1 DEF TransformInit, Null
<1>4. TransformTypeOK
  <2>1. 0 \in 0 .. MaxTransforms
    BY TransformConstants
  <2> QED
    BY <1>1, <1>2, <2>1 DEF TransformTypeOK
<1>5. KeptTyped
  BY <1>1, <1>3 DEF KeptTyped
<1> QED
  BY <1>1, <1>2, <1>3, <1>4, <1>5
     DEF TransformInv, SizesTrue, OneQueue, BuffersSuffice, EveryElementTransformed, InsideTarget, RoiInside

\* A region that is used lies inside its surface.
LEMMA RegionsInside ==
  ASSUME NEW c \in Transforms, c.crop => c.left < c.width /\ c.left + c.w <= c.width
  PROVE  /\ RoiCncv(c).x + RoiCncv(c).w <= c.width
         /\ RoiVgu(c).x + RoiVgu(c).w <= c.width
<1>1. /\ c.width \in Nat /\ c.left \in Nat /\ c.w \in Nat /\ UintMod \in Nat /\ c.width < UintMod
      /\ c.crop \in BOOLEAN
  BY TransformConstants
<1>2. CASE ~c.crop
  BY <1>1, <1>2 DEF RoiCncv, RoiVgu
<1>3. CASE c.crop
  <2>1. c.left < c.width /\ c.left + c.w <= c.width
    BY <1>3
  <2>2. RoiVgu(c).x + RoiVgu(c).w <= c.width
    BY <1>1, <1>3, <2>1 DEF RoiVgu
  <2>3. (c.width - c.left) % UintMod = c.width - c.left
    <3>1. c.width - c.left \in Nat /\ c.width - c.left < UintMod
      BY <1>1, <2>1
    <3> QED
      BY <1>1, <3>1, ModSmall
  <2>4. RoiCncv(c) = [x |-> c.left, w |-> IF c.w = 0 THEN c.width - c.left ELSE c.w]
    BY <1>1, <1>3, <2>1, <2>3 DEF RoiCncv
  <2>5. RoiCncv(c).x + RoiCncv(c).w <= c.width
    BY <1>1, <2>1, <2>4
  <2> QED
    BY <2>2, <2>5
<1> QED
  BY <1>1, <1>2, <1>3

\* What the invariant says of the last call follows from its record.
LEMMA LastCall ==
  ASSUME NEW c \in Transforms, NEW ret, NEW out, NEW roi,
         call' = [args |-> c, result |-> ret, out |-> out, roi |-> roi],
         ret = 0 /\ (Op(c) # "rgbx2yuv" \/ c.filled = 1) =>
           \A i \in 0 .. (c.filled - 1) : i \in DOMAIN out /\ out[i] = i,
         ret = 0 /\ (c.crop => c.left < c.width /\ c.left + c.w <= c.width) => roi.x + roi.w <= c.width
  PROVE  EveryElementTransformed' /\ RoiInside'
<1>1. call'.args = c /\ call'.result = ret /\ call'.out = out /\ call'.roi = roi
  OBVIOUS
<1>2. EveryElementTransformed'
  BY <1>1 DEF EveryElementTransformed
<1>3. RoiInside'
  BY <1>1 DEF RoiInside
<1> QED
  BY <1>2, <1>3

\* The actions, one lemma each.
LEMMA RejectedStep ==
  ASSUME TransformInv, NEW c \in Transforms, Rejected(c)
  PROVE  TransformInv'
<1>1. EveryElementTransformed' /\ RoiInside'
  <2>1. call' = [args |-> c, result |-> -1, out |-> Nothing(c), roi |-> NoRoi]
    BY DEF Rejected
  <2> QED
    BY <2>1, LastCall
<1>2. transforms' \in 0 .. MaxTransforms
  BY TransformConstants DEF Rejected, TransformCall, TransformInv, TransformTypeOK
<1>3. /\ overran = {}
      /\ UNCHANGED <<platform, mode, queue, ctx, made, scratch, deadq, failed, misused, overran, replaced, badq>>
  BY DEF Rejected, TransformCall
<1> QED
  BY <1>1, <1>2, <1>3
     DEF TransformInv, TransformTypeOK, KeptTyped, SizesTrue, OneQueue, BuffersSuffice, InsideTarget

\* An accepted source fits into its destination.
LEMMA FilledFits ==
  ASSUME NEW c \in Transforms, Accepts(c)
  PROVE  c.filled <= c.dn /\ c.filled \in Nat /\ c.dn \in Nat
BY TransformConstants DEF Accepts, MluAccepts, Ce3226Accepts

LEMMA TransformHwStep ==
  ASSUME TransformInv, NEW c \in Transforms, TransformHw(c)
  PROVE  TransformInv'
<1>1. EveryElementTransformed' /\ RoiInside'
  <2>1. call' = [args |-> c, result |-> 0, out |-> VguWrote(c, c.filled), roi |-> RoiVgu(c)]
    BY DEF TransformHw
  <2>2. \A i \in 0 .. (c.filled - 1) : i \in DOMAIN VguWrote(c, c.filled) /\ VguWrote(c, c.filled)[i] = i
    BY FilledFits DEF TransformHw, VguWrote
  <2> QED
    BY <2>1, <2>2, RegionsInside, LastCall
<1>2. transforms' \in 0 .. MaxTransforms
  BY TransformConstants DEF TransformHw, TransformCall, TransformInv, TransformTypeOK
<1>3. /\ overran = {}
      /\ UNCHANGED <<platform, mode, queue, ctx, made, scratch, deadq, failed, misused, overran, replaced, badq>>
  BY DEF TransformHw, TransformCall
<1> QED
  BY <1>1, <1>2, <1>3
     DEF TransformInv, TransformTypeOK, KeptTyped, SizesTrue, OneQueue, BuffersSuffice, InsideTarget

LEMMA SessionTyped ==
  ASSUME TransformTypeOK
  PROVE  TheSession \in SessionStates
BY DEF TransformTypeOK, TheSession, SessionStates, QueuesNamed

LEMMA SetSessionStep ==
  ASSUME TransformInv, NEW m \in {"MLU", "VGU", "DEFAULT"}, NEW q \in Queues \cup {Null}, SetSessionParams(m, q)
  PROVE  TransformInv'
<1>1. PICK st : st = Session(TheSession, q)
  OBVIOUS
<1>2. /\ TransformCall /\ q \notin deadq
      /\ mode' = m /\ queue' = st.queue /\ deadq' = st.dead /\ badq' = st.bad
      /\ replaced' = (replaced \/ \E k \in DOMAIN ctx : ctx[k].queue # st.queue)
      /\ UNCHANGED <<platform, ctx, made, scratch, call, failed, misused, overran>>
  BY <1>1, Zenon DEF SetSessionParams, TheSession
<1>3. TheSession \in SessionStates /\ TheSession.queue = queue /\ TheSession.dead = deadq /\ TheSession.bad = badq
  BY SessionTyped DEF TransformInv, TheSession
<1>4. /\ st \in SessionStates
      /\ q \in {Null, queue} => st = TheSession
      /\ q \notin {Null, queue} => /\ st.queue = q
                                   /\ st.dead = IF queue = Null THEN deadq ELSE deadq \cup {queue}
                                   /\ ~badq /\ queue \notin deadq => ~st.bad
      /\ queue # Null => st.queue # Null
  <2>1. q \in QueuesNamed \cup {Null}
    BY DEF QueuesNamed
  <2>2. st \in SessionStates /\ (queue # Null => st.queue # Null)
    BY <1>1, <1>3, <2>1, SessionTypes
  <2>3. q \in {Null, queue} => st = TheSession
    BY <1>1, <1>3, SessionKept
  <2>4. ASSUME q \notin {Null, queue}
        PROVE  /\ st.queue = q
               /\ st.dead = IF queue = Null THEN deadq ELSE deadq \cup {queue}
               /\ ~badq /\ queue \notin deadq => ~st.bad
    BY <1>1, <1>3, <2>1, <2>4, SessionReplaced
  <2> QED
    BY <2>2, <2>3, <2>4
<1>5. TransformTypeOK'
  <2>1. transforms' \in 0 .. MaxTransforms
    BY <1>2, TransformConstants DEF TransformCall, TransformInv, TransformTypeOK
  <2>2. replaced' \in BOOLEAN
    BY <1>2, Zenon
  <2>3. queue' \in Queues \cup {Null, OwnQueue} /\ deadq' \subseteq Queues \cup {OwnQueue} /\ badq' \in BOOLEAN
    BY <1>2, <1>4 DEF SessionStates, QueuesNamed
  <2> QED
    BY <1>2, <2>1, <2>2, <2>3 DEF TransformInv, TransformTypeOK
<1>6. OneQueue'
  <2>1. ASSUME ~replaced' PROVE ~badq' /\ queue' \notin deadq' /\ \A k \in DOMAIN ctx : ctx[k].queue = queue'
    <3>1. ~replaced /\ \A k \in DOMAIN ctx : ctx[k].queue = queue'
      BY <1>2, <2>1
    <3>2. ~badq /\ queue \notin deadq
      BY <3>1 DEF TransformInv, OneQueue
    <3>3. CASE q \in {Null, queue}
      BY <1>2, <1>3, <1>4, <3>1, <3>2, <3>3
    <3>4. CASE q \notin {Null, queue}
      BY <1>2, <1>4, <3>1, <3>2, <3>4
    <3> QED
      BY <3>3, <3>4
  <2>2. queue' = Null => deadq' = {} /\ DOMAIN ctx' = {}
    <3>1. ASSUME queue' = Null PROVE deadq' = {} /\ DOMAIN ctx = {}
      <4>1. queue = Null
        BY <1>2, <1>4, <3>1
      <4>2. q \in {Null, queue}
        BY <1>2, <1>4, <3>1, <4>1
      <4> QED
        BY <1>2, <1>3, <1>4, <4>1, <4>2 DEF TransformInv, OneQueue
    <3> QED
      BY <1>2, <3>1
  <2> QED
    BY <1>2, <2>1, <2>2 DEF OneQueue
<1> QED
  BY <1>2, <1>5, <1>6
     DEF TransformInv, KeptTyped, SizesTrue, BuffersSuffice, EveryElementTransformed, InsideTarget, RoiInside

LEMMA ThreadExitsStep ==
  ASSUME TransformInv, ThreadExits
  PROVE  TransformInv'
<1>1. PICK st : st = Unwound[Len(made)]
  OBVIOUS
<1>2. /\ queue' = st.queue /\ deadq' = st.dead /\ badq' = st.bad
      /\ ctx' = <<>> /\ made' = <<>>
      /\ scratch' = [k \in DOMAIN scratch |-> [ptr |-> Null, size |-> 0]]
      /\ misused' = misused \cup {k \in DOMAIN scratch : scratch[k].ptr = Freed}
           \cup {k \in DOMAIN ctx : Freed \in {ctx[k].mlu_input_, ctx[k].mlu_output_, ctx[k].workspace_}}
      /\ transforms' = MaxTransforms /\ overran = {}
      /\ UNCHANGED <<platform, mode, call, failed, overran, replaced>>
  BY <1>1, Zenon DEF ThreadExits
<1>3. KeptTyped /\ Elems(made) = DOMAIN ctx /\ TheSession \in SessionStates
  BY SessionTyped DEF TransformInv, TransformTypeOK
<1>4. /\ st \in SessionStates
      /\ (\A k \in DOMAIN ctx : ctx[k].queue = queue) => st = TheSession
  BY <1>1, <1>3, UnwoundEnd
<1>5. DOMAIN ctx' = {} /\ Elems(made') = {} /\ made' \in Seq(ContextNames) /\ DOMAIN made' = {}
  BY <1>2 DEF Elems
<1>6. /\ scratch' \in [ScratchNames -> ScratchRecords]
      /\ \A b \in ScratchNames : scratch'[b].ptr = scratch'[b].size
  <2>1. [ptr |-> Null, size |-> 0] \in ScratchRecords /\ DOMAIN scratch = ScratchNames
    BY <1>3 DEF ScratchRecords, Pointers, Null, KeptTyped
  <2> QED
    BY <1>2, <2>1 DEF Null
<1>7. TransformTypeOK'
  <2>1. transforms' \in 0 .. MaxTransforms
    BY <1>2, TransformConstants
  <2>2. queue' \in Queues \cup {Null, OwnQueue} /\ deadq' \subseteq Queues \cup {OwnQueue} /\ badq' \in BOOLEAN
    BY <1>2, <1>4 DEF SessionStates, QueuesNamed
  <2> QED
    BY <1>2, <1>5, <2>1, <2>2 DEF TransformInv, TransformTypeOK
<1>8. KeptTyped'
  BY <1>2, <1>5, <1>6 DEF KeptTyped
<1>9. OneQueue'
  <2>1. ASSUME ~replaced' PROVE ~badq' /\ queue' \notin deadq'
    <3>1. ~badq /\ queue \notin deadq /\ \A k \in DOMAIN ctx : ctx[k].queue = queue
      BY <1>2, <2>1 DEF TransformInv, OneQueue
    <3> QED
      BY <1>2, <1>4, <3>1 DEF TheSession
  <2>2. queue' = Null => deadq' = {}
    <3>1. PICK k \in DOMAIN ctx : k \in Elems(made)
      <4>1. made # <<>> /\ made \in Seq(ContextNames)
        BY <1>3 DEF ThreadExits, KeptTyped
      <4>2. 1 \in DOMAIN made
        BY <4>1
      <4> QED
        BY <1>3, <4>2 DEF Elems
    <3>2. queue # Null
      BY <3>1 DEF TransformInv, OneQueue
    <3>3. st.queue # Null
      BY <1>1, <1>3, <3>2, UnwoundKeepsQueue
    <3> QED
      BY <1>2, <3>3
  <2> QED
    BY <1>5, <2>1, <2>2 DEF OneQueue
<1>10. misused' \subseteq failed
  <2>1. ASSUME NEW k \in DOMAIN scratch, scratch[k].ptr = Freed PROVE k \in failed
    <3>1. k \in ScratchNames /\ scratch[k] \in ScratchRecords
      BY <1>3 DEF KeptTyped
    <3>2. scratch[k].size \in Nat
      BY <3>1 DEF ScratchRecords
    <3> QED
      BY <2>1, <3>1, <3>2 DEF TransformInv, SizesTrue, Freed
  <2>2. ASSUME NEW k \in DOMAIN ctx, k \notin failed
        PROVE  Freed \notin {ctx[k].mlu_input_, ctx[k].mlu_output_, ctx[k].workspace_}
    <3>1. ctx[k] \in ContextRecords /\ Suits(k, ctx[k])
      BY <1>3, <2>2 DEF KeptTyped, TransformInv, SizesTrue
    <3>2. ctx[k].batch_size_ \in Nat /\ ctx[k].workspace_size_ \in Nat
      BY <3>1 DEF ContextRecords
    <3>3. PlanesIn(k) * ctx[k].batch_size_ \in Nat /\ PlanesOut(k) * ctx[k].batch_size_ \in Nat
      BY <3>2 DEF PlanesIn, PlanesOut
    <3> QED
      BY <3>1, <3>2, <3>3 DEF Suits, Freed
  <2> QED
    BY <1>2, <2>1, <2>2 DEF TransformInv, BuffersSuffice
<1> QED
  BY <1>2, <1>5, <1>6, <1>7, <1>8, <1>9, <1>10
     DEF TransformInv, SizesTrue, BuffersSuffice, EveryElementTransformed, InsideTarget, RoiInside

\* The list of contexts grows by those that were made.
LEMMA MadeGrows ==
  ASSUME KeptTyped, NEW op, NEW m, m = made \o Without(Contexts(op), DOMAIN ctx)
  PROVE  m \in Seq(ContextNames) /\ Elems(m) = Elems(made) \cup (Elems(Contexts(op)) \ DOMAIN ctx)
<1>1. PICK w \in Seq(ContextNames) : /\ w = Without(Contexts(op), DOMAIN ctx)
                                     /\ Elems(w) = Elems(Contexts(op)) \ DOMAIN ctx
  <2>1. Contexts(op) \in Seq(ContextNames)
    BY ContextsOfOperation
  <2> QED
    BY <2>1, WithoutProperties
<1>2. PICK k \in Nat : k = Len(w) /\ DOMAIN w = 1 .. k
  BY <1>1
<1>3. w \in [1 .. k -> ContextNames] /\ Elems(w) = {w[i] : i \in 1 .. k}
  BY <1>1, <1>2 DEF Elems
<1>4. made \in Seq(ContextNames)
  BY DEF KeptTyped
<1>5. made \o w \in Seq(ContextNames) /\ Elems(made \o w) = Elems(made) \cup {w[i] : i \in 1 .. k}
  BY <1>3, <1>4, ConcatElems
<1> QED
  BY <1>1, <1>3, <1>5

LEMMA TransformStep ==
  ASSUME TransformInv, NEW c \in Transforms, NEW req \in Workspaces, NEW stage, NEW fail,
         NEW j \in 0 .. (c.filled - 1), Transform(c, req, stage, fail, j)
  PROVE  TransformInv'
<1>1. PICK e, new : e = CncvTransform(c, req, stage, fail) /\ new = Now(Op(c))
  OBVIOUS
<1>2. /\ TransformCall /\ Accepts(c)
      /\ ctx' = e.ctx /\ scratch' = e.scratch
      /\ made' = made \o Without(Contexts(Op(c)), DOMAIN ctx)
      /\ queue' = IF DOMAIN e.ctx # DOMAIN ctx /\ queue = Null THEN OwnQueue ELSE queue
      /\ failed' = failed \cup e.nomem /\ misused' = misused \cup e.bad
      /\ badq' = (badq \/ \E k \in e.used : e.ctx[k].queue \in deadq)
      /\ call' = [args |-> c, result |-> e.ret, out |-> Over(e.out, VguWrote(c, j)), roi |-> RoiCncv(c)]
      /\ overran' = overran \cup e.over
      /\ UNCHANGED <<platform, mode, deadq, replaced>>
  BY <1>1, Zenon DEF Transform, Effect
<1>3. TransformTypeOK /\ KeptTyped /\ SizesTrue /\ OneQueue /\ BuffersSuffice
  BY DEF TransformInv
<1>4. /\ FoundContexts(new) /\ DOMAIN new = DOMAIN ctx \cup Elems(Contexts(Op(c)))
      /\ \A k \in DOMAIN ctx : new[k] = ctx[k]
      /\ \A k \in DOMAIN new \ DOMAIN ctx : new[k].queue = IF queue = Null THEN OwnQueue ELSE queue
  BY <1>1, <1>3, NowFacts
<1>5. EffectFits(c, new, e)
  <2>1. req \in Nat
    BY TransformConstants
  <2> QED
    BY <1>1, <1>4, <2>1, CncvFits
<1>6. /\ DOMAIN ctx' = DOMAIN new /\ ctx' \in [DOMAIN new -> ContextRecords]
      /\ scratch' \in [ScratchNames -> ScratchRecords]
      /\ \A k \in DOMAIN new : ctx'[k].queue = new[k].queue
      /\ e.used \subseteq DOMAIN new
  BY <1>2, <1>5 DEF EffectFits
<1>7. made' \in Seq(ContextNames) /\ Elems(made') = DOMAIN new
  <2>1. made' \in Seq(ContextNames) /\ Elems(made') = Elems(made) \cup (Elems(Contexts(Op(c))) \ DOMAIN ctx)
    BY <1>2, <1>3, MadeGrows
  <2> QED
    BY <1>3, <1>4, <2>1 DEF TransformTypeOK
<1>8. KeptTyped'
  <2>1. DOMAIN new \subseteq ContextNames
    BY <1>3, <1>4, ContextsOfOperation DEF KeptTyped
  <2> QED
    BY <1>6, <1>7, <2>1 DEF KeptTyped
<1>9. TransformTypeOK'
  <2>1. transforms' \in 0 .. MaxTransforms
    BY <1>2, <1>3, TransformConstants DEF TransformCall, TransformTypeOK
  <2>2. badq' \in BOOLEAN
    BY <1>2, Zenon
  <2>3. queue' \in Queues \cup {Null, OwnQueue}
    BY <1>2, <1>3 DEF TransformTypeOK
  <2>4. \A k \in DOMAIN ctx' : /\ ctx'[k].queue \in Queues \cup {OwnQueue}
                               /\ {ctx'[k].mlu_input_, ctx'[k].mlu_output_, ctx'[k].workspace_} \subseteq Nat \cup {Freed}
    BY <1>6 DEF ContextRecords, Pointers
  <2>5. overran' \subseteq DOMAIN ctx'
    BY <1>2, <1>5, <1>6 DEF TransformCall, EffectFits
  <2> QED
    BY <1>2, <1>3, <1>6, <1>7, <2>1, <2>2, <2>3, <2>4, <2>5 DEF TransformTypeOK
<1>10. SizesTrue'
  BY <1>2, <1>5, <1>6 DEF EffectFits, SizesTrue
<1>11. BuffersSuffice'
  BY <1>2, <1>3, <1>5 DEF EffectFits, BuffersSuffice
<1>12. OneQueue'
  <2>1. ASSUME ~replaced PROVE ~badq' /\ queue' \notin deadq /\ \A k \in DOMAIN ctx' : ctx'[k].queue = queue'
    <3>1. ~badq /\ queue \notin deadq /\ \A k \in DOMAIN ctx : ctx[k].queue = queue
      BY <1>3, <2>1 DEF OneQueue
    <3>2. \A k \in DOMAIN new : new[k].queue = queue'
      <4>1. CASE queue # Null
        BY <1>2, <1>4, <3>1, <4>1
      <4>2. CASE queue = Null
        <5>1. DOMAIN ctx = {}
          BY <1>3, <4>2 DEF OneQueue
        <5> QED
          BY <1>2, <1>4, <1>6, <4>2, <5>1
      <4> QED
        BY <4>1, <4>2
    <3>3. queue' \notin deadq
      <4>1. queue = Null => deadq = {}
        BY <1>3 DEF OneQueue
      <4> QED
        BY <1>2, <3>1, <4>1
    <3>4. \A k \in e.used : e.ctx[k].queue \notin deadq
      BY <1>2, <1>6, <3>2, <3>3
    <3> QED
      BY <1>2, <1>6, <3>1, <3>2, <3>3, <3>4
  <2>2. ASSUME queue' = Null PROVE deadq' = {} /\ DOMAIN ctx' = {}
    <3>1. queue = Null /\ DOMAIN ctx' = DOMAIN ctx
      BY <1>2, <2>2 DEF Null, OwnQueue
    <3> QED
      BY <1>2, <1>3, <3>1 DEF OneQueue
  <2> QED
    BY <1>2, <2>1, <2>2 DEF OneQueue
<1>13. EveryElementTransformed' /\ RoiInside'
  <2>1. PICK out : out = Over(e.out, VguWrote(c, j))
    OBVIOUS
  <2>2. ASSUME e.ret = 0, Op(c) # "rgbx2yuv" \/ c.filled = 1, NEW i \in 0 .. (c.filled - 1)
        PROVE  i \in DOMAIN out /\ out[i] = i
    <3>1. i < c.dn /\ i \in 0 .. (c.dn - 1)
      <4>1. c.filled <= c.dn /\ c.filled \in Nat /\ c.dn \in Nat
        BY <1>2, FilledFits
      <4>2. i \in Nat /\ i < c.filled
        BY <4>1
      <4> QED
        BY <4>1, <4>2
    <3>2. i \in DOMAIN e.out /\ e.out[i] = i /\ i # -1
      <4>1. e.out \in [0 .. (c.dn - 1) -> Int]
        BY <1>5, Zenon DEF EffectFits
      <4>2. \A n \in 0 .. (c.filled - 1) : n < c.dn => e.out[n] = n
        BY <1>5, <2>2, Zenon DEF EffectFits
      <4>3. e.out[i] = i
        BY <2>2, <3>1, <4>2
      <4>4. DOMAIN e.out = 0 .. (c.dn - 1)
        BY <4>1
      <4> QED
        BY <3>1, <4>3, <4>4
    <3> QED
      BY <2>1, <3>2 DEF Over
  <2> QED
    BY <1>2, <2>1, <2>2, RegionsInside, LastCall
<1>14. InsideTarget'
  <2>1. call'.args = c /\ overran' = e.over
    BY <1>2 DEF TransformCall
  <2>2. e.over # {} => c.n > Room(c)
    BY <1>5, Zenon DEF EffectFits
  <2> QED
    BY <2>1, <2>2 DEF InsideTarget
<1> QED
  BY <1>8, <1>9, <1>10, <1>11, <1>12, <1>13, <1>14 DEF TransformInv

\* Every step of a thread keeps the invariant.
LEMMA TransformKeeps == TransformInv /\ [TransformNext]_transformVars => TransformInv'
<1> SUFFICES ASSUME TransformInv, [TransformNext]_transformVars PROVE TransformInv'
  OBVIOUS
<1>1. CASE UNCHANGED transformVars
  BY <1>1 DEF transformVars, TransformInv, TransformTypeOK, KeptTyped, SizesTrue, OneQueue, BuffersSuffice,
              EveryElementTransformed, InsideTarget, RoiInside
<1>2. ASSUME NEW c \in Transforms, Rejected(c) PROVE TransformInv'
  BY <1>2, RejectedStep
<1>3. ASSUME NEW c \in Transforms, TransformHw(c) PROVE TransformInv'
  BY <1>3, TransformHwStep
<1>4. ASSUME NEW c \in Transforms, NEW req \in Workspaces, NEW stage, NEW fail,
             NEW j \in 0 .. (c.filled - 1), Transform(c, req, stage, fail, j)
      PROVE  TransformInv'
  BY <1>4, TransformStep
<1>5. ASSUME NEW m \in {"MLU", "VGU", "DEFAULT"}, NEW q \in Queues \cup {Null}, SetSessionParams(m, q)
      PROVE  TransformInv'
  BY <1>5, SetSessionStep
<1>6. CASE ThreadExits
  BY <1>6, ThreadExitsStep
<1> QED
  BY <1>1, <1>2, <1>3, <1>4, <1>5, <1>6 DEF TransformNext

\* CnedkTransform over any number of calls on a thread: the arrays, workspaces and
\* scratch memory suffice for every later call and none is used after it was freed
\* unless an allocation failed, every element is made from its own source, no context
\* leaves its target unless the batch of the source is larger than the target has
\* room for, and no queue is used after its end unless the thread's was replaced.
THEOREM TransformsAreCorrect == TransformSpec => []TransformCorrect
<1>1. TransformInv => TransformCorrect
  BY DEF TransformInv, TransformCorrect, QueueAlive, OneQueue, TransformTypeOK
<1> QED
  BY TransformStart, TransformKeeps, <1>1, PTL DEF TransformSpec
====
