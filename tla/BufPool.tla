------------------------------ MODULE BufPool ------------------------------
(***************************************************************************)
(* Device buffers: cnedk::BufPool over MemPool over an allocator, the      *)
(* pool of CnedkBufSurface structs in BufSurfaceService, and the           *)
(* BufSurfaceWrapper that gives a buffer back in its destructor.           *)
(*                                                                         *)
(* BufPool::mutex_ (bmutex) is held through a whole attempt and through    *)
(* DestroyPool, and dropped while a caller sleeps between two attempts.    *)
(* MemPool::mutex_ and the mutex of the service guard one step each.       *)
(* A buffer is given back without bmutex, through surf->opaque, which      *)
(* points to the MemPool.  MemPool objects are numbered in the order of    *)
(* their creation; a pool_ whose MemPool is deleted dangles, and a call    *)
(* through it is undefined: the model stops there and notes the pool in    *)
(* crashed.                                                                *)
(*                                                                         *)
(* Blocks are what an allocator returns.  The contents, the layout and the *)
(* copies of a surface are in module Surface.                              *)
(***************************************************************************)
EXTENDS Integers, FiniteSets

CONSTANTS
  Users,      \* threads that get and drop buffers
  Blocks,     \* blocks of memory
  Headers,    \* addresses of CnedkBufSurface structs
  SurfArray,  \* those of them in start_ .. end_
  BlockNum,   \* block_num of a pool
  MaxPools,   \* bound on the number of MemPool objects
  MaxHeld,    \* buffers a thread may hold at once
  Timeouts,   \* values of timeout_ms
  CounterMod  \* uint32_t wraps at this value

ASSUME BufPoolConstants ==
  /\ IsFiniteSet(Blocks) /\ SurfArray \subseteq Headers
  /\ Blocks # {} /\ Headers # {}
  /\ "owner" \notin Users /\ "nobody" \notin Users
  /\ BlockNum \in 1 .. (CounterMod - 1) /\ CounterMod \in Nat
  /\ MaxPools \in Nat /\ MaxHeld \in Nat /\ Timeouts \subseteq Nat

Pools == 1 .. MaxPools
Owner == "owner"
Nobody == "nobody"

\* A CnedkBufSurface: opaque (0 is nullptr), its block and its own address.
Surfaces == [pool : 0 .. MaxPools, blk : Blocks, hdr : Headers]

VARIABLES
  \* BufPool
  pool_, stopped_, bmutex, opc,
  \* MemPool, by number
  life, is_vb_pool_, cache_, alloc_count_,
  \* BufSurfaceService
  surfpool_, malloced,
  \* callers: position, attempts left and the next pause, the buffer in hand,
  \* buffers in wrappers and buffers taken out of a wrapper with Chown
  pc, count, retry_cnt, cur, wrap, raw,
  \* blocks whose mapped_data_ptr is host memory of a wrapper
  mapped,
  \* blocks nobody can give back; undefined behaviour
  leaked, crashed

bufpool == <<pool_, stopped_, bmutex, opc>>
mempool == <<life, is_vb_pool_, cache_, alloc_count_>>
service == <<surfpool_, malloced>>
caller  == <<pc, count, retry_cnt, cur>>
owned   == <<wrap, raw>>
vars == <<bufpool, mempool, service, caller, owned, mapped, leaked, crashed>>

NoSurface == [pool |-> 0, blk |-> CHOOSE b \in Blocks : TRUE,
              hdr |-> CHOOSE h \in Headers : TRUE]

TypeOK ==
  /\ pool_ \in 0 .. MaxPools
  /\ stopped_ \in BOOLEAN
  /\ bmutex \in Users \cup {Owner, Nobody}
  /\ opc \in {"idle", "destroy"}
  /\ life \in [Pools -> {"none", "live", "deleted", "failed"}]
  /\ is_vb_pool_ \in [Pools -> BOOLEAN]
  /\ cache_ \in [Pools -> SUBSET Blocks]
  /\ alloc_count_ \in [Pools -> 0 .. BlockNum]
  /\ surfpool_ \in SUBSET SurfArray
  /\ malloced \in SUBSET (Headers \ SurfArray)
  /\ pc \in [Users -> {"idle", "lock", "attempt", "header", "freehdr"}]
  /\ count \in [Users -> Int]
  /\ retry_cnt \in [Users -> 1 .. 10]
  /\ cur \in [Users -> Surfaces]
  /\ wrap \in [Users -> SUBSET Surfaces]
  /\ raw \in [Users -> SUBSET Surfaces]
  /\ mapped \in SUBSET Blocks
  /\ leaked \in SUBSET Blocks
  /\ crashed \in 0 .. MaxPools

Init ==
  /\ pool_ = 0 /\ stopped_ = FALSE /\ bmutex = Nobody /\ opc = "idle"
  /\ life = [p \in Pools |-> "none"]
  /\ is_vb_pool_ = [p \in Pools |-> FALSE]
  /\ cache_ = [p \in Pools |-> {}]
  /\ alloc_count_ = [p \in Pools |-> 0]
  /\ surfpool_ = SurfArray /\ malloced = {}
  /\ pc = [u \in Users |-> "idle"]
  /\ count = [u \in Users |-> 0]
  /\ retry_cnt = [u \in Users |-> 1]
  /\ cur = [u \in Users |-> NoSurface]
  /\ wrap = [u \in Users |-> {}] /\ raw = [u \in Users |-> {}]
  /\ mapped = {} /\ leaked = {} /\ crashed = 0

\* The locals of a call, when there is none.
Returned(u) ==
  /\ pc' = [pc EXCEPT ![u] = "idle"]
  /\ count' = [count EXCEPT ![u] = 0]
  /\ retry_cnt' = [retry_cnt EXCEPT ![u] = 1]
  /\ cur' = [cur EXCEPT ![u] = NoSurface]

Held(u) == wrap[u] \cup raw[u]
\* Buffers a thread has or is about to wrap.
Having(u) == Held(u) \cup (IF pc[u] = "header" THEN {cur[u]} ELSE {})
InUse == leaked \cup (UNION {cache_[p] : p \in Pools})
         \cup {s.blk : s \in UNION {Having(u) : u \in Users}}
System == Blocks \ InUse

-----------------------------------------------------------------------------
(* BufPool::CreatePool and DestroyPool, called by the owner of the pool.    *)

Unborn == {p \in Pools : life[p] = "none"}
Dangling(p) == p \in Pools /\ life[p] \in {"deleted", "failed"}
NextPool == CHOOSE p \in Unborn : \A q \in Unborn : p <= q

\* MemPool::Create has no other caller before it returns, so it is one step.
\* The old pool is gone or was never created when the owner calls CreatePool.
CreatePool(vb, S) ==
  /\ crashed = 0 /\ opc = "idle" /\ bmutex = Nobody /\ Unborn # {}
  /\ pool_ = 0 \/ Dangling(pool_)
  /\ S \subseteq System /\ Cardinality(S) = BlockNum
  /\ pool_' = NextPool
  /\ stopped_' = FALSE
  /\ life' = [life EXCEPT ![NextPool] = "live"]
  /\ is_vb_pool_' = [is_vb_pool_ EXCEPT ![NextPool] = vb]
  /\ cache_' = [cache_ EXCEPT ![NextPool] = S]
  /\ UNCHANGED <<bmutex, opc, alloc_count_, service, caller, owned, mapped,
                 leaked, crashed>>

\* A parameter is refused, or the allocator fails after some blocks: the
\* MemPool is deleted with its queue of blocks, and *pool still points to it.
CreatePoolFails(S) ==
  /\ crashed = 0 /\ opc = "idle" /\ bmutex = Nobody /\ Unborn # {}
  /\ pool_ = 0 \/ Dangling(pool_)
  /\ S \subseteq System /\ Cardinality(S) < BlockNum
  /\ pool_' = NextPool
  /\ life' = [life EXCEPT ![NextPool] = "failed"]
  /\ leaked' = leaked \cup S
  /\ UNCHANGED <<stopped_, bmutex, opc, is_vb_pool_, cache_, alloc_count_,
                 service, caller, owned, mapped, crashed>>

\* stopped_ is tested and set; a pool that does not exist ends the call.
DestroyPool ==
  /\ crashed = 0 /\ opc = "idle" /\ bmutex = Nobody /\ ~stopped_
  /\ stopped_' = TRUE
  /\ \/ /\ pool_ # 0
        /\ opc' = "destroy" /\ bmutex' = Owner
     \/ pool_ = 0 /\ UNCHANGED <<opc, bmutex>>
  /\ UNCHANGED <<pool_, mempool, service, caller, owned, mapped, leaked, crashed>>

\* What the loop on alloc_count_ waits for; the driver destroys a VB pool
\* only when all of its blocks are back.
MayFree(p) ==
  IF is_vb_pool_[p] THEN Cardinality(cache_[p]) = BlockNum
                    ELSE alloc_count_[p] = 0

\* MemPool::Destroy frees the blocks and the MemPool is deleted.
DestroyDone ==
  /\ crashed = 0 /\ opc = "destroy" /\ life[pool_] = "live" /\ MayFree(pool_)
  /\ life' = [life EXCEPT ![pool_] = "deleted"]
  /\ cache_' = [cache_ EXCEPT ![pool_] = {}]
  /\ opc' = "idle" /\ bmutex' = Nobody
  /\ UNCHANGED <<pool_, stopped_, is_vb_pool_, alloc_count_, service, caller,
                 owned, mapped, leaked, crashed>>

\* The driver refuses: DestroyPool drops the lock, sleeps, takes it and leaves
\* through the return at the end of the loop body.
DestroyRefused ==
  /\ crashed = 0 /\ opc = "destroy" /\ life[pool_] = "live"
  /\ is_vb_pool_[pool_] /\ ~MayFree(pool_)
  /\ opc' = "idle" /\ bmutex' = Nobody
  /\ UNCHANGED <<pool_, stopped_, mempool, service, caller, owned, mapped,
                 leaked, crashed>>

DestroyDangling ==
  /\ crashed = 0 /\ opc = "destroy" /\ Dangling(pool_)
  /\ crashed' = pool_
  /\ UNCHANGED <<bufpool, mempool, service, caller, owned, mapped, leaked>>

-----------------------------------------------------------------------------
(* BufPool::GetBufSurfaceWrapper(timeout_ms).                               *)

Get(u, t) ==
  /\ crashed = 0 /\ pc[u] = "idle" /\ Cardinality(Held(u)) < MaxHeld
  /\ pc' = [pc EXCEPT ![u] = "lock"]
  /\ count' = [count EXCEPT ![u] = t + 1]
  /\ retry_cnt' = [retry_cnt EXCEPT ![u] = 1]
  /\ UNCHANGED <<bufpool, mempool, service, cur, owned, mapped, leaked, crashed>>

\* Mutant: stopped_ is looked at before the first attempt only.
LockStale(u) ==
  /\ crashed = 0 /\ pc[u] = "lock" /\ bmutex = Nobody
  /\ \/ /\ pool_ = 0 \/ (stopped_ /\ retry_cnt[u] = 1)
        /\ Returned(u)
        /\ UNCHANGED bmutex
     \/ /\ pool_ # 0 /\ ~(stopped_ /\ retry_cnt[u] = 1)
        /\ bmutex' = u
        /\ pc' = [pc EXCEPT ![u] = "attempt"]
        /\ UNCHANGED <<count, retry_cnt, cur>>
  /\ UNCHANGED <<pool_, stopped_, opc, mempool, service, owned, mapped, leaked, crashed>>

\* The lock is taken at the start of the call and after each pause.
Lock(u) ==
  /\ crashed = 0 /\ pc[u] = "lock" /\ bmutex = Nobody
  /\ \/ /\ pool_ = 0 \/ stopped_
        /\ Returned(u)
        /\ UNCHANGED bmutex
     \/ /\ pool_ # 0 /\ ~stopped_
        /\ bmutex' = u
        /\ pc' = [pc EXCEPT ![u] = "attempt"]
        /\ UNCHANGED <<count, retry_cnt, cur>>
  /\ UNCHANGED <<pool_, stopped_, opc, mempool, service, owned, mapped, leaked, crashed>>

\* MemPool::Alloc with a block left.
Alloc(u) ==
  /\ crashed = 0 /\ pc[u] = "attempt" /\ life[pool_] = "live"
  /\ \E b \in cache_[pool_] :
       /\ cur' = [cur EXCEPT ![u] = [@ EXCEPT !.pool = pool_, !.blk = b]]
       /\ cache_' = [cache_ EXCEPT ![pool_] = @ \ {b}]
  /\ alloc_count_' = [alloc_count_ EXCEPT
       ![pool_] = IF is_vb_pool_[pool_] THEN 0 ELSE (@ + 1) % CounterMod]
  /\ pc' = [pc EXCEPT ![u] = "header"]
  /\ UNCHANGED <<bufpool, life, is_vb_pool_, service, count, retry_cnt,
                 owned, mapped, leaked, crashed>>

AllocDangling(u) ==
  /\ crashed = 0 /\ pc[u] = "attempt" /\ Dangling(pool_)
  /\ crashed' = pool_
  /\ UNCHANGED <<bufpool, mempool, service, caller, owned, mapped, leaked>>

LeastOf(a, b) == IF a < b THEN a ELSE b

\* The attempt failed: give up, or drop the lock and sleep.
Retry(u) ==
  /\ bmutex' = Nobody
  /\ \/ /\ count[u] - retry_cnt[u] <= 0
        /\ Returned(u)
     \/ /\ count[u] - retry_cnt[u] > 0
        /\ pc' = [pc EXCEPT ![u] = "lock"]
        /\ count' = [count EXCEPT ![u] = @ - retry_cnt[u]]
        /\ retry_cnt' = [retry_cnt EXCEPT ![u] = LeastOf(@ * 2, 10)]
        /\ cur' = [cur EXCEPT ![u] = NoSurface]

\* MemPool::Alloc on an empty queue.
AllocEmpty(u) ==
  /\ crashed = 0 /\ pc[u] = "attempt" /\ life[pool_] = "live" /\ cache_[pool_] = {}
  /\ Retry(u)
  /\ UNCHANGED <<pool_, stopped_, opc, mempool, service, owned, mapped, leaked,
                 crashed>>

-----------------------------------------------------------------------------
(* BufSurfaceService::AllocSurface and FreeSurface: structs come from the   *)
(* array while it lasts and from malloc afterwards.                         *)

Fresh(h) == IF surfpool_ # {} THEN h \in surfpool_
                              ELSE h \in Headers \ (SurfArray \cup malloced)

TakeHeader(h) ==
  /\ Fresh(h)
  /\ surfpool_' = surfpool_ \ {h}
  /\ malloced' = IF h \in SurfArray THEN malloced ELSE malloced \cup {h}

\* The rest of CreateFromPool; a shared_ptr to a new wrapper is returned.
MakeWrapper(u, h) ==
  /\ crashed = 0 /\ pc[u] = "header"
  /\ TakeHeader(h)
  /\ wrap' = [wrap EXCEPT ![u] = @ \cup {[cur[u] EXCEPT !.hdr = h]}]
  /\ Returned(u)
  /\ bmutex' = Nobody
  /\ UNCHANGED <<pool_, stopped_, opc, mempool, raw, mapped, leaked, crashed>>

\* Mutant: the block is not given back when there is no struct for it.
NoHeaderLoses(u) ==
  /\ crashed = 0 /\ pc[u] = "header" /\ surfpool_ = {}
  /\ leaked' = leaked \cup {cur[u].blk}
  /\ Retry(u)
  /\ UNCHANGED <<pool_, stopped_, opc, mempool, service, owned, mapped, crashed>>

PutBack(s) ==
  /\ cache_' = [cache_ EXCEPT ![s.pool] = @ \cup {s.blk}]
  /\ alloc_count_' = [alloc_count_ EXCEPT
       ![s.pool] = IF is_vb_pool_[s.pool] THEN 0 ELSE (@ - 1) % CounterMod]

\* malloc returns nullptr: the block goes back and the attempt has failed.
NoHeader(u) ==
  /\ crashed = 0 /\ pc[u] = "header" /\ surfpool_ = {}
  /\ PutBack(cur[u])
  /\ Retry(u)
  /\ UNCHANGED <<pool_, stopped_, opc, life, is_vb_pool_, service, owned, mapped,
                 leaked, crashed>>

\* CnedkBufSurfaceCreate: a buffer without a pool.
CreateSurface(u, b, h) ==
  /\ crashed = 0 /\ pc[u] = "idle" /\ Cardinality(Held(u)) < MaxHeld
  /\ b \in System
  /\ TakeHeader(h)
  /\ raw' = [raw EXCEPT ![u] = @ \cup {[pool |-> 0, blk |-> b, hdr |-> h]}]
  /\ UNCHANGED <<bufpool, mempool, caller, wrap, mapped, leaked, crashed>>

-----------------------------------------------------------------------------
(* BufSurfaceWrapper.                                                       *)

BufSurfaceChown(u, s) ==
  /\ crashed = 0 /\ pc[u] = "idle" /\ s \in wrap[u]
  /\ wrap' = [wrap EXCEPT ![u] = @ \ {s}]
  /\ raw' = [raw EXCEPT ![u] = @ \cup {s}]
  /\ UNCHANGED <<bufpool, mempool, service, caller, mapped, leaked, crashed>>

\* GetHostData of device memory points mapped_data_ptr to a copy on the host.
GetHostData(u, s) ==
  /\ crashed = 0 /\ pc[u] = "idle" /\ s \in wrap[u] /\ s.pool # 0
  /\ ~is_vb_pool_[s.pool] /\ s.blk \notin mapped
  /\ mapped' = mapped \cup {s.blk}
  /\ UNCHANGED <<bufpool, mempool, service, caller, owned, leaked, crashed>>

Drop(u, s) ==
  /\ wrap' = [wrap EXCEPT ![u] = @ \ {s}]
  /\ raw' = [raw EXCEPT ![u] = @ \ {s}]
  /\ cur' = [cur EXCEPT ![u] = s]
  /\ pc' = [pc EXCEPT ![u] = "freehdr"]

\* Mutant: alloc_count_ is not decremented.
FreeUncounted(u, s) ==
  /\ crashed = 0 /\ pc[u] = "idle" /\ s \in Held(u) /\ s.pool # 0
  /\ life[s.pool] = "live"
  /\ cache_' = [cache_ EXCEPT ![s.pool] = @ \cup {s.blk}]
  /\ mapped' = mapped \ {s.blk}
  /\ Drop(u, s)
  /\ UNCHANGED <<bufpool, life, is_vb_pool_, alloc_count_, service, count,
                 retry_cnt, leaked, crashed>>

\* ~BufSurfaceWrapper or CnedkBufSurfaceDestroy: MemPool::Free, ...
Free(u, s) ==
  /\ crashed = 0 /\ pc[u] = "idle" /\ s \in Held(u) /\ s.pool # 0
  /\ life[s.pool] = "live"
  /\ PutBack(s)
  /\ mapped' = mapped \ {s.blk}
  /\ Drop(u, s)
  /\ UNCHANGED <<bufpool, life, is_vb_pool_, service, count, retry_cnt, leaked,
                 crashed>>

FreeDangling(u, s) ==
  /\ crashed = 0 /\ pc[u] = "idle" /\ s \in Held(u) /\ s.pool # 0
  /\ Dangling(s.pool)
  /\ crashed' = s.pool
  /\ UNCHANGED <<bufpool, mempool, service, caller, owned, mapped, leaked>>

\* ... or DestroySurface for a buffer without a pool, ...
DestroySurface(u, s) ==
  /\ crashed = 0 /\ pc[u] = "idle" /\ s \in Held(u) /\ s.pool = 0
  /\ Drop(u, s)
  /\ UNCHANGED <<bufpool, mempool, service, count, retry_cnt, mapped, leaked,
                 crashed>>

\* ... then FreeSurface.
FreeSurface(u) ==
  /\ crashed = 0 /\ pc[u] = "freehdr"
  /\ surfpool_' = surfpool_ \cup ({cur[u].hdr} \cap SurfArray)
  /\ malloced' = malloced \ {cur[u].hdr}
  /\ Returned(u)
  /\ UNCHANGED <<bufpool, mempool, owned, mapped, leaked, crashed>>

-----------------------------------------------------------------------------
OwnerStep ==
  \/ \E vb \in BOOLEAN, S \in SUBSET Blocks : CreatePool(vb, S)
  \/ \E S \in SUBSET Blocks : CreatePoolFails(S)
  \/ DestroyPool \/ DestroyDone \/ DestroyRefused \/ DestroyDangling

GetStep(u) ==
  \/ Lock(u) \/ Alloc(u) \/ AllocDangling(u) \/ AllocEmpty(u)
  \/ \E h \in Headers : MakeWrapper(u, h)
  \/ NoHeader(u)

GiveBackPooled(u) == \E s \in Held(u) : Free(u, s) \/ FreeDangling(u, s)

GiveBack(u) ==
  \/ GiveBackPooled(u)
  \/ \E s \in Held(u) : DestroySurface(u, s)
  \/ FreeSurface(u)

UserStep(u) ==
  \/ \E t \in Timeouts : Get(u, t)
  \/ GetStep(u)
  \/ \E b \in Blocks, h \in Headers : CreateSurface(u, b, h)
  \/ \E s \in Held(u) : BufSurfaceChown(u, s) \/ GetHostData(u, s)
  \/ GiveBack(u)

Next == OwnerStep \/ \E u \in Users : UserStep(u)

Spec == Init /\ [][Next]_vars

(* Fairness.  A thread in a call goes on; one that waits for a mutex that is *)
(* free again and again gets it; buffers of a pool are dropped sooner or     *)
(* later, whatever else their holder does between two calls: the wait in     *)
(* MemPool::Destroy relies on that.  A thread inside a call drops nothing.   *)
FairSpec ==
  /\ Spec
  /\ WF_vars(DestroyDone \/ DestroyRefused \/ DestroyDangling)
  /\ \A u \in Users : SF_vars(GetStep(u)) /\ SF_vars(GiveBackPooled(u)) /\ WF_vars(FreeSurface(u))

-----------------------------------------------------------------------------
(* Properties *)

Places(b) ==
  {<<"pool", p>> : p \in {q \in Pools : b \in cache_[q]}}
  \cup {<<"wrap", u>> : u \in {v \in Users : \E s \in wrap[v] : s.blk = b}}
  \cup {<<"raw", u>> : u \in {v \in Users : \E s \in raw[v] : s.blk = b}}
  \cup {<<"hand", u>> : u \in {v \in Users : pc[v] = "header" /\ cur[v].blk = b}}
  \cup {<<"lost", 0>> : x \in {0} \cap (IF b \in leaked THEN {0} ELSE {})}

\* A block of memory is in one place: in the queue of one pool, in one buffer of
\* one thread, or lost with a pool that was not created.
BlockInOnePlace == \A b \in Blocks : Cardinality(Places(b)) <= 1

\* A CnedkBufSurface struct is in the array's free list, or in use once, or not
\* allocated (AllocSurface and FreeSurface).
HeaderInOnePlace ==
  \A h \in Headers :
    LET users == {u \in Users : \/ \E s \in Held(u) : s.hdr = h
                                \/ pc[u] = "freehdr" /\ cur[u].hdr = h}
    IN /\ Cardinality(users) <= 1
       /\ users # {} => (h \in SurfArray /\ h \notin surfpool_) \/ h \in malloced
       /\ users = {} => h \notin malloced

\* alloc_count_ is the number of buffers of the pool that are out: the wait in
\* MemPool::Destroy relies on it.
AllocCountExact ==
  \A p \in Pools : life[p] = "live" /\ ~is_vb_pool_[p] =>
    alloc_count_[p] = Cardinality({s \in UNION {Having(u) : u \in Users} : s.pool = p})

\* A MemPool is not used after it was deleted, neither by a caller that slept
\* while DestroyPool ran nor through surf->opaque of a buffer given back late.
\* (A pool that could not be created is the exception: pool_ dangles then.)
NoUseAfterDestroy == crashed # 0 => life[crashed] = "failed"

\* A buffer in the queue has no mapping left that belongs to the wrapper of its
\* previous user (is_fake_mapped_ in MemPool::Free).
NoStaleMapping == \A p \in Pools : cache_[p] \cap mapped = {}

\* MemPool::Destroy spins for the buffers while DestroyPool holds BufPool::mutex_,
\* and a thread that has one of them asks for another: it sleeps on that mutex and
\* never comes to give its own back.  Nothing in the code keeps the two apart.
DestroyDeadlock ==
  /\ opc = "destroy" /\ ~is_vb_pool_[pool_]
  /\ \E u \in Users : pc[u] = "lock" /\ \E s \in Held(u) : s.pool = pool_

\* DestroyPool returns once the buffers are given back, and the deadlock with a
\* thread that asks for one more is the only way in which they are not.
DestroyReturns == opc = "destroy" ~> opc = "idle" \/ DestroyDeadlock \/ crashed # 0

\* GetBufSurfaceWrapper returns, with a buffer or without: it is the same deadlock
\* that can keep a caller, one without a buffer of its own included.
GetReturns ==
  \A u \in Users : pc[u] \in {"lock", "attempt", "header"} ~>
                     pc[u] = "idle" \/ DestroyDeadlock \/ crashed # 0

\* The pool as its users see it.
PoolPhase == IF pool_ = 0 \/ Dangling(pool_) THEN "absent"
             ELSE IF stopped_ THEN "closing" ELSE "open"
PoolInside == IF pool_ = 0 THEN {} ELSE cache_[pool_]
PoolOut == [u \in Users |-> {s.blk : s \in {x \in Having(u) : x.pool = pool_ /\ pool_ # 0}}]

Pool == INSTANCE ResourcePool WITH
  phase <- PoolPhase, inside <- PoolInside, out <- PoolOut

\* BufPool implements ResourcePool: nothing is handed out after DestroyPool has
\* begun, and the memory is released only when every buffer is back.
ImplementsPool == Pool!PSpec

-----------------------------------------------------------------------------
(* Parts of the inductive invariant of BufPoolProofs *)

\* BufPool::mutex_, and what its holder may rely on.  One MemPool is live at most,
\* and pool_ points to a deleted one only once stopped_ is set.
Locks ==
  /\ \A u \in Users : pc[u] \in {"attempt", "header"} <=> bmutex = u
  /\ \A u \in Users : pc[u] \in {"attempt", "header"} => pool_ # 0 /\ ~stopped_
  /\ \A u \in Users : pc[u] = "header" => cur[u].pool = pool_ /\ life[pool_] = "live"
  /\ opc = "destroy" <=> bmutex = Owner
  /\ opc = "destroy" => pool_ # 0 /\ stopped_
  /\ opc = "destroy" => life[pool_] \in {"live", "failed"}
  /\ pool_ # 0 => life[pool_] # "none"
  /\ pool_ # 0 /\ life[pool_] = "deleted" => stopped_
  /\ \A p \in Pools : life[p] = "live" => p = pool_

\* A buffer belongs to a live pool or to none, and its block to nothing else.
BlocksApart ==
  /\ \A p \in Pools : life[p] # "live" => cache_[p] = {}
  /\ \A u \in Users : \A s \in Having(u) : s.pool # 0 => life[s.pool] = "live"
  /\ \A u, v \in Users : \A s \in Having(u), t \in Having(v) :
       s.blk = t.blk => u = v /\ s = t
  /\ \A u \in Users : \A s \in Having(u), p \in Pools : s.blk \notin cache_[p]
  /\ \A u \in Users : \A s \in Having(u) : s.blk \notin leaked
  /\ \A p \in Pools : cache_[p] \cap leaked = {}

\* A buffer is in a wrapper, taken out of one, or in hand.
HandsApart ==
  /\ \A u \in Users : wrap[u] \cap raw[u] = {}
  /\ \A u \in Users : pc[u] = "header" => cur[u] \notin Held(u)

\* The buffers whose struct a thread has: those it holds, and the one it frees.
Using(u) == Held(u) \cup (IF pc[u] = "freehdr" THEN {cur[u]} ELSE {})

HeadersApart ==
  /\ \A u, v \in Users : \A s \in Using(u), t \in Using(v) :
       s.hdr = t.hdr => u = v /\ s = t
  /\ \A u \in Users : pc[u] = "freehdr" => cur[u] \notin Held(u)
  /\ \A u \in Users : \A s \in Using(u) :
       (s.hdr \in SurfArray \ surfpool_) \/ s.hdr \in malloced
  /\ \A h \in malloced : \E u \in Users : \E s \in Using(u) : s.hdr = h

MappedHeld ==
  \A b \in mapped : \E u \in Users : \E s \in Held(u) : s.blk = b /\ s.pool # 0

Out(p) == {s \in UNION {Having(u) : u \in Users} : s.pool = p}

\* Every block of a live pool is inside or out, and alloc_count_ is what is out;
\* the driver counts the blocks of a VB pool.
Counted ==
  \A p \in Pools :
    /\ life[p] = "live" =>
         /\ IsFiniteSet(Out(p))
         /\ Cardinality(cache_[p]) + Cardinality(Out(p)) = BlockNum
         /\ alloc_count_[p] = IF is_vb_pool_[p] THEN 0 ELSE Cardinality(Out(p))
    /\ life[p] = "none" => alloc_count_[p] = 0

BuffersInv ==
  /\ TypeOK /\ Locks /\ BlocksApart /\ HandsApart /\ HeadersApart /\ MappedHeld
  /\ Counted /\ NoUseAfterDestroy

-----------------------------------------------------------------------------
\* Blocks, headers and the count of buffers that are out agree at any time, and
\* nobody uses a pool or a mapping that is gone.
PoolSafe ==
  TypeOK /\ BlockInOnePlace /\ HeaderInOnePlace /\ AllocCountExact /\ NoUseAfterDestroy /\ NoStaleMapping

\* DestroyPool and GetBufSurfaceWrapper return, though each may wait for the other
\* side, the one for buffers to be given back, the other for the mutex: unless both
\* do at once and for each other (DestroyDeadlock).
PoolCallsReturn == DestroyReturns /\ GetReturns
====
