----------------------------- MODULE UtilProofs -----------------------------
(***************************************************************************)
(* Proofs about the utilities of the inference server: ThreadPool for any  *)
(* number of threads, pushers and tasks, and Batcher for any number of     *)
(* clients, items and timer events, any batch size, and with or without a  *)
(* timeout; and Cache, dynamic and static, for any number of requests of   *)
(* any size and any batch size.                                            *)
(***************************************************************************)
EXTENDS ThreadPool, Batcher, Cache, SublistsProofs, FiniteSetTheorems

-----------------------------------------------------------------------------
(* ThreadPool *)

USE DEF owner, pusher, Attached

LEMMA InitPool == Init => PoolInv
<1> SUFFICES ASSUME Init PROVE PoolInv
  OBVIOUS
<1>1. TypeOK
  <2>1. (CHOOSE x \in Tasks : TRUE) \in Tasks
    BY PoolConstants
  <2>2. threads_ \in Seq(Threads) /\ Distinct(threads_)
    BY DEF Init, Distinct
  <2>3. cur \in [Threads -> Tasks]
    BY <2>1 DEF Init
  <2>4. is_done_ \in BOOLEAN /\ is_stop_ \in BOOLEAN /\ dtor \in BOOLEAN
        /\ flag \in [Threads -> BOOLEAN]
    BY DEF Init
  <2> QED
    BY <2>2, <2>3, <2>4 DEF Init, TypeOK
<1>2. OneMutex /\ TaskOnce /\ Crew /\ Drain
  BY DEF Init, OneMutex, TaskOnce, Crew, Drain, Elems
<1> QED
  BY <1>1, <1>2 DEF PoolInv

-----------------------------------------------------------------------------
(* Steps that move threads and no task *)

\* The owner's variables and the tasks stay; threads go to sleep, wake up or leave,
\* and one that has to look at the queue still has to.
LEMMA ThreadsMove ==
  ASSUME PoolInv, UNCHANGED <<threads_, flag, detached, task_q_, is_done_, is_stop_, cur,
                              item, opc, done, must>>,
         tpc' \in [Threads -> {"none", "start", "run", "poll", "decide", "doze",
                               "wait", "woken", "gone"}],
         \A t \in Threads :
           /\ tpc'[t] = "run" <=> tpc[t] = "run"
           /\ tpc'[t] = "none" <=> tpc[t] = "none"
           /\ tpc[t] = "gone" => tpc'[t] = "gone"
           /\ tpc'[t] = "gone" /\ tpc[t] # "gone" =>
                tpc[t] = "decide" /\ (is_done_ \/ flag[t])
           /\ tpc'[t] \in {"decide", "doze"} => tpc[t] \in {"decide", "doze"}
           /\ tpc'[t] = "decide" => tpc[t] = "decide"
  PROVE  OneMutex' /\ TaskOnce' /\ Crew' /\ Drain'
<1> USE DEF PoolInv
<1>1. \A t \in Attached : t \in Threads
  BY DEF Elems, TypeOK
<1>2. OneMutex' /\ TaskOnce'
  BY DEF OneMutex, TaskOnce
<1>3. Crew'
  BY <1>1 DEF Crew
<1>4. Drain'
  <2>1. \A x \in must : Runs(x)' <=> Runs(x)
    BY DEF Runs
  <2>2. CASE Draining
    BY <1>1, <2>1, <2>2 DEF Drain, Draining
  <2> QED
    BY <2>2 DEF Drain
<1> QED
  BY <1>2, <1>3, <1>4

LEMMA EmplaceStep ==
  ASSUME PoolInv, NEW p \in Pushers, NEW x \in Tasks, Emplace(p, x)
  PROVE  PoolInv'
<1> USE DEF PoolInv
<1>1. /\ UNCHANGED <<owner, flag, tpc, cur, done>> /\ x \notin item
      /\ task_q_' = task_q_ \cup {x} /\ item' = item \cup {x}
      /\ ppc' = [ppc EXCEPT ![p] = "notify"]
  BY DEF Emplace
<1>2. TypeOK'
  BY <1>1 DEF TypeOK
<1>3. OneMutex' /\ TaskOnce' /\ Crew'
  BY <1>1 DEF OneMutex, TaskOnce, Crew
<1>4. Drain'
  <2>1. \A y \in must : Runs(y)' <=> Runs(y)
    BY <1>1 DEF Runs
  <2>2. CASE Draining
    <3>1. \A y \in must : y \in item
      BY <2>2 DEF Draining, TaskOnce, Runs
    <3>2. must \cap task_q_' = must \cap task_q_
      BY <1>1, <3>1
    <3> QED
      BY <1>1, <2>1, <2>2, <3>2 DEF Drain, Draining
  <2> QED
    BY <1>1, <2>2 DEF Drain
<1> QED
  BY <1>2, <1>3, <1>4

LEMMA MoveStep ==
  ASSUME PoolInv,
         \/ \E p \in Pushers : NotifyOne(p)
         \/ \E t \in Threads : Decide(t) \/ Sleep(t) \/ Spurious(t)
         \/ StopNotify
  PROVE  PoolInv'
<1> USE DEF PoolInv
<1>1. ASSUME NEW p \in Pushers, NotifyOne(p) PROVE PoolInv'
  <2>1. /\ UNCHANGED <<owner, flag, task_q_, cur, item, done>>
        /\ ppc' = [ppc EXCEPT ![p] = "idle"]
        /\ (\E t \in Threads : tpc[t] = "wait" /\ tpc' = [tpc EXCEPT ![t] = "woken"])
           \/ tpc' = tpc
    BY <1>1 DEF NotifyOne, Sleeping
  <2>2. TypeOK'
    BY <2>1 DEF TypeOK
  <2>3. OneMutex' /\ TaskOnce' /\ Crew' /\ Drain'
    BY <2>1, <2>2, ThreadsMove DEF TypeOK
  <2> QED
    BY <2>2, <2>3
<1>2. ASSUME NEW t \in Threads, Decide(t) \/ Sleep(t) \/ Spurious(t) PROVE PoolInv'
  <2>1. /\ UNCHANGED <<owner, pusher, flag, task_q_, cur, done>>
        /\ \/ tpc[t] = "decide" /\ tpc' = [tpc EXCEPT ![t] = "gone"] /\ (is_done_ \/ flag[t])
           \/ tpc[t] = "decide" /\ tpc' = [tpc EXCEPT ![t] = "doze"]
           \/ tpc[t] = "doze" /\ tpc' = [tpc EXCEPT ![t] = "wait"]
           \/ tpc[t] = "wait" /\ tpc' = [tpc EXCEPT ![t] = "woken"]
    BY <1>2 DEF Decide, Sleep, Spurious
  <2>2. TypeOK'
    BY <2>1 DEF TypeOK
  <2>3. OneMutex' /\ TaskOnce' /\ Crew' /\ Drain'
    BY <2>1, <2>2, ThreadsMove DEF TypeOK
  <2> QED
    BY <2>2, <2>3
<1>3. CASE StopNotify
  <2>1. /\ UNCHANGED <<pusher, threads_, flag, detached, task_q_, is_done_, is_stop_, cur,
                       dtor, done, must>>
        /\ opc = "notify" /\ opc' = "join" /\ tpc' = WakeAll
    BY <1>3 DEF StopNotify
  <2>2. TypeOK'
    BY <2>1 DEF TypeOK, WakeAll
  <2>3. \A t \in Threads : tpc'[t] = IF tpc[t] = "wait" THEN "woken" ELSE tpc[t]
    BY <2>1 DEF WakeAll
  <2>4. OneMutex' /\ TaskOnce'
    BY <2>1, <2>3 DEF OneMutex, TaskOnce
  <2>5. \A t \in Attached : t \in Threads
    BY DEF Elems, TypeOK
  <2>6. Crew'
    BY <2>1, <2>3, <2>5 DEF Crew
  <2>7. Drain'
    <3>1. \A x \in must : Runs(x)' <=> Runs(x)
      BY <2>1, <2>3 DEF Runs
    <3>2. CASE Draining
      BY <2>1, <2>3, <2>5, <3>1, <3>2 DEF Drain, Draining
    <3> QED
      BY <2>1, <3>2 DEF Drain
  <2> QED
    BY <2>2, <2>4, <2>6, <2>7
<1> QED
  BY <1>1, <1>2, <1>3

-----------------------------------------------------------------------------
(* Steps that move tasks *)

LEMMA PopStep ==
  ASSUME PoolInv, NEW t \in Threads, TryPop(t) \/ Poll(t)
  PROVE  PoolInv'
<1> USE DEF PoolInv
<1>0. \A u \in Attached : u \in Threads
  BY DEF Elems, TypeOK
<1>1. /\ UNCHANGED <<owner, pusher, flag, done>>
      /\ tpc[t] \in {"start", "poll", "woken"}
      /\ \/ \E x \in Tasks : PopTo(t, x)
         \/ task_q_ = {} /\ tpc' = [tpc EXCEPT ![t] = "poll"] /\ UNCHANGED <<task_q_, cur>>
         \/ /\ task_q_ = {} /\ tpc' = [tpc EXCEPT ![t] = "decide"] /\ MutexFree
            /\ UNCHANGED <<task_q_, cur>>
  BY DEF TryPop, Poll
<1>2. ASSUME NEW x \in Tasks, PopTo(t, x) PROVE PoolInv'
  <2>1. /\ x \in task_q_ /\ task_q_' = task_q_ \ {x}
        /\ cur' = [cur EXCEPT ![t] = x] /\ cur'[t] = x
        /\ tpc' = [tpc EXCEPT ![t] = "run"] /\ tpc'[t] = "run"
        /\ \A u \in Threads \ {t} : tpc'[u] = tpc[u] /\ cur'[u] = cur[u]
    BY <1>2 DEF PopTo, Top, TypeOK
  <2>2. TypeOK'
    BY <1>1, <2>1 DEF TypeOK
  <2>3. OneMutex' /\ TaskOnce'
    BY <1>1, <2>1 DEF OneMutex, TaskOnce
  <2>4. Crew'
    BY <1>0, <1>1, <2>1 DEF Crew
  <2>5. Drain'
    <3>1. \A y \in must : Runs(y) => Runs(y)'
      BY <1>1, <2>1 DEF Runs
    <3>2. Runs(x)'
      BY <2>1 DEF Runs
    <3>3. CASE Draining
      <4>1. \A y \in must : y \in task_q_' \/ y \in done \/ Runs(y)'
        BY <2>1, <3>1, <3>2, <3>3 DEF Draining
      <4>2. must \cap task_q_' # {} => \E u \in Attached : tpc'[u] \notin {"gone", "decide"}
        BY <1>0, <2>1, <3>3 DEF Draining
      <4> QED
        BY <1>1, <3>3, <4>1, <4>2 DEF Drain, Draining
    <3> QED
      BY <1>1, <3>3 DEF Drain
  <2> QED
    BY <2>2, <2>3, <2>4, <2>5
<1>3. ASSUME task_q_ = {}, UNCHANGED <<task_q_, cur>>, NEW v \in {"poll", "decide"},
             tpc' = [tpc EXCEPT ![t] = v], v = "decide" => MutexFree
      PROVE  PoolInv'
  <2>1. tpc'[t] = v /\ \A u \in Threads \ {t} : tpc'[u] = tpc[u]
    BY <1>3 DEF TypeOK
  <2>2. TypeOK'
    BY <1>1, <1>3 DEF TypeOK
  <2>3. OneMutex' /\ TaskOnce'
    BY <1>1, <1>3, <2>1 DEF OneMutex, TaskOnce, MutexFree
  <2>4. Crew'
    BY <1>0, <1>1, <2>1 DEF Crew
  <2>5. Drain'
    <3>1. \A y \in must : Runs(y) => Runs(y)'
      BY <1>1, <1>3, <2>1 DEF Runs
    <3> QED
      BY <1>1, <1>3, <3>1 DEF Drain, Draining
  <2> QED
    BY <2>2, <2>3, <2>4, <2>5
<1> QED
  BY <1>1, <1>2, <1>3

LEMMA RunTaskStep ==
  ASSUME PoolInv, NEW t \in Threads, RunTask(t)
  PROVE  PoolInv'
<1> USE DEF PoolInv
<1>0. \A u \in Attached : u \in Threads
  BY DEF Elems, TypeOK
<1>1. /\ UNCHANGED <<owner, pusher, flag, task_q_, cur>>
      /\ tpc[t] = "run" /\ done' = done \cup {cur[t]}
      /\ tpc' = [tpc EXCEPT ![t] = IF flag[t] THEN "gone" ELSE "start"]
      /\ tpc'[t] \in {"gone", "start"} /\ (tpc'[t] = "gone" => flag[t])
      /\ \A u \in Threads \ {t} : tpc'[u] = tpc[u]
  BY DEF RunTask, TypeOK
<1>2. TypeOK'
  BY <1>1 DEF TypeOK
<1>3. OneMutex' /\ TaskOnce'
  BY <1>1 DEF OneMutex, TaskOnce
<1>4. Crew'
  BY <1>0, <1>1 DEF Crew
<1>5. Drain'
  <2>1. \A y \in must : Runs(y) => Runs(y)' \/ y = cur[t]
    BY <1>1 DEF Runs
  <2>2. CASE Draining
    <3>1. \A y \in must : y \in task_q_' \/ y \in done' \/ Runs(y)'
      BY <1>1, <2>1, <2>2 DEF Draining
    <3>2. must \cap task_q_' # {} => \E u \in Attached : tpc'[u] \notin {"gone", "decide"}
      <4>1. SUFFICES ASSUME NEW u \in Attached, tpc[u] \notin {"gone", "decide"}
                     PROVE  tpc'[u] \notin {"gone", "decide"}
        BY <1>1, <2>2 DEF Draining
      <4>2. ~flag[u]
        BY <2>2 DEF Draining, Crew
      <4> QED
        BY <1>0, <1>1, <4>1, <4>2
    <3> QED
      BY <1>1, <2>2, <3>1, <3>2 DEF Drain, Draining
  <2> QED
    BY <1>1, <2>2 DEF Drain
<1> QED
  BY <1>2, <1>3, <1>4, <1>5
-----------------------------------------------------------------------------
(* The owner *)

\* While no Stop has begun nothing has to be drained.
LEMMA NotDraining ==
  ASSUME PoolInv, ~is_done_ \/ is_stop_ \/ opc \notin {"notify", "join"}
  PROVE  must \subseteq done
  BY DEF PoolInv, Drain, Draining

LEMMA GrowStep ==
  ASSUME PoolInv, NEW n \in ResizeTo, Grow(n)
  PROVE  PoolInv'
<1> USE DEF PoolInv
<1> DEFINE k == n - Len(threads_)
<1>1. /\ opc = "idle" /\ ~is_stop_ /\ ~is_done_ /\ Len(threads_) < n
      /\ UNCHANGED <<pusher, flag, detached, task_q_, is_done_, is_stop_, cur, opc,
                     dtor, done, must>>
  BY DEF Grow
<1>2. threads_ \in Seq(Threads) /\ Len(threads_) \in Nat /\ n \in Nat /\ k \in Nat
  <2>1. threads_ \in Seq(Threads) /\ n \in Nat
    BY PoolConstants DEF TypeOK
  <2>2. Len(threads_) \in Nat
    BY <2>1
  <2> QED
    BY <1>1, <2>1, <2>2
<1>3. PICK new \in [1 .. k -> Unused] :
        /\ \A i, j \in DOMAIN new : i # j => new[i] # new[j]
        /\ threads_' = threads_ \o new
        /\ tpc' = [t \in Threads |->
                     IF \E i \in DOMAIN new : new[i] = t THEN "start" ELSE tpc[t]]
  BY DEF Grow
<1> DEFINE fresh == {new[i] : i \in 1 .. k}
<1>4. /\ new \in [1 .. k -> Threads] /\ DOMAIN new = 1 .. k
      /\ \A i \in 1 .. k : new[i] \in Threads /\ tpc[new[i]] = "none"
  BY <1>3 DEF Unused
<1>5. \A i \in 1 .. k : new[i] \notin Elems(threads_)
  BY <1>4 DEF Crew
<1>6. \A i, j \in 1 .. k : new[i] = new[j] => i = j
  BY <1>3, <1>4
<1> HIDE DEF k
<1>7. /\ threads_' \in Seq(Threads) /\ Elems(threads_') = Elems(threads_) \cup fresh
      /\ Distinct(threads_')
  <2>1. threads_ \in Seq(Threads) /\ k \in Nat /\ new \in [1 .. k -> Threads]
        /\ Distinct(threads_) /\ threads_' = threads_ \o new
    BY <1>2, <1>3, <1>4 DEF TypeOK
  <2>2. /\ threads_ \o new \in Seq(Threads)
        /\ Elems(threads_ \o new) = Elems(threads_) \cup fresh
        /\ (/\ Distinct(threads_) /\ \A i, j \in 1 .. k : new[i] = new[j] => i = j
            /\ \A i \in 1 .. k : new[i] \notin Elems(threads_))
           => Distinct(threads_ \o new)
    BY <2>1, ConcatElems, Zenon
  <2> QED
    BY <1>5, <1>6, <2>1, <2>2, Zenon
<1>8. /\ \A t \in fresh : t \in Threads /\ tpc[t] = "none" /\ tpc'[t] = "start"
      /\ \A t \in Threads \ fresh : tpc'[t] = tpc[t]
  BY <1>3, <1>4
<1>9. tpc' \in [Threads -> {"none", "start", "run", "poll", "decide", "doze",
                            "wait", "woken", "gone"}]
  BY <1>3 DEF TypeOK
<1> HIDE DEF fresh
<1>10. TypeOK'
  BY <1>1, <1>7, <1>9 DEF TypeOK
<1>11. OneMutex' /\ TaskOnce'
  BY <1>1, <1>8 DEF OneMutex, TaskOnce
<1>12. Crew'
  <2>1. \A t \in Elems(threads_) : t \in Threads
    BY DEF Elems, TypeOK
  <2> QED
    BY <1>1, <1>7, <1>8, <2>1 DEF Crew
<1>13. Drain'
  BY <1>1, NotDraining DEF Drain
<1> QED
  BY <1>10, <1>11, <1>12, <1>13

LEMMA ShrinkStep ==
  ASSUME PoolInv, NEW n \in ResizeTo, Shrink(n)
  PROVE  PoolInv'
<1> USE DEF PoolInv
<1> DEFINE rest == {threads_[i] : i \in (n + 1) .. Len(threads_)}
<1>1. /\ opc = "idle" /\ ~is_stop_ /\ ~is_done_ /\ n < Len(threads_)
      /\ flag' = [t \in Threads |-> flag[t] \/
                    \E i \in (n + 1) .. Len(threads_) : threads_[i] = t]
      /\ detached' = detached \cup rest
      /\ threads_' = SubSeq(threads_, 1, n)
      /\ tpc' = WakeAll
      /\ UNCHANGED <<pusher, task_q_, is_done_, is_stop_, cur, opc, dtor, done, must>>
  BY DEF Shrink
<1>2. threads_ \in Seq(Threads) /\ n \in Nat
  BY PoolConstants DEF TypeOK
<1>3. /\ threads_' \in Seq(Threads) /\ Elems(threads_) = Elems(threads_') \cup rest
      /\ rest \subseteq Threads /\ Distinct(threads_') /\ Elems(threads_') \cap rest = {}
  BY <1>1, <1>2, FirstElems DEF TypeOK
<1>4. \A t \in Threads : flag'[t] <=> flag[t] \/ t \in rest
  BY <1>1
<1>5. flag' \in [Threads -> BOOLEAN]
  BY <1>1 DEF TypeOK
<1>6. /\ \A t \in Threads : tpc'[t] = IF tpc[t] = "wait" THEN "woken" ELSE tpc[t]
      /\ tpc' \in [Threads -> {"none", "start", "run", "poll", "decide", "doze",
                               "wait", "woken", "gone"}]
  BY <1>1 DEF WakeAll, TypeOK
<1> HIDE DEF rest
<1>7. TypeOK'
  BY <1>1, <1>3, <1>5, <1>6 DEF TypeOK
<1>8. OneMutex' /\ TaskOnce'
  BY <1>1, <1>6 DEF OneMutex, TaskOnce
<1>9. Crew'
  <2>1. \A t \in Elems(threads_) : t \in Threads
    BY DEF Elems, TypeOK
  <2> QED
    BY <1>1, <1>3, <1>4, <1>6, <2>1 DEF Crew
<1>10. Drain'
  BY <1>1, NotDraining DEF Drain
<1> QED
  BY <1>7, <1>8, <1>9, <1>10

\* The steps of Stop that neither wake nor wait for threads.
LEMMA StopStepQuiet ==
  ASSUME PoolInv, StopNow \/ StopClear \/ DestroyStopped
  PROVE  PoolInv'
<1> USE DEF PoolInv
<1>0. \A u \in Attached : u \in Threads
  BY DEF Elems, TypeOK
<1>1. CASE StopNow
  <2>1. /\ opc = "idle" /\ ~is_stop_ /\ is_stop_' = TRUE /\ opc' = "clear"
        /\ flag' = [t \in Threads |-> flag[t] \/ t \in Attached]
        /\ UNCHANGED <<pusher, threads_, detached, task_q_, is_done_, tpc, cur, dtor,
                       done, must>>
    BY <1>1 DEF StopNow
  <2>2. flag' \in [Threads -> BOOLEAN] /\ \A t \in Threads : flag'[t] <=> flag[t] \/ t \in Attached
    BY <2>1 DEF TypeOK
  <2>3. TypeOK'
    BY <2>1, <2>2 DEF TypeOK
  <2>4. OneMutex' /\ TaskOnce' /\ Crew'
    BY <2>1, <2>2 DEF OneMutex, TaskOnce, Crew
  <2>5. Drain'
    BY <2>1, NotDraining DEF Drain
  <2> QED
    BY <2>3, <2>4, <2>5
<1>2. CASE StopClear
  <2>1. /\ opc = "clear" /\ task_q_' = {} /\ opc' = "notify"
        /\ UNCHANGED <<pusher, threads_, flag, detached, is_done_, is_stop_, tpc, cur,
                       dtor, done, must>>
    BY <1>2 DEF StopClear
  <2>2. TypeOK'
    BY <2>1 DEF TypeOK
  <2>3. OneMutex' /\ TaskOnce' /\ Crew'
    BY <2>1 DEF OneMutex, TaskOnce, Crew
  <2>4. Drain'
    BY <2>1, NotDraining DEF Drain
  <2> QED
    BY <2>2, <2>3, <2>4
<1>3. CASE DestroyStopped
  <2>1. /\ opc = "idle" /\ (is_done_ \/ is_stop_) /\ dtor' = TRUE /\ opc' = "dead"
        /\ UNCHANGED <<pusher, threads_, flag, detached, task_q_, is_done_, is_stop_,
                       tpc, cur, done, must>>
    BY <1>3 DEF DestroyStopped
  <2>2. TypeOK'
    BY <2>1 DEF TypeOK
  <2>3. OneMutex' /\ TaskOnce' /\ Crew'
    BY <2>1 DEF OneMutex, TaskOnce, Crew
  <2>4. Drain'
    BY <2>1, NotDraining DEF Drain
  <2> QED
    BY <2>2, <2>3, <2>4
<1> QED
  BY <1>1, <1>2, <1>3

\* Stop(true) with a crew of two finds one thread that will look at the queue.
LEMMA StopAfterTasksStep ==
  ASSUME PoolInv, NEW d \in BOOLEAN, StopAfterTasks(d)
  PROVE  PoolInv'
<1> USE DEF PoolInv
<1>1. /\ opc = "idle" /\ ~is_done_ /\ ~is_stop_ /\ is_done_' = TRUE /\ opc' = "notify"
      /\ must' = IF Len(threads_) > 1 /\ detached = {} THEN task_q_ ELSE {}
      /\ dtor' = d
      /\ UNCHANGED <<pusher, threads_, flag, detached, task_q_, is_stop_, tpc, cur, done>>
  BY DEF StopAfterTasks
<1>2. TypeOK'
  BY <1>1 DEF TypeOK
<1>3. OneMutex' /\ TaskOnce' /\ Crew'
  BY <1>1 DEF OneMutex, TaskOnce, Crew
<1>4. CASE ~(Len(threads_) > 1 /\ detached = {})
  BY <1>1, <1>2, <1>3, <1>4 DEF Drain
<1>5. CASE Len(threads_) > 1 /\ detached = {}
  <2>1. 1 \in DOMAIN threads_ /\ 2 \in DOMAIN threads_
    BY <1>5 DEF TypeOK
  <2>2. /\ threads_[1] \in Attached /\ threads_[2] \in Attached
        /\ threads_[1] \in Threads /\ threads_[2] \in Threads
    BY <2>1 DEF Elems, TypeOK
  <2>3. threads_[1] # threads_[2]
    BY <2>1 DEF TypeOK, Distinct
  <2>4. tpc[threads_[1]] # "gone" /\ tpc[threads_[2]] # "gone"
    BY <1>1, <2>2 DEF Crew
  <2>5. tpc[threads_[1]] # "decide" \/ tpc[threads_[2]] # "decide"
    BY <2>2, <2>3 DEF OneMutex
  <2>6. \E t \in Attached : tpc[t] \notin {"gone", "decide"}
    BY <2>2, <2>4, <2>5
  <2>7. Draining'
    BY <1>1, <1>5, <2>6 DEF Draining
  <2> QED
    BY <1>2, <1>3, <2>7 DEF Drain
<1> QED
  BY <1>4, <1>5

\* Every thread has left: what had to run has run.
LEMMA StopJoinStep ==
  ASSUME PoolInv, StopJoin
  PROVE  PoolInv'
<1> USE DEF PoolInv
<1>1. /\ opc = "join" /\ (\A t \in Attached : tpc[t] = "gone")
      /\ task_q_' = {} /\ threads_' = <<>> /\ opc' = IF dtor THEN "dead" ELSE "idle"
      /\ UNCHANGED <<pusher, flag, detached, is_done_, is_stop_, tpc, cur, dtor, done, must>>
  BY DEF StopJoin
<1>2. threads_' \in Seq(Threads) /\ Distinct(threads_') /\ Elems(threads_') = {}
  BY <1>1 DEF Distinct, Elems
<1>3. TypeOK'
  BY <1>1, <1>2 DEF TypeOK
<1>4. OneMutex' /\ TaskOnce'
  BY <1>1 DEF OneMutex, TaskOnce
<1>5. Crew'
  BY <1>1, <1>2 DEF Crew
<1>6. Drain'
  <2>1. CASE Draining
    <3>1. must \cap task_q_ = {}
      BY <1>1, <2>1 DEF Draining
    <3>2. \A t \in Threads : tpc[t] # "run"
      BY <1>1, <2>1 DEF Draining, Crew
    <3>3. must \subseteq done
      BY <2>1, <3>1, <3>2 DEF Draining, Runs
    <3> QED
      BY <1>1, <3>3 DEF Drain
  <2> QED
    BY <1>1, <2>1 DEF Drain
<1> QED
  BY <1>3, <1>4, <1>5, <1>6

-----------------------------------------------------------------------------
LEMMA PoolStep == PoolInv /\ [Next]_vars => PoolInv'
<1> SUFFICES ASSUME PoolInv, [Next]_vars PROVE PoolInv'
  OBVIOUS
<1>1. CASE UNCHANGED vars
  BY <1>1 DEF vars, PoolInv, TypeOK, OneMutex, TaskOnce, Crew, Drain, Draining, Runs
<1>2. CASE Next
  BY <1>2, EmplaceStep, MoveStep, PopStep, RunTaskStep, GrowStep, ShrinkStep,
     StopStepQuiet, StopAfterTasksStep, StopJoinStep
     DEF Next, PushStep, ThreadStep, OwnerStep, StopStep
<1> QED
  BY <1>1, <1>2

LEMMA PoolInvariant == Spec => []PoolInv
  BY InitPool, PoolStep, PTL DEF Spec

\* For any number of threads, pushers and tasks: a task is with one thread at most
\* and never run twice, Stop(true) and the destructor return only when every task
\* queued before has run (with a crew of two or more and none detached), and no
\* attached thread outlives the pool.
THEOREM TasksAreSafe == Spec => []TasksSafe
<1>1. PoolInv => TaskHeldOnce
  <2> SUFFICES ASSUME PoolInv, NEW x \in Tasks
               PROVE  LET holders == {t \in Threads : tpc[t] = "run" /\ cur[t] = x}
                      IN /\ Cardinality(holders) <= 1
                         /\ x \in task_q_ => holders = {} /\ x \notin done
                         /\ x \in done => holders = {}
    BY DEF TaskHeldOnce
  <2> DEFINE holders == {t \in Threads : tpc[t] = "run" /\ cur[t] = x}
  <2>1. \A t, u \in holders : t = u
    BY DEF PoolInv, TaskOnce
  <2>2. Cardinality(holders) <= 1
    <3>1. CASE holders = {}
      BY <3>1, FS_EmptySet
    <3>2. ASSUME NEW t \in holders PROVE Cardinality(holders) <= 1
      <4>1. holders = {t}
        BY <2>1, <3>2
      <4>2. Cardinality({t}) = 1
        BY FS_Singleton
      <4> QED
        BY <4>1, <4>2
    <3> QED
      BY <3>1, <3>2
  <2> QED
    BY <2>2 DEF PoolInv, TaskOnce
<1>2. PoolInv => StopDrains /\ DeadPoolUnused
  BY DEF PoolInv, Drain, Draining, StopDrains, DeadPoolUnused, Crew, Elems
<1>3. PoolInv => TasksSafe
  BY <1>1, <1>2 DEF PoolInv, TasksSafe
<1> QED
  BY <1>3, PoolInvariant, PTL

-----------------------------------------------------------------------------
(* Batcher *)

USE DEF timer

-----------------------------------------------------------------------------
(* Where items are *)

LEMMA ElemsTyped ==
  ASSUME NEW S, NEW s \in Seq(S)
  PROVE  Elems(s) \subseteq S /\ Elems(<<>>) = {}
  BY DEF Elems

\* The places look at these variables only.
LEMMA PlacedFrame ==
  ASSUME Placed, UNCHANGED <<cache_, held, emitted, added>>,
         \A x \in Items : Adding(x)' <=> Adding(x)
  PROVE  Placed'
<1>1. \A x \in Items : InBatch(x)' <=> InBatch(x)
  BY DEF InBatch
<1> QED
  BY <1>1 DEF Placed

\* A client that stays outside or inside of cache_mutex_ adds what it added.
LEMMA AddingFrame ==
  ASSUME citem' = citem,
         \A c \in Clients : cpc'[c] \in Locked <=> cpc[c] \in Locked
  PROVE  /\ \A x \in Items : Adding(x)' <=> Adding(x)
         /\ OneHolder => OneHolder'
  BY DEF Adding, OneHolder

\* Thread a takes the batch s.
LEMMA BatchTaken ==
  ASSUME BatcherTypeOK, Placed, NEW a \in Actors, NEW s \in Seq(Items), held[a] = <<>>,
         held' = [held EXCEPT ![a] = s], \A x \in Elems(s) : ~InBatch(x)
  PROVE  /\ held' \in [Actors -> Seq(Items)]
         /\ \A x \in Items : InBatch(x)' <=> InBatch(x) \/ x \in Elems(s)
         /\ \A b, d \in Actors : \A x \in Items :
              x \in Elems(held'[b]) /\ x \in Elems(held'[d]) => b = d
<1>1. held' \in [Actors -> Seq(Items)] /\ held'[a] = s
      /\ \A b \in Actors \ {a} : held'[b] = held[b]
  BY DEF BatcherTypeOK
<1>2. Elems(held[a]) = {}
  BY ElemsTyped
<1>3. \A x \in Items : InBatch(x)' <=> InBatch(x) \/ x \in Elems(s)
  BY <1>1, <1>2, Zenon DEF InBatch
<1>4. ASSUME NEW b \in Actors, NEW d \in Actors, NEW x \in Items,
             x \in Elems(held'[b]), x \in Elems(held'[d])
      PROVE  b = d
  <2>1. CASE b = a
    <3>1. CASE d # a
      BY <1>1, <1>4, <2>1, <3>1, Zenon DEF InBatch
    <3> QED
      BY <2>1, <3>1
  <2>2. CASE b # a
    <3>1. CASE d = a
      BY <1>1, <1>4, <2>2, <3>1, Zenon DEF InBatch
    <3>2. CASE d # a
      BY <1>1, <1>4, <2>2, <3>2 DEF Placed
    <3> QED
      BY <3>1, <3>2
  <2> QED
    BY <2>1, <2>2
<1> QED
  BY <1>1, <1>3, <1>4

\* Thread a gives its batch to notifier_.
LEMMA BatchGiven ==
  ASSUME BatcherTypeOK, Placed, NEW a \in Actors, held' = [held EXCEPT ![a] = <<>>],
         emitted' = emitted \cup Elems(held[a]), UNCHANGED <<cache_, added>>,
         \A x \in Items : Adding(x)' <=> Adding(x)
  PROVE  /\ held' \in [Actors -> Seq(Items)] /\ emitted' \subseteq Items
         /\ Placed'
<1>1. held' \in [Actors -> Seq(Items)] /\ held'[a] = <<>>
      /\ \A b \in Actors \ {a} : held'[b] = held[b]
  BY DEF BatcherTypeOK
<1>2. Elems(<<>>) = {} /\ Elems(held[a]) \subseteq Items
  BY ElemsTyped DEF BatcherTypeOK
<1>3. emitted' \subseteq Items
  BY <1>2 DEF BatcherTypeOK
<1>4. \A b \in Actors : Elems(held'[b]) \subseteq Elems(held[b])
  BY <1>1, <1>2
<1>5. \A x \in Items : InBatch(x)' <=> InBatch(x) /\ x \notin Elems(held[a])
  <2> SUFFICES ASSUME NEW x \in Items
               PROVE  InBatch(x)' <=> InBatch(x) /\ x \notin Elems(held[a])
    OBVIOUS
  <2>1. ASSUME NEW b \in Actors, x \in Elems(held'[b])
        PROVE  InBatch(x) /\ x \notin Elems(held[a])
    <3>1. b # a /\ x \in Elems(held[b])
      BY <1>1, <1>2, <2>1
    <3>2. x \notin Elems(held[a])
      BY <3>1 DEF Placed
    <3> QED
      BY <3>1, <3>2 DEF InBatch
  <2>2. ASSUME NEW b \in Actors, x \in Elems(held[b]), x \notin Elems(held[a])
        PROVE  InBatch(x)'
    <3>1. b # a
      BY <2>2
    <3> QED
      BY <1>1, <2>2, <3>1, Zenon DEF InBatch
  <2> QED
    BY <2>1, <2>2 DEF InBatch
<1>6. \A x \in Elems(held[a]) : x \in Items /\ InBatch(x)
  BY <1>2 DEF InBatch
<1>7. \A x \in Items : x \in emitted' <=> x \in emitted \/ x \in Elems(held[a])
  OBVIOUS
<1>8. \A b, d \in Actors : \A x \in Items :
        x \in Elems(held'[b]) /\ x \in Elems(held'[d]) => b = d
  BY <1>4 DEF Placed
<1>9. Placed'
  BY <1>5, <1>6, <1>7, <1>8 DEF Placed
<1> QED
  BY <1>1, <1>3, <1>9

-----------------------------------------------------------------------------
LEMMA InitItems == BatcherInit => ItemsInv
<1> SUFFICES ASSUME BatcherInit PROVE ItemsInv
  OBVIOUS
<1>1. BatcherTypeOK
  <2>1. (CHOOSE x \in Items : TRUE) \in Items
    BY BatcherConstants
  <2>2. cache_ \in Seq(Items) /\ Len(cache_) < BatchSize /\ events_ \in Seq(Events)
    BY BatcherConstants DEF BatcherInit
  <2>3. held \in [Actors -> Seq(Items)]
    BY DEF BatcherInit
  <2> QED
    BY <2>1, <2>2, <2>3, BatcherConstants DEF BatcherInit, BatcherTypeOK
<1>2. OneHolder /\ Delivering /\ FirstItem /\ Covered /\ TimerNotBusy
  BY DEF BatcherInit, OneHolder, Delivering, FirstItem, Covered, TimerNotBusy, Locked, Actors
<1>3. Placed
  <2>1. \A x \in Items : ~Adding(x) /\ ~InBatch(x)
    BY DEF BatcherInit, Adding, InBatch, Elems, Locked
  <2> QED
    BY <2>1 DEF BatcherInit, Placed, Elems, Distinct
<1> QED
  BY <1>1, <1>2, <1>3 DEF ItemsInv

-----------------------------------------------------------------------------
(* Clients *)

LEMMA AddItemStep ==
  ASSUME ItemsInv, NEW c \in Clients, NEW x \in Items, AddItem(c, x)
  PROVE  ItemsInv'
<1> USE DEF ItemsInv
<1>1. /\ cpc[c] = "idle" /\ CacheMutexFree /\ x \notin added
      /\ added' = added \cup {x} /\ citem' = [citem EXCEPT ![c] = x]
      /\ cpc' = [cpc EXCEPT ![c] = IF Timeout # 0 /\ first_item_ THEN "cancel" ELSE "put"]
      /\ UNCHANGED <<cache_, first_item_, timer_id_, timer, handle, held, emitted>>
  BY DEF AddItem
<1>2. /\ cpc'[c] \in {"cancel", "put"} /\ citem'[c] = x
      /\ cpc'[c] = "cancel" <=> Timeout # 0 /\ first_item_
      /\ \A d \in Clients \ {c} : cpc'[d] = cpc[d] /\ cpc[d] \notin Locked
  BY <1>1 DEF BatcherTypeOK, CacheMutexFree
<1>3. BatcherTypeOK'
  BY <1>1, <1>2 DEF BatcherTypeOK, Locked
<1>4. OneHolder'
  BY <1>2 DEF OneHolder
<1>5. Placed'
  <2>1. \A y \in Items : ~Adding(y) /\ (Adding(y)' <=> y = x)
    BY <1>1, <1>2 DEF Adding, CacheMutexFree, Locked
  <2>2. \A y \in Items : InBatch(y)' <=> InBatch(y)
    BY <1>1 DEF InBatch
  <2> QED
    BY <1>1, <2>1, <2>2 DEF Placed
<1>6. Delivering' /\ TimerNotBusy'
  BY <1>1, <1>2 DEF Delivering, TimerNotBusy, Idle
<1>7. FirstItem' /\ Covered'
  BY <1>1, <1>2 DEF FirstItem, Covered, Locked
<1> QED
  BY <1>3, <1>4, <1>5, <1>6, <1>7
\* The four steps of NotifyAfter, under cache_mutex_ and with an empty cache_.
LEMMA NotifyAfterStep ==
  ASSUME ItemsInv, NEW c \in Clients,
         Cancel(c) \/ CancelStore(c) \/ Start(c) \/ StoreHandle(c)
  PROVE  ItemsInv'
<1> USE DEF ItemsInv
<1>1. /\ UNCHANGED <<cache_, first_item_, timer_pc, tev, citem, held, emitted, added>>
      /\ cpc[c] \in {"cancel", "clear", "start", "handle"}
      /\ cpc' = [cpc EXCEPT ![c] = cpc'[c]]
      /\ cpc'[c] \in {"clear", "start", "handle", "put"}
      /\ \A d \in Clients \ {c} : cpc'[d] = cpc[d] /\ cpc[d] \notin Locked
  <2>1. /\ UNCHANGED <<cache_, first_item_, timer_pc, tev, citem, held, emitted, added>>
        /\ cpc[c] \in {"cancel", "clear", "start", "handle"}
        /\ \E v \in {"clear", "start", "handle", "put"} : cpc' = [cpc EXCEPT ![c] = v]
    BY DEF Cancel, CancelStore, Start, StoreHandle
  <2>2. cpc[c] \in Locked
    BY <2>1 DEF Locked
  <2> QED
    BY <2>1, <2>2 DEF BatcherTypeOK, OneHolder
<1>2. /\ events_' \in Seq(Events) /\ timer_id_' \in Events \cup {NoEvent}
      /\ handle' \in Events \cup {NoEvent} /\ created' \in 0 .. MaxEvents
      /\ cpc'[c] \in {"handle", "put"} => events_' # <<>> \/ timer_pc = "notify" \/ Timeout = 0
      /\ cpc'[c] = "start" => timer_id_' = NoEvent
  <2>1. events_ \in Seq(Events) /\ timer_id_ \in Events \cup {NoEvent}
        /\ handle \in Events \cup {NoEvent} /\ created \in 0 .. MaxEvents
        /\ MaxEvents \in Nat
    BY BatcherConstants DEF BatcherTypeOK
  <2>2. CASE Cancel(c)
    <3>1. events_' \in Seq(Events)
      BY <2>1, <2>2, WithoutProperties DEF Cancel
    <3>2. cpc'[c] = "start" => timer_id_ = NoEvent
      BY <1>1, <2>2 DEF Cancel, BatcherTypeOK, Idle
    <3>3. cpc'[c] \in {"start", "clear"} /\ UNCHANGED <<timer_id_, handle, created>>
      BY <2>2 DEF Cancel, BatcherTypeOK
    <3> QED
      BY <2>1, <3>1, <3>2, <3>3
  <2>3. CASE CancelStore(c)
    BY <2>1, <2>3 DEF CancelStore, BatcherTypeOK
  <2>4. CASE Start(c)
    <3>1. /\ created' \in Events /\ events_' = Append(events_, created')
          /\ handle' = created' /\ timer_id_' = timer_id_ /\ cpc'[c] = "handle"
      BY <2>1, <2>4 DEF Start, Events, BatcherTypeOK
    <3>2. events_' \in Seq(Events) /\ events_' # <<>>
      BY <2>1, <3>1
    <3> QED
      BY <2>1, <3>1, <3>2 DEF Events
  <2>5. CASE StoreHandle(c)
    BY <2>1, <2>5 DEF StoreHandle, BatcherTypeOK, Covered
  <2> QED
    BY <2>2, <2>3, <2>4, <2>5
<1>3. BatcherTypeOK'
  <2>1. cpc' \in [Clients -> {"idle", "deliver", "dead"} \cup Locked]
    BY <1>1 DEF BatcherTypeOK, Locked
  <2> QED
    BY <1>1, <1>2, <2>1 DEF BatcherTypeOK
<1>4. OneHolder' /\ \A x \in Items : Adding(x)' <=> Adding(x)
  <2>1. \A d \in Clients : cpc'[d] \in Locked <=> cpc[d] \in Locked
    BY <1>1 DEF Locked
  <2> QED
    BY <1>1, <2>1, AddingFrame
<1>5. Placed'
  BY <1>1, <1>4, PlacedFrame
<1>6. Delivering'
  BY <1>1 DEF Delivering
<1>7. FirstItem' /\ Covered' /\ TimerNotBusy'
  BY <1>1, <1>2 DEF FirstItem, Covered, TimerNotBusy, Idle, Locked
<1> QED
  BY <1>3, <1>4, <1>5, <1>6, <1>7

\* The item goes to cache_, or with it into a full batch.
LEMMA PutStep ==
  ASSUME ItemsInv, NEW c \in Clients, Put(c)
  PROVE  ItemsInv'
<1> USE DEF ItemsInv
<1> DEFINE x == citem[c]
           full == Append(cache_, x)
<1>1. /\ UNCHANGED <<timer_id_, timer, citem, handle, emitted, added>>
      /\ cpc[c] = "put" /\ x \in Items
      /\ \A d \in Clients \ {c} : cpc[d] \notin Locked
      /\ held[c] = <<>> /\ c \in Actors
  BY DEF Put, BatcherTypeOK, OneHolder, Locked, Delivering, Actors
<1>2. /\ \A y \in Items : Adding(y) <=> y = x
      /\ Adding(x)
  BY <1>1 DEF Adding, Locked
<1>3. /\ full \in Seq(Items) /\ Elems(full) = Elems(cache_) \cup {x} /\ Distinct(full)
      /\ full # <<>> /\ Len(full) \in Nat
  <2>1. cache_ \in Seq(Items) /\ x \notin Elems(cache_) /\ Distinct(cache_)
    BY <1>1, <1>2 DEF BatcherTypeOK, Placed
  <2>2. full \in Seq(Items) /\ full # <<>> /\ Len(full) \in Nat
    BY <1>1, <2>1
  <2>3. Elems(full) = Elems(cache_) \cup {x} /\ Distinct(full)
    BY <1>1, <2>1, AppendElems
  <2> QED
    BY <2>2, <2>3
<1>4. \A y \in Elems(full) : y \in Items /\ ~InBatch(y) /\ y \notin emitted /\ y \in added
  <2>1. \A y \in Elems(full) : y \in Items /\ (y = x \/ y \in Elems(cache_))
    BY <1>3, ElemsTyped
  <2> QED
    BY <1>2, <2>1 DEF Placed
<1>5. \A y \in Items : y \in Elems(full) <=> Adding(y) \/ y \in Elems(cache_)
  BY <1>2, <1>3
<1>6. CASE Len(full) > BatchSize - 1
  <2>1. /\ held' = [held EXCEPT ![c] = full] /\ cache_' = <<>> /\ first_item_' = TRUE
        /\ cpc' = [cpc EXCEPT ![c] = "deliver"]
    BY <1>6 DEF Put
  <2>2. cpc'[c] = "deliver" /\ \A d \in Clients \ {c} : cpc'[d] = cpc[d]
    BY <2>1 DEF BatcherTypeOK
  <2>3. /\ held' \in [Actors -> Seq(Items)]
        /\ \A y \in Items : InBatch(y)' <=> InBatch(y) \/ y \in Elems(full)
        /\ \A b, d \in Actors : \A y \in Items :
             y \in Elems(held'[b]) /\ y \in Elems(held'[d]) => b = d
    <3> HIDE DEF full
    <3> QED
      BY <1>1, <1>3, <1>4, <2>1, BatchTaken
  <2>4. cache_' \in Seq(Items) /\ Len(cache_') < BatchSize /\ Elems(cache_') = {}
        /\ Distinct(cache_')
    BY <2>1, BatcherConstants DEF Elems, Distinct
  <2>5. BatcherTypeOK'
    BY <1>1, <2>1, <2>3, <2>4 DEF BatcherTypeOK
  <2>6. \A y \in Items : ~Adding(y)'
    BY <1>1, <2>2 DEF Adding, Locked
  <2>7. Placed'
    <3> HIDE DEF full
    <3> QED
      BY <1>1, <1>4, <1>5, <2>3, <2>4, <2>6 DEF Placed
  <2>8. OneHolder' /\ TimerNotBusy' /\ FirstItem' /\ Covered'
    BY <1>1, <2>1, <2>2 DEF OneHolder, TimerNotBusy, FirstItem, Covered, Locked, Idle
  <2>9. Delivering'
    BY <1>1, <2>1, <2>2, BatcherConstants DEF Delivering, BatcherTypeOK, Actors
  <2> QED
    BY <2>5, <2>7, <2>8, <2>9
<1>7. CASE ~(Len(full) > BatchSize - 1)
  <2>1. /\ cache_' = full /\ first_item_' = (Timeout = 0 /\ first_item_)
        /\ cpc' = [cpc EXCEPT ![c] = "idle"] /\ held' = held
    BY <1>7 DEF Put
  <2>2. cpc'[c] = "idle" /\ \A d \in Clients \ {c} : cpc'[d] = cpc[d]
    BY <2>1 DEF BatcherTypeOK
  <2>3. Len(full) < BatchSize
    BY <1>3, <1>7, BatcherConstants
  <2>4. first_item_' \in BOOLEAN /\ (Timeout # 0 => ~first_item_')
    BY <2>1 DEF BatcherTypeOK
  <2>5. BatcherTypeOK'
    <3> HIDE DEF full
    <3> QED
      BY <1>1, <1>3, <2>1, <2>3, <2>4 DEF BatcherTypeOK
  <2>6. \A y \in Items : ~Adding(y)' /\ (InBatch(y)' <=> InBatch(y))
    BY <1>1, <2>1, <2>2 DEF Adding, InBatch, Locked
  <2>7. Placed'
    <3> HIDE DEF full
    <3> QED
      BY <1>1, <1>3, <1>4, <1>5, <2>1, <2>6 DEF Placed
  <2>8. OneHolder' /\ TimerNotBusy' /\ Delivering'
    BY <1>1, <2>1, <2>2 DEF OneHolder, TimerNotBusy, Locked, Idle, Delivering
  <2>9. FirstItem' /\ Covered'
    <3> HIDE DEF full
    <3> QED
      BY <1>1, <1>3, <2>1, <2>2, <2>4 DEF FirstItem, Covered, Locked
  <2> QED
    BY <2>5, <2>7, <2>8, <2>9
<1> QED
  BY <1>6, <1>7

\* A thread takes what is in cache_.
LEMMA TakeStep ==
  ASSUME ItemsInv, NEW a \in Actors, held[a] = <<>>, TakeBatch(a), CacheMutexFree,
         citem' = citem, \A c \in Clients : cpc'[c] \in Locked <=> cpc[c] \in Locked,
         UNCHANGED <<emitted, added>>
  PROVE  /\ held' \in [Actors -> Seq(Items)] /\ Placed' /\ FirstItem' /\ Covered'
         /\ cache_' = <<>> /\ first_item_' = TRUE
         /\ cache_' \in Seq(Items) /\ Len(cache_') < BatchSize
<1> USE DEF ItemsInv
<1>1. cache_ \in Seq(Items) /\ held' = [held EXCEPT ![a] = cache_]
      /\ cache_' = <<>> /\ first_item_' = TRUE
  BY DEF TakeBatch, BatcherTypeOK
<1>2. \A x \in Elems(cache_) : x \in Items /\ ~InBatch(x) /\ x \notin emitted
  BY <1>1, ElemsTyped DEF Placed
<1>3. /\ held' \in [Actors -> Seq(Items)]
      /\ \A x \in Items : InBatch(x)' <=> InBatch(x) \/ x \in Elems(cache_)
      /\ \A b, d \in Actors : \A x \in Items :
           x \in Elems(held'[b]) /\ x \in Elems(held'[d]) => b = d
  BY <1>1, <1>2, BatchTaken
<1>4. \A x \in Items : ~Adding(x) /\ ~Adding(x)'
  BY DEF Adding, CacheMutexFree
<1>5. Placed'
  BY <1>1, <1>2, <1>3, <1>4 DEF Placed, Elems, Distinct
<1>6. FirstItem' /\ Covered'
  <2>1. \A c \in Clients : cpc'[c] \notin Locked
    BY DEF CacheMutexFree
  <2> QED
    BY <1>1, <2>1 DEF FirstItem, Covered, Locked
<1>7. cache_' \in Seq(Items) /\ Len(cache_') < BatchSize
  BY <1>1, BatcherConstants
<1> QED
  BY <1>1, <1>3, <1>5, <1>6, <1>7

LEMMA EmitStep ==
  ASSUME ItemsInv, NEW c \in Clients, Emit(c)
  PROVE  ItemsInv'
<1> USE DEF ItemsInv
<1>1. /\ cpc[c] = "idle" /\ CacheMutexFree /\ TakeBatch(c)
      /\ cpc' = [cpc EXCEPT ![c] = "deliver"] /\ cpc'[c] = "deliver"
      /\ \A d \in Clients \ {c} : cpc'[d] = cpc[d]
      /\ UNCHANGED <<timer_id_, timer, citem, handle, emitted, added>>
  BY DEF Emit, BatcherTypeOK
<1>2. c \in Actors /\ held[c] = <<>> /\ c # "timer"
  BY <1>1, BatcherConstants DEF Actors, Delivering
<1>3. \A d \in Clients : cpc'[d] \in Locked <=> cpc[d] \in Locked
  BY <1>1 DEF Locked
<1>4. /\ held' \in [Actors -> Seq(Items)] /\ Placed' /\ FirstItem' /\ Covered'
      /\ cache_' = <<>> /\ first_item_' = TRUE
      /\ cache_' \in Seq(Items) /\ Len(cache_') < BatchSize
  BY <1>1, <1>2, <1>3, TakeStep
<1>5. BatcherTypeOK'
  BY <1>1, <1>4 DEF BatcherTypeOK
<1>6. OneHolder'
  BY <1>1, <1>3, AddingFrame
<1>7. TimerNotBusy'
  BY <1>1 DEF TimerNotBusy, Idle
<1>8. Delivering'
  BY <1>1, <1>2 DEF Delivering, TakeBatch, BatcherTypeOK, Actors
<1> QED
  BY <1>4, <1>5, <1>6, <1>7, <1>8

LEMMA DeliverStep ==
  ASSUME ItemsInv, NEW c \in Clients, Deliver(c)
  PROVE  ItemsInv'
<1> USE DEF ItemsInv
<1>1. /\ cpc[c] = "deliver" /\ cpc' = [cpc EXCEPT ![c] = "idle"] /\ cpc'[c] = "idle"
      /\ emitted' = emitted \cup Elems(held[c]) /\ held' = [held EXCEPT ![c] = <<>>]
      /\ \A d \in Clients \ {c} : cpc'[d] = cpc[d]
      /\ UNCHANGED <<cache_, first_item_, timer_id_, timer, citem, handle, added>>
      /\ c \in Actors
  BY DEF Deliver, BatcherTypeOK, Actors
<1>2. \A d \in Clients : cpc'[d] \in Locked <=> cpc[d] \in Locked
  BY <1>1 DEF Locked
<1>3. OneHolder' /\ \A x \in Items : Adding(x)' <=> Adding(x)
  BY <1>1, <1>2, AddingFrame
<1>4. held' \in [Actors -> Seq(Items)] /\ emitted' \subseteq Items /\ Placed'
  BY <1>1, <1>3, BatchGiven
<1>5. BatcherTypeOK'
  BY <1>1, <1>4 DEF BatcherTypeOK
<1>6. TimerNotBusy' /\ FirstItem' /\ Covered'
  BY <1>1 DEF TimerNotBusy, Idle, FirstItem, Covered
<1>7. Delivering'
  BY <1>1, BatcherConstants DEF Delivering, BatcherTypeOK, Actors
<1> QED
  BY <1>3, <1>4, <1>5, <1>6, <1>7

LEMMA DestroyStep ==
  ASSUME ItemsInv, NEW c \in Clients, Destroy(c)
  PROVE  ItemsInv'
<1> USE DEF ItemsInv
<1>1. /\ \A d \in Clients : cpc[d] = "idle" /\ cpc'[d] = "dead"
      /\ cpc' = [d \in Clients |-> "dead"]
      /\ cache_ = <<>> /\ timer_id_' = NoEvent
      /\ events_' = Without(events_, {timer_id_})
      /\ UNCHANGED <<cache_, first_item_, created, timer_pc, tev, citem, handle, held,
                     emitted, added>>
  BY DEF Destroy
<1>2. \A d \in Clients : cpc'[d] \in Locked <=> cpc[d] \in Locked
  BY <1>1 DEF Locked
<1>3. OneHolder' /\ \A x \in Items : Adding(x)' <=> Adding(x)
  BY <1>1, <1>2, AddingFrame
<1>4. Placed'
  BY <1>1, <1>3, PlacedFrame
<1>5. events_' \in Seq(Events)
  BY <1>1, WithoutProperties DEF BatcherTypeOK
<1>6. BatcherTypeOK'
  BY <1>1, <1>5 DEF BatcherTypeOK
<1>7. TimerNotBusy' /\ FirstItem' /\ Covered' /\ Delivering'
  BY <1>1 DEF TimerNotBusy, Idle, FirstItem, Covered, Delivering
<1> QED
  BY <1>3, <1>4, <1>6, <1>7

-----------------------------------------------------------------------------
(* The thread of TimeCounter *)

LEMMA FireSteps ==
  ASSUME ItemsInv, Fire \/ FireStore
  PROVE  ItemsInv'
<1> USE DEF ItemsInv
<1>1. /\ UNCHANGED <<cache_, first_item_, created, cpc, citem, handle, held, emitted, added>>
      /\ timer_pc # "deliver" /\ timer_pc' # "deliver"
  BY DEF Fire, FireStore
<1>2. Placed' /\ OneHolder'
  BY <1>1, AddingFrame, PlacedFrame
<1>3. Delivering' /\ FirstItem'
  BY <1>1 DEF Delivering, FirstItem
<1>4. CASE Fire
  <2>1. Head(events_) \in Events /\ Tail(events_) \in Seq(Events)
    BY <1>4, TailElements DEF Fire, BatcherTypeOK
  <2>2. BatcherTypeOK'
    BY <1>1, <1>4, <2>1 DEF Fire, BatcherTypeOK
  <2>3. Covered' /\ TimerNotBusy'
    BY <1>1, <1>4 DEF Fire, Covered, TimerNotBusy, Idle
  <2> QED
    BY <1>2, <1>3, <2>2, <2>3
<1>5. CASE FireStore
  <2>1. BatcherTypeOK'
    BY <1>1, <1>5 DEF FireStore, BatcherTypeOK
  <2>2. Covered' /\ TimerNotBusy'
    BY <1>1, <1>5 DEF FireStore, Covered, TimerNotBusy, Idle
  <2> QED
    BY <1>2, <1>3, <2>1, <2>2
<1> QED
  BY <1>4, <1>5

LEMMA FireEmitStep ==
  ASSUME ItemsInv, FireEmit
  PROVE  ItemsInv'
<1> USE DEF ItemsInv
<1>1. /\ timer_pc = "notify" /\ CacheMutexFree
      /\ UNCHANGED <<timer_id_, events_, created, tev, cpc, citem, handle, emitted, added>>
      /\ "timer" \in Actors /\ held["timer"] = <<>>
  BY DEF FireEmit, Actors, Delivering
<1>2. OneHolder' /\ \A x \in Items : Adding(x)' <=> Adding(x)
  BY <1>1, AddingFrame
<1>3. TimerNotBusy'
  BY <1>1 DEF TimerNotBusy, Idle
<1>4. CASE cache_ = <<>> /\ timer_pc' = "store" /\ UNCHANGED <<cache_, first_item_, held>>
  <2>1. Placed' /\ BatcherTypeOK'
    BY <1>1, <1>2, <1>4, PlacedFrame DEF BatcherTypeOK
  <2>2. Delivering' /\ FirstItem' /\ Covered'
    BY <1>1, <1>4 DEF Delivering, FirstItem, Covered, CacheMutexFree, Locked
  <2> QED
    BY <1>2, <1>3, <2>1, <2>2
<1>5. CASE TakeBatch("timer") /\ timer_pc' = "deliver"
  <2>1. /\ held' \in [Actors -> Seq(Items)] /\ Placed' /\ FirstItem' /\ Covered'
        /\ cache_' = <<>> /\ first_item_' = TRUE
        /\ cache_' \in Seq(Items) /\ Len(cache_') < BatchSize
    BY <1>1, <1>5, TakeStep
  <2>2. BatcherTypeOK'
    BY <1>1, <1>5, <2>1 DEF BatcherTypeOK
  <2>3. Delivering'
    BY <1>1, <1>5, BatcherConstants DEF Delivering, TakeBatch, BatcherTypeOK, Actors
  <2> QED
    BY <1>2, <1>3, <2>1, <2>2, <2>3
<1> QED
  BY <1>4, <1>5 DEF FireEmit

LEMMA FireDeliverStep ==
  ASSUME ItemsInv, FireDeliver
  PROVE  ItemsInv'
<1> USE DEF ItemsInv
<1>1. /\ timer_pc = "deliver" /\ timer_pc' = "store" /\ "timer" \in Actors
      /\ emitted' = emitted \cup Elems(held["timer"])
      /\ held' = [held EXCEPT !["timer"] = <<>>]
      /\ UNCHANGED <<cache_, first_item_, timer_id_, events_, created, tev, cpc,
                     citem, handle, added>>
  BY DEF FireDeliver, Actors
<1>2. OneHolder' /\ \A x \in Items : Adding(x)' <=> Adding(x)
  BY <1>1, AddingFrame
<1>3. held' \in [Actors -> Seq(Items)] /\ emitted' \subseteq Items /\ Placed'
  BY <1>1, <1>2, BatchGiven
<1>4. BatcherTypeOK'
  BY <1>1, <1>3 DEF BatcherTypeOK
<1>5. TimerNotBusy' /\ FirstItem' /\ Covered'
  BY <1>1 DEF TimerNotBusy, Idle, FirstItem, Covered
<1>6. Delivering'
  BY <1>1, BatcherConstants DEF Delivering, BatcherTypeOK, Actors
<1> QED
  BY <1>2, <1>3, <1>4, <1>5, <1>6

-----------------------------------------------------------------------------
LEMMA ItemsStep == ItemsInv /\ [BatcherNext]_batcherVars => ItemsInv'
<1> SUFFICES ASSUME ItemsInv, [BatcherNext]_batcherVars PROVE ItemsInv'
  OBVIOUS
<1>1. CASE UNCHANGED batcherVars
  <2> USE <1>1 DEF batcherVars, ItemsInv
  <2>1. BatcherTypeOK' /\ Delivering' /\ FirstItem' /\ Covered' /\ TimerNotBusy'
    BY DEF BatcherTypeOK, Delivering, FirstItem, Covered, TimerNotBusy, Idle
  <2>2. OneHolder' /\ Placed'
    BY AddingFrame, PlacedFrame
  <2> QED
    BY <2>1, <2>2
<1>2. CASE BatcherNext
  BY <1>2, AddItemStep, NotifyAfterStep, PutStep, EmitStep, DeliverStep, DestroyStep,
     FireSteps, FireEmitStep, FireDeliverStep
     DEF BatcherNext, ClientStep, TimerStep
<1> QED
  BY <1>1, <1>2

LEMMA ItemsInvariant == BatcherSpec => []ItemsInv
  BY InitItems, ItemsStep, PTL DEF BatcherSpec

\* Exactly one place has an item, counted as ItemInOnePlace counts.
LEMMA PlacesCounted == ItemsInv => ItemInOnePlace
<1> SUFFICES ASSUME ItemsInv, NEW x \in added
             PROVE  LET adding  == {c \in Clients : cpc[c] \in Locked /\ citem[c] = x}
                        cached  == {i \in DOMAIN cache_ : cache_[i] = x}
                        holders == {a \in Actors : x \in Elems(held[a])}
                        out     == IF x \in emitted THEN 1 ELSE 0
                    IN Cardinality(adding) + Cardinality(cached) + Cardinality(holders)
                       + out = 1
  BY DEF ItemInOnePlace
<1> DEFINE adding  == {c \in Clients : cpc[c] \in Locked /\ citem[c] = x}
           cached  == {i \in DOMAIN cache_ : cache_[i] = x}
           holders == {a \in Actors : x \in Elems(held[a])}
<1> USE DEF ItemsInv
<1>1. x \in Items
  BY DEF BatcherTypeOK
<1>2. Adding(x) <=> adding # {}
  BY DEF Adding
<1>3. x \in Elems(cache_) <=> cached # {}
  BY DEF Elems
<1>4. InBatch(x) <=> holders # {}
  BY DEF InBatch
<1>5. \A S : (S # {} /\ \A a, b \in S : a = b) => Cardinality(S) = 1
  <2> SUFFICES ASSUME NEW S, NEW a \in S, \A b \in S : a = b PROVE Cardinality(S) = 1
    OBVIOUS
  <2>1. S = {a}
    OBVIOUS
  <2> QED
    BY <2>1, FS_Singleton
<1>6. adding # {} => Cardinality(adding) = 1
  <2>1. \A a, b \in adding : a = b
    BY DEF OneHolder
  <2> HIDE DEF adding
  <2> QED
    BY <1>5, <2>1
<1>7. cached # {} => Cardinality(cached) = 1
  <2>1. \A a, b \in cached : a = b
    BY DEF Placed, Distinct
  <2> HIDE DEF cached
  <2> QED
    BY <1>5, <2>1
<1>8. holders # {} => Cardinality(holders) = 1
  <2>1. \A a, b \in holders : a = b
    BY <1>1 DEF Placed
  <2> HIDE DEF holders
  <2> QED
    BY <1>5, <2>1
<1>9. Cardinality({}) = 0
  BY FS_EmptySet
<1>10. \/ adding # {} /\ cached = {} /\ holders = {} /\ x \notin emitted
       \/ adding = {} /\ cached # {} /\ holders = {} /\ x \notin emitted
       \/ adding = {} /\ cached = {} /\ holders # {} /\ x \notin emitted
       \/ adding = {} /\ cached = {} /\ holders = {} /\ x \in emitted
  <2> HIDE DEF adding, cached, holders
  <2> QED
    BY <1>1, <1>2, <1>3, <1>4 DEF Placed
<1> HIDE DEF adding, cached, holders
<1>11. Cardinality(adding) + Cardinality(cached) + Cardinality(holders)
       + (IF x \in emitted THEN 1 ELSE 0) = 1
  BY <1>6, <1>7, <1>8, <1>9, <1>10
<1> QED
  BY <1>11 DEF adding, cached, holders

\* For any clients, items, batch size and timeout: an item is in one place until
\* it was handed on, none waits in cache_ without an event that will emit it, and
\* NotifyAfter never finds the timer busy.
THEOREM ItemsAreSafe == BatcherSpec => []ItemsSafe
<1>1. ItemsInv => NoStrandedItem
  BY DEF ItemsInv, Covered, NoStrandedItem
<1>2. ItemsInv => ItemsSafe
  BY <1>1, PlacesCounted DEF ItemsInv, ItemsSafe
<1> QED
  BY <1>2, ItemsInvariant, PTL

-----------------------------------------------------------------------------
(* Cache: where the items are *)

\* The items in six places.
Partition(U, B, H, P, Q, A) ==
  /\ U \cup B \cup H \cup P \cup Q \cup A = CacheItems
  /\ U \cap B = {} /\ U \cap H = {} /\ U \cap P = {} /\ U \cap Q = {} /\ U \cap A = {}
  /\ B \cap H = {} /\ B \cap P = {} /\ B \cap Q = {} /\ B \cap A = {}
  /\ H \cap P = {} /\ H \cap Q = {} /\ H \cap A = {}
  /\ P \cap Q = {} /\ P \cap A = {} /\ Q \cap A = {}

LEMMA KeptForm ==
  ASSUME NEW u, NEW b, NEW h, NEW p, NEW q, NEW a
  PROVE  Kept(u, b, h, p, q, a) <=>
           /\ Scattered(u) /\ Distinct(b) /\ Scattered(h) /\ Scattered(p) /\ Scattered(q) /\ Distinct(a)
           /\ Partition(Contents(u), Elems(b), Contents(h), Contents(p), Contents(q), Elems(a))
<1>1. PICK U, B, H, P, Q, A : /\ U = Contents(u) /\ B = Elems(b) /\ H = Contents(h) /\ P = Contents(p)
                              /\ Q = Contents(q) /\ A = Elems(a)
  OBVIOUS
<1>2. PICK places : places = <<U, B, H, P, Q, A>>
  OBVIOUS
<1>3. /\ places[1] = U /\ places[2] = B /\ places[3] = H /\ places[4] = P /\ places[5] = Q /\ places[6] = A
  BY <1>2
<1>4. 1 .. 6 = {1, 2, 3, 4, 5, 6}
  OBVIOUS
<1>5. UNION {places[k] : k \in 1 .. 6} = U \cup B \cup H \cup P \cup Q \cup A
  BY <1>3, <1>4, Zenon
<1>6. (\A k, l \in 1 .. 6 : k # l => places[k] \cap places[l] = {}) <=>
        /\ U \cap B = {} /\ U \cap H = {} /\ U \cap P = {} /\ U \cap Q = {} /\ U \cap A = {}
        /\ B \cap H = {} /\ B \cap P = {} /\ B \cap Q = {} /\ B \cap A = {}
        /\ H \cap P = {} /\ H \cap Q = {} /\ H \cap A = {}
        /\ P \cap Q = {} /\ P \cap A = {} /\ Q \cap A = {}
  <2>1. ASSUME \A k, l \in 1 .. 6 : k # l => places[k] \cap places[l] = {}
        PROVE  /\ U \cap B = {} /\ U \cap H = {} /\ U \cap P = {} /\ U \cap Q = {} /\ U \cap A = {}
               /\ B \cap H = {} /\ B \cap P = {} /\ B \cap Q = {} /\ B \cap A = {}
               /\ H \cap P = {} /\ H \cap Q = {} /\ H \cap A = {}
               /\ P \cap Q = {} /\ P \cap A = {} /\ Q \cap A = {}
    <3>1. U \cap B = {} /\ U \cap H = {} /\ U \cap P = {} /\ U \cap Q = {} /\ U \cap A = {}
      BY <1>3, <2>1
    <3>2. B \cap H = {} /\ B \cap P = {} /\ B \cap Q = {} /\ B \cap A = {}
      BY <1>3, <2>1
    <3>3. H \cap P = {} /\ H \cap Q = {} /\ H \cap A = {}
      BY <1>3, <2>1
    <3>4. P \cap Q = {} /\ P \cap A = {} /\ Q \cap A = {}
      BY <1>3, <2>1
    <3> QED
      BY <3>1, <3>2, <3>3, <3>4
  <2>2. ASSUME U \cap B = {} /\ U \cap H = {} /\ U \cap P = {} /\ U \cap Q = {} /\ U \cap A = {},
               B \cap H = {} /\ B \cap P = {} /\ B \cap Q = {} /\ B \cap A = {},
               H \cap P = {} /\ H \cap Q = {} /\ H \cap A = {},
               P \cap Q = {} /\ P \cap A = {} /\ Q \cap A = {}
        PROVE  \A k, l \in 1 .. 6 : k # l => places[k] \cap places[l] = {}
    BY <1>3, <1>4, <2>2
  <2> QED
    BY <2>1, <2>2
<1>7. Kept(u, b, h, p, q, a) <=>
        /\ Scattered(u) /\ Distinct(b) /\ Scattered(h) /\ Scattered(p) /\ Scattered(q) /\ Distinct(a)
        /\ UNION {places[k] : k \in 1 .. 6} = CacheItems
        /\ \A k, l \in 1 .. 6 : k # l => places[k] \cap places[l] = {}
  BY <1>1, <1>2, Zenon DEF Kept
<1> QED
  BY <1>1, <1>5, <1>6, <1>7 DEF Partition

LEMMA NothingLeft ==
  /\ Elems(<<>>) = {} /\ Contents(<<>>) = {} /\ Distinct(<<>>) /\ Scattered(<<>>) /\ Unmixed(<<>>)
  /\ \A S : <<>> \in Seq(S)
  BY DEF Elems, Contents, Distinct, Scattered, Unmixed

LEMMA ItemFields == \A x \in CacheItems : x[1] \in Reqs /\ x[2] \in Nat
<1> SUFFICES ASSUME NEW x \in CacheItems PROVE x[1] \in Reqs /\ x[2] \in Nat
  OBVIOUS
<1>1. PICK r \in Reqs : x \in {r} \X (1 .. ReqSize[r])
  BY DEF CacheItems
<1>2. ReqSize[r] \in Nat
  BY CacheConstants
<1>3. PICK i \in 1 .. ReqSize[r] : x = <<r, i>>
  BY <1>1
<1> QED
  BY <1>2, <1>3

\* Items of one request in their order.
Single(e) ==
  /\ \A n \in DOMAIN e : e[n][1] = e[1][1]
  /\ \A m, n \in DOMAIN e : m < n => e[m][2] < e[n][2]

LEMMA UnmixedAppend ==
  ASSUME NEW p \in Seq(Seq(CacheItems)), NEW e \in Seq(CacheItems), Unmixed(p), Single(e), Precede(Contents(p), Elems(e))
  PROVE  Unmixed(Append(p, e))
<1> DEFINE q == Append(p, e)
<1>1. /\ DOMAIN q = DOMAIN p \cup {Len(p) + 1} /\ q[Len(p) + 1] = e /\ \A k \in DOMAIN p : q[k] = p[k]
      /\ Len(p) \in Nat /\ \A k \in DOMAIN p : k \in Nat /\ k < Len(p) + 1
  OBVIOUS
<1> HIDE DEF q
<1>2. ASSUME NEW k \in DOMAIN q, NEW n \in DOMAIN q[k] PROVE q[k][n][1] = q[k][1][1]
  BY <1>1, <1>2 DEF Unmixed, Single
<1>3. ASSUME NEW k \in DOMAIN q, NEW l \in DOMAIN q, NEW m \in DOMAIN q[k], NEW n \in DOMAIN q[l],
             k < l \/ (k = l /\ m < n), q[k][m][1] = q[l][n][1]
      PROVE  q[k][m][2] < q[l][n][2]
  <2>1. CASE k \in DOMAIN p /\ l \in DOMAIN p
    BY <1>1, <1>3, <2>1 DEF Unmixed
  <2>2. CASE k = Len(p) + 1 /\ l = Len(p) + 1
    <3>1. m < n /\ m \in DOMAIN e /\ n \in DOMAIN e
      BY <1>1, <1>3, <2>2
    <3> QED
      BY <1>1, <2>2, <3>1 DEF Single
  <2>3. CASE k \in DOMAIN p /\ l = Len(p) + 1
    <3>1. q[k][m] \in Elems(p[k]) /\ q[l][n] \in Elems(e)
      BY <1>1, <2>3 DEF Elems
    <3>2. Elems(p[k]) \subseteq Contents(p)
      BY <2>3 DEF Contents
    <3> QED
      BY <1>3, <3>1, <3>2 DEF Precede
  <2>4. CASE k = Len(p) + 1 /\ l \in DOMAIN p
    BY <1>1, <1>3, <2>4
  <2> QED
    BY <1>1, <2>1, <2>2, <2>3, <2>4
<1> QED
  BY <1>2, <1>3 DEF q, Unmixed

LEMMA UnmixedTail ==
  ASSUME NEW p \in Seq(Seq(CacheItems)), p # <<>>, Unmixed(p)
  PROVE  Unmixed(Tail(p)) /\ Single(Head(p)) /\ Precede(Elems(Head(p)), Contents(Tail(p)))
<1>0. PICK q : q = Tail(p)
  OBVIOUS
<1>1. /\ Head(p) = p[1] /\ 1 \in DOMAIN p
      /\ \A k \in DOMAIN q : k \in Nat /\ k >= 1 /\ k + 1 \in DOMAIN p /\ q[k] = p[k + 1]
  BY <1>0, TailList
<1>2. Unmixed(q)
  <2>1. ASSUME NEW k \in DOMAIN q, NEW n \in DOMAIN q[k] PROVE q[k][n][1] = q[k][1][1]
    BY <1>1 DEF Unmixed
  <2>2. ASSUME NEW k \in DOMAIN q, NEW l \in DOMAIN q, NEW m \in DOMAIN q[k], NEW n \in DOMAIN q[l],
               k < l \/ (k = l /\ m < n), q[k][m][1] = q[l][n][1]
        PROVE  q[k][m][2] < q[l][n][2]
    <3>1. k + 1 < l + 1 \/ (k + 1 = l + 1 /\ m < n)
      BY <1>1, <2>2
    <3> QED
      BY <1>1, <2>2, <3>1 DEF Unmixed
  <2> QED
    BY <2>1, <2>2 DEF Unmixed
<1>3. Single(p[1])
  <2>1. ASSUME NEW m \in DOMAIN p[1], NEW n \in DOMAIN p[1], m < n PROVE p[1][m][2] < p[1][n][2]
    <3>1. p[1][m][1] = p[1][n][1]
      BY <1>1 DEF Unmixed
    <3> QED
      BY <1>1, <2>1, <3>1 DEF Unmixed
  <2> QED
    BY <1>1, <2>1 DEF Single, Unmixed
<1>4. ASSUME NEW x \in Elems(p[1]), NEW y \in Contents(q), x[1] = y[1] PROVE x[2] < y[2]
  <2>1. PICK m \in DOMAIN p[1] : x = p[1][m]
    BY DEF Elems
  <2>2. PICK k \in DOMAIN q : y \in Elems(q[k])
    BY DEF Contents
  <2>3. PICK n \in DOMAIN q[k] : y = q[k][n]
    BY <2>2 DEF Elems
  <2>4. k + 1 \in DOMAIN p /\ q[k] = p[k + 1] /\ 1 < k + 1
    BY <1>1
  <2> QED
    BY <1>1, <1>4, <2>1, <2>3, <2>4 DEF Unmixed
<1> QED
  BY <1>0, <1>1, <1>2, <1>3, <1>4 DEF Precede

LEMMA UnmixedErased ==
  ASSUME NEW p \in Seq(Seq(CacheItems)), NEW gone, Unmixed(p)
  PROVE  Unmixed(Without(p, gone))
<1>1. PICK w \in Seq(Seq(CacheItems)) : w = Without(p, gone)
  BY WithoutProperties
<1>a. PICK h \in [DOMAIN Without(p, gone) -> DOMAIN p] :
        /\ \A i \in DOMAIN Without(p, gone) : Without(p, gone)[i] = p[h[i]]
        /\ \A i, j \in DOMAIN Without(p, gone) : i < j => h[i] < h[j]
  BY WithoutOrder
<1>2. /\ h \in [DOMAIN w -> DOMAIN p]
      /\ \A i \in DOMAIN w : w[i] = p[h[i]]
      /\ \A i, j \in DOMAIN w : i < j => h[i] < h[j]
  BY <1>1, <1>a
<1>3. ASSUME NEW k \in DOMAIN w, NEW n \in DOMAIN w[k] PROVE w[k][n][1] = w[k][1][1]
  <2>1. h[k] \in DOMAIN p /\ w[k] = p[h[k]]
    BY <1>2
  <2> QED
    BY <2>1 DEF Unmixed
<1>4. ASSUME NEW k \in DOMAIN w, NEW l \in DOMAIN w, NEW m \in DOMAIN w[k], NEW n \in DOMAIN w[l],
             k < l \/ (k = l /\ m < n), w[k][m][1] = w[l][n][1]
      PROVE  w[k][m][2] < w[l][n][2]
  <2>1. h[k] \in DOMAIN p /\ w[k] = p[h[k]] /\ h[l] \in DOMAIN p /\ w[l] = p[h[l]]
    BY <1>2
  <2>2. h[k] < h[l] \/ (h[k] = h[l] /\ m < n)
    BY <1>2, <1>4
  <2> QED
    BY <1>4, <2>1, <2>2 DEF Unmixed
<1> QED
  BY <1>1, <1>3, <1>4 DEF Unmixed

-----------------------------------------------------------------------------
(* Cache: clearing *)

\* What clearing leaves and answers, by what is discarded.
Cleared(c) ==
  /\ c.left \in Seq(Seq(CacheItems)) /\ c.gone \in Seq(CacheItems) /\ Scattered(c.left) /\ Distinct(c.gone)
  /\ Contents(c.left) \cup Elems(c.gone) = Contents(packages) /\ Contents(c.left) \cap Elems(c.gone) = {}
  /\ \A q \in Elems(c.left) : Len(q) \in 1 .. CacheBatch
  /\ \A x \in Elems(c.gone) : IsDiscarded(x)
  /\ strategy = "STATIC" => Unmixed(c.left)

LEMMA DynamicCleared ==
  ASSUME CacheInv, strategy = "DYNAMIC"
  PROVE  Cleared(ClearDynamic) /\ \A x \in Contents(ClearDynamic.left) : ~IsDiscarded(x)
<1> DEFINE all == Flat(packages)
           dead == {x \in CacheItems : IsDiscarded(x)}
<1>1. packages \in Seq(Seq(CacheItems)) /\ Scattered(packages)
  BY KeptForm DEF CacheInv, CacheTyped, ItemsKept
<1>2. all \in Seq(CacheItems) /\ Elems(all) = Contents(packages) /\ Distinct(all)
  BY <1>1, FlatProperties
<1>3. Elems(all) \subseteq CacheItems
  BY <1>2 DEF Elems
<1>4. PICK s \in Seq(CacheItems) : s = Without(all, dead) /\ Elems(s) = Elems(all) \ dead /\ Distinct(s)
  BY <1>2, WithoutProperties
<1>5. PICK g \in Seq(CacheItems) : g = Without(all, CacheItems \ dead) /\ Elems(g) = Elems(all) \ (CacheItems \ dead) /\ Distinct(g)
  BY <1>2, WithoutProperties
<1>6. PICK p \in Seq(Seq(CacheItems)) : /\ p = Rebatched(s) /\ Contents(p) = Elems(s) /\ Scattered(p)
                                        /\ \A q \in Elems(p) : Len(q) \in 1 .. CacheBatch
  <2>1. PICK B \in Nat : B = CacheBatch /\ B > 0
    BY CacheConstants
  <2>2. Rebatched(s) = Parts(s, B)
    BY <2>1 DEF Rebatched
  <2> QED
    BY <1>4, <2>1, <2>2, PartsFacts
<1>7. PICK c : c = ClearDynamic
  OBVIOUS
<1>8. c.left = p /\ c.gone = g
  BY <1>4, <1>5, <1>6, <1>7 DEF ClearDynamic
<1> HIDE DEF all
<1>a. PICK C, D : C = Elems(all) /\ D = dead
  OBVIOUS
<1>9. Contents(p) \cup Elems(g) = Contents(packages) /\ Contents(p) \cap Elems(g) = {}
  <2>1. C = Contents(packages) /\ C \subseteq CacheItems
    BY <1>2, <1>3, <1>a
  <2>2. Contents(p) = C \ D /\ Elems(g) = C \ (CacheItems \ D)
    BY <1>4, <1>5, <1>6, <1>a
  <2> QED
    BY <2>1, <2>2
<1>10. (\A x \in Elems(g) : IsDiscarded(x)) /\ \A x \in Contents(p) : ~IsDiscarded(x)
  BY <1>2, <1>3, <1>4, <1>5, <1>6
<1> QED
  BY <1>5, <1>6, <1>7, <1>8, <1>9, <1>10 DEF Cleared

LEMMA StaticCleared ==
  ASSUME CacheInv, strategy = "STATIC"
  PROVE  Cleared(ClearStatic) /\ \A x \in Contents(ClearStatic.left) : ~IsDiscarded(x)
<1> DEFINE dead == {q \in Elems(packages) : IsDiscarded(q[1])}
<1>1. packages \in Seq(Seq(CacheItems)) /\ Scattered(packages) /\ Unmixed(packages)
  BY KeptForm DEF CacheInv, CacheTyped, ItemsKept, StaticInOrder
<1>2. PICK w \in Seq(Seq(CacheItems)), v \in Seq(Seq(CacheItems)) :
        /\ w = Without(packages, dead) /\ v = Without(packages, Elems(packages) \ dead)
        /\ Elems(w) = Elems(packages) \ dead /\ Elems(v) = Elems(packages) \cap dead
        /\ Contents(packages) = Contents(w) \cup Contents(v)
        /\ Scattered(w) /\ Scattered(v) /\ Contents(w) \cap Contents(v) = {}
  <2>1. PICK w, v : w = Without(packages, dead) /\ v = Without(packages, Elems(packages) \ dead)
    OBVIOUS
  <2> HIDE DEF dead
  <2>2. PICK kept : kept = Elems(packages) \ dead
    OBVIOUS
  <2>3. /\ w \in Seq(Seq(CacheItems)) /\ v \in Seq(Seq(CacheItems)) /\ Scattered(w) /\ Scattered(v)
        /\ Elems(w) = Elems(packages) \ dead /\ Elems(v) = Elems(packages) \ kept
    BY <1>1, <2>1, <2>2, ErasedList
  <2>4. Elems(v) = Elems(packages) \cap dead
    BY <2>2, <2>3
  <2>5. Contents(packages) = Contents(w) \cup Contents(v)
    <3>1. Elems(packages) = Elems(w) \cup Elems(v)
      BY <2>3, <2>4
    <3>2. \A x : x \in Contents(packages) <=> x \in Contents(w) \/ x \in Contents(v)
      BY <3>1, ContentsOf
    <3> QED
      BY <3>2
  <2>6. ASSUME NEW x \in Contents(w), x \in Contents(v) PROVE FALSE
    <3>1. PICK q \in Elems(w), r \in Elems(v) : x \in Elems(q) /\ x \in Elems(r)
      BY <2>6, ContentsOf
    <3>2. q \in Elems(packages) \ dead /\ r \in Elems(packages) \cap dead
      BY <2>3, <2>4
    <3> QED
      BY <1>1, <3>1, <3>2, ListOfElement
  <2> QED
    BY <2>1, <2>3, <2>4, <2>5, <2>6
<1>3. PICK g \in Seq(CacheItems) : g = Flat(v) /\ Elems(g) = Contents(v) /\ Distinct(g)
  BY <1>2, FlatProperties
<1>4. PICK c : c = ClearStatic
  OBVIOUS
<1>5. c.left = w /\ c.gone = g
  BY <1>2, <1>3, <1>4 DEF ClearStatic
<1>6. ASSUME NEW q \in Elems(packages), NEW x \in Elems(q) PROVE IsDiscarded(x) <=> IsDiscarded(q[1])
  <2>1. PICK k \in DOMAIN packages : q = packages[k]
    BY DEF Elems
  <2>2. PICK n \in DOMAIN q : x = q[n]
    BY DEF Elems
  <2>3. x[1] = q[1][1]
    BY <1>1, <2>1, <2>2 DEF Unmixed
  <2> QED
    BY <2>3 DEF IsDiscarded
<1>7. ASSUME NEW x \in Contents(w) PROVE ~IsDiscarded(x)
  <2>1. PICK q \in Elems(w) : x \in Elems(q)
    BY ContentsOf
  <2> QED
    BY <1>2, <1>6, <2>1
<1>8. ASSUME NEW x \in Elems(g) PROVE IsDiscarded(x)
  <2>1. PICK q \in Elems(v) : x \in Elems(q)
    BY <1>3, ContentsOf
  <2> QED
    BY <1>2, <1>6, <2>1
<1>9. \A q \in Elems(w) : Len(q) \in 1 .. CacheBatch
  BY <1>2 DEF CacheInv, PackagesFit
<1>10. Unmixed(w)
  BY <1>1, <1>2, UnmixedErased
<1> QED
  BY <1>2, <1>3, <1>4, <1>5, <1>7, <1>8, <1>9, <1>10 DEF Cleared

\* The package that is popped next, and that it is live.
LEMMA FrontCleared ==
  ASSUME CacheInv, packages # <<>>
  PROVE  LET c == IF FrontDiscarded THEN ClearDiscard ELSE [left |-> packages, gone |-> <<>>] IN
         /\ Cleared(c)
         /\ c.left # <<>> => \A n \in DOMAIN Head(c.left) : ~IsDiscarded(Head(c.left)[n])
<1>0. strategy \in {"DYNAMIC", "STATIC"}
  BY DEF CacheInv, CacheTyped
<1>1. CASE FrontDiscarded
  <2>1. PICK c : c = ClearDiscard /\ Cleared(c) /\ \A x \in Contents(c.left) : ~IsDiscarded(x)
    <3>1. CASE strategy = "DYNAMIC"
      BY <3>1, DynamicCleared DEF ClearDiscard
    <3>2. CASE strategy # "DYNAMIC"
      BY <1>0, <3>2, StaticCleared DEF ClearDiscard
    <3> QED
      BY <3>1, <3>2
  <2>2. ASSUME c.left # <<>>, NEW n \in DOMAIN Head(c.left) PROVE ~IsDiscarded(Head(c.left)[n])
    <3>1. PICK p \in Seq(Seq(CacheItems)) : p = c.left
      BY <2>1 DEF Cleared
    <3>2. Head(p)[n] \in Elems(Head(p))
      BY <2>2, <3>1 DEF Elems
    <3>3. Elems(Head(p)) \subseteq Contents(p)
      BY <2>2, <3>1, TailList
    <3> QED
      BY <2>1, <3>1, <3>2, <3>3
  <2> QED
    BY <1>1, <2>1, <2>2
<1>2. CASE ~FrontDiscarded
  <2>0. PICK e : e = <<>>
    OBVIOUS
  <2>1. PICK c : c = [left |-> packages, gone |-> e] /\ c.left = packages /\ c.gone = e
    <3>1. PICK c : c = [left |-> packages, gone |-> e]
      OBVIOUS
    <3> QED
      BY <3>1
  <2>2. Cleared(c)
    <3>1. packages \in Seq(Seq(CacheItems)) /\ Scattered(packages)
      BY KeptForm DEF CacheInv, CacheTyped, ItemsKept
    <3>2. \A q \in Elems(packages) : Len(q) \in 1 .. CacheBatch
      BY DEF CacheInv, PackagesFit
    <3>3. strategy = "STATIC" => Unmixed(packages)
      BY DEF CacheInv, StaticInOrder
    <3> QED
      BY <2>0, <2>1, <3>1, <3>2, <3>3, NothingLeft DEF Cleared
  <2>3. \A n \in DOMAIN Head(packages) : ~IsDiscarded(Head(packages)[n])
    BY <1>2 DEF FrontDiscarded
  <2> QED
    BY <1>2, <2>0, <2>1, <2>2, <2>3
<1> QED
  BY <1>1, <1>2

-----------------------------------------------------------------------------
(* Cache: the steps *)

LEMMA CacheStart == CacheInit => CacheInv
<1> SUFFICES ASSUME CacheInit PROVE CacheInv
  OBVIOUS
<1>1. /\ strategy \in {"DYNAMIC", "STATIC"} /\ unsent = [r \in Reqs |-> ItemsOf(r)]
      /\ batcher_ = <<>> /\ inhand = [t \in Reqs \cup {"emit"} |-> <<>>]
      /\ packages = <<>> /\ popped = <<>> /\ answered = <<>> /\ discarded = {}
  BY DEF CacheInit
<1>2. ASSUME NEW r \in Reqs
      PROVE  /\ unsent[r] \in Seq(CacheItems) /\ DOMAIN unsent[r] = 1 .. ReqSize[r]
             /\ \A i \in 1 .. ReqSize[r] : unsent[r][i] = <<r, i>> /\ unsent[r][i][1] = r /\ unsent[r][i][2] = i
  <2>1. PICK n \in Nat : n = ReqSize[r]
    BY CacheConstants
  <2>2. unsent[r] = [i \in 1 .. n |-> <<r, i>>]
    BY <1>1, <2>1 DEF ItemsOf
  <2>3. \A i \in 1 .. n : <<r, i>> \in CacheItems
    BY <2>1 DEF CacheItems
  <2>4. unsent[r] \in [1 .. n -> CacheItems]
    BY <2>2, <2>3
  <2>5. unsent[r] \in Seq(CacheItems)
    BY <2>4
  <2> QED
    BY <2>1, <2>2, <2>5
<1>3. inhand \in [Reqs \cup {"emit"} -> Seq(CacheItems)] /\ \A t \in Reqs \cup {"emit"} : inhand[t] = <<>>
  BY <1>1, NothingLeft
<1>4. unsent \in [Reqs -> Seq(CacheItems)]
  <2>1. unsent = [r \in Reqs |-> unsent[r]]
    BY <1>1
  <2> QED
    BY <1>2, <2>1
<1>5. CacheTyped
  BY <1>1, <1>3, <1>4, NothingLeft DEF CacheTyped
<1>6. ItemsKept
  <2>1. Scattered(unsent)
    <3> SUFFICES ASSUME NEW k \in Reqs, NEW l \in Reqs, NEW m \in DOMAIN unsent[k], NEW n \in DOMAIN unsent[l],
                        unsent[k][m] = unsent[l][n]
                 PROVE  k = l /\ m = n
      BY <1>4 DEF Scattered
    <3>1. m \in 1 .. ReqSize[k] /\ n \in 1 .. ReqSize[l]
      BY <1>2
    <3>2. unsent[k][m][1] = k /\ unsent[k][m][2] = m
      BY <1>2, <3>1
    <3>3. unsent[l][n][1] = l /\ unsent[l][n][2] = n
      BY <1>2, <3>1
    <3> QED
      BY <3>2, <3>3
  <2>2. Contents(unsent) = CacheItems
    <3>1. ASSUME NEW r \in Reqs PROVE Elems(unsent[r]) = {r} \X (1 .. ReqSize[r])
      <4>1. PICK s, I : s = unsent[r] /\ I = 1 .. ReqSize[r]
        OBVIOUS
      <4>2. DOMAIN s = I /\ \A i \in I : s[i] = <<r, i>>
        BY <1>2, <4>1
      <4>3. Elems(s) = {<<r, i>> : i \in I}
        BY <4>2 DEF Elems
      <4>4. {<<r, i>> : i \in I} = {r} \X I
        OBVIOUS
      <4> QED
        BY <4>1, <4>3, <4>4
    <3>2. DOMAIN unsent = Reqs
      BY <1>4
    <3> QED
      BY <3>1, <3>2, Zenon DEF Contents, CacheItems
  <2>3. Scattered(inhand) /\ Contents(inhand) = {}
    <3>1. DOMAIN inhand = Reqs \cup {"emit"} /\ \A t \in DOMAIN inhand : DOMAIN inhand[t] = {} /\ Elems(inhand[t]) = {}
      BY <1>3, NothingLeft
    <3> QED
      BY <3>1 DEF Scattered, Contents
  <2>4. Partition(Contents(unsent), Elems(batcher_), Contents(inhand), Contents(packages), Contents(popped), Elems(answered))
    BY <1>1, <2>2, <2>3, NothingLeft DEF Partition
  <2> QED
    BY <1>1, <2>1, <2>3, <2>4, NothingLeft, KeptForm DEF ItemsKept
<1>7. PackagesFit /\ OnlyDiscardedAnswered
  BY <1>1, NothingLeft DEF PackagesFit, OnlyDiscardedAnswered
<1>8. BatchesFit
  BY <1>1, <1>3, CacheConstants DEF BatchesFit
<1>9. StaticInOrder
  <2>1. \A r \in Reqs : /\ \A n \in DOMAIN unsent[r] : unsent[r][n][1] = r
                        /\ \A m, n \in DOMAIN unsent[r] : m < n => unsent[r][m][2] < unsent[r][n][2]
    BY <1>2
  <2>2. Contents(packages) = {} /\ Contents(popped) = {} /\ Unmixed(packages) /\ Unmixed(popped)
    BY <1>1, NothingLeft
  <2>3. \A Q : Precede({}, Q)
    BY DEF Precede
  <2> QED
    BY <1>1, <1>3, <2>1, <2>2, <2>3 DEF StaticInOrder
<1> QED
  BY <1>5, <1>6, <1>7, <1>8, <1>9 DEF CacheInv

LEMMA CacheFields ==
  ASSUME CacheInv
  PROVE  /\ strategy \in {"DYNAMIC", "STATIC"}
         /\ unsent \in [Reqs -> Seq(CacheItems)] /\ batcher_ \in Seq(CacheItems)
         /\ inhand \in [Reqs \cup {"emit"} -> Seq(CacheItems)]
         /\ packages \in Seq(Seq(CacheItems)) /\ popped \in Seq(Seq(CacheItems)) /\ answered \in Seq(CacheItems)
         /\ discarded \subseteq Reqs
         /\ Scattered(unsent) /\ Distinct(batcher_) /\ Scattered(inhand) /\ Scattered(packages) /\ Scattered(popped)
         /\ Distinct(answered)
         /\ Partition(Contents(unsent), Elems(batcher_), Contents(inhand), Contents(packages), Contents(popped), Elems(answered))
         /\ \A q \in Elems(packages) : Len(q) \in 1 .. CacheBatch
         /\ \A q \in Elems(popped) : Len(q) \in 1 .. CacheBatch
         /\ Len(batcher_) < CacheBatch /\ \A t \in Reqs \cup {"emit"} : Len(inhand[t]) <= CacheBatch
         /\ CacheBatch \in Nat /\ CacheBatch > 0
  BY KeptForm, CacheConstants DEF CacheInv, CacheTyped, ItemsKept, PackagesFit, BatchesFit

\* A thread's batch in hand is replaced.
HandReplaced(h, t, e) == Replaced(CacheItems, Reqs \cup {"emit"}, h, inhand, t, e)

LEMMA NewHand ==
  ASSUME NEW h, NEW t, NEW e, HandReplaced(h, t, e)
  PROVE  /\ h \in [Reqs \cup {"emit"} -> Seq(CacheItems)] /\ Scattered(h)
         /\ Contents(h) = (Contents(inhand) \ Elems(inhand[t])) \cup Elems(e)
<1>1. PICK D : D = Reqs \cup {"emit"}
  OBVIOUS
<1>2. Replaced(CacheItems, D, h, inhand, t, e)
  BY <1>1 DEF HandReplaced
<1>3. h \in [D -> Seq(CacheItems)] /\ Scattered(h) /\ Contents(h) = (Contents(inhand) \ Elems(inhand[t])) \cup Elems(e)
  BY <1>2, ReplaceList
<1> QED
  BY <1>1, <1>3

LEMMA CacheAddStep ==
  ASSUME CacheInv, NEW r \in Reqs, AddToBatch(r)
  PROVE  CacheInv'
<1>1. PICK s \in Seq(CacheItems) : s = unsent[r] /\ s # <<>>
  BY CacheFields DEF AddToBatch
<1>2. PICK x \in CacheItems, tl \in Seq(CacheItems) :
        /\ x = Head(s) /\ tl = Tail(s) /\ x \in Elems(s) /\ Elems(s) = Elems(tl) \cup {x}
        /\ Distinct(s) => Distinct(tl) /\ x \notin Elems(tl)
  BY <1>1, TailElements
<1>3. PICK b \in Seq(CacheItems) :
        /\ b = Append(batcher_, x) /\ Elems(b) = Elems(batcher_) \cup {x} /\ Len(b) = Len(batcher_) + 1
        /\ Distinct(batcher_) /\ x \notin Elems(batcher_) => Distinct(b)
  <2>1. batcher_ \in Seq(CacheItems)
    BY CacheFields
  <2>2. Len(Append(batcher_, x)) = Len(batcher_) + 1
    BY <2>1
  <2> QED
    BY <2>1, <2>2, AppendElems
<1>4. /\ strategy = "DYNAMIC" /\ inhand[r] = <<>> /\ unsent' = [unsent EXCEPT ![r] = tl]
      /\ batcher_' = IF Len(b) < CacheBatch THEN b ELSE <<>>
      /\ inhand' = [inhand EXCEPT ![r] = IF Len(b) < CacheBatch THEN inhand[r] ELSE b]
      /\ UNCHANGED <<strategy, packages, popped, answered, discarded>>
  BY <1>1, <1>2, <1>3 DEF AddToBatch
<1>5. /\ unsent' \in [Reqs -> Seq(CacheItems)] /\ Scattered(unsent') /\ Contents(unsent') = Contents(unsent) \ {x}
      /\ x \in Contents(unsent) /\ x \notin Elems(batcher_)
  <2>1. Elems(s) \subseteq Contents(unsent) /\ Distinct(s)
    BY <1>1, CacheFields, OneOfLists
  <2>2. Elems(tl) \cap Contents(unsent) \subseteq Elems(unsent[r])
    BY <1>1, <1>2
  <2>a. unsent \in [Reqs -> Seq(CacheItems)] /\ Scattered(unsent) /\ Distinct(tl)
    BY <1>2, <2>1, CacheFields
  <2>3. Replaced(CacheItems, Reqs, unsent', unsent, r, tl)
    BY <1>2, <1>4, <2>2, <2>a DEF Replaced
  <2>b. /\ unsent' \in [Reqs -> Seq(CacheItems)] /\ Scattered(unsent')
        /\ Contents(unsent') = (Contents(unsent) \ Elems(unsent[r])) \cup Elems(tl)
    BY <2>3, ReplaceList
  <2>4. (Contents(unsent) \ Elems(unsent[r])) \cup Elems(tl) = Contents(unsent) \ {x}
    BY <1>1, <1>2, <2>1
  <2>5. x \notin Elems(batcher_)
    BY <1>2, <2>1, CacheFields DEF Partition
  <2> QED
    BY <1>2, <2>1, <2>4, <2>5, <2>b
<1>6. Distinct(b) /\ x \notin Contents(inhand)
  BY <1>3, <1>5, CacheFields DEF Partition
<1>7. CASE Len(b) < CacheBatch
  <2>1. batcher_' = b /\ inhand' = inhand
    BY <1>4, <1>7, CacheFields
  <2>2. CacheTyped'
    BY <1>4, <1>5, <2>1, CacheFields DEF CacheTyped
  <2>3. ItemsKept'
    <3>1. Partition(Contents(unsent'), Elems(b), Contents(inhand), Contents(packages), Contents(popped), Elems(answered))
      BY <1>3, <1>5, CacheFields DEF Partition
    <3> QED
      BY <1>4, <1>5, <1>6, <2>1, <3>1, CacheFields, KeptForm DEF ItemsKept
  <2>4. PackagesFit' /\ OnlyDiscardedAnswered'
    BY <1>4 DEF CacheInv, PackagesFit, OnlyDiscardedAnswered, IsDiscarded
  <2>5. BatchesFit'
    BY <1>7, <2>1, CacheFields DEF BatchesFit
  <2>6. StaticInOrder'
    BY <1>4 DEF StaticInOrder
  <2> QED
    BY <2>2, <2>3, <2>4, <2>5, <2>6 DEF CacheInv
<1>8. CASE ~(Len(b) < CacheBatch)
  <2>1. batcher_' = <<>> /\ inhand' = [inhand EXCEPT ![r] = b]
    BY <1>4, <1>8
  <2>2. /\ inhand' \in [Reqs \cup {"emit"} -> Seq(CacheItems)] /\ Scattered(inhand')
        /\ Contents(inhand') = Contents(inhand) \cup Elems(b)
    <3>1. Elems(b) \cap Contents(inhand) \subseteq Elems(inhand[r]) /\ Elems(inhand[r]) = {}
      BY <1>3, <1>4, <1>6, CacheFields, NothingLeft DEF Partition
    <3>2. HandReplaced(inhand', r, b)
      BY <1>6, <2>1, <3>1, CacheFields DEF HandReplaced, Replaced
    <3>3. /\ inhand' \in [Reqs \cup {"emit"} -> Seq(CacheItems)] /\ Scattered(inhand')
          /\ Contents(inhand') = (Contents(inhand) \ Elems(inhand[r])) \cup Elems(b)
      BY <3>2, NewHand
    <3> QED
      BY <3>1, <3>3
  <2>3. CacheTyped'
    BY <1>4, <1>5, <2>1, <2>2, CacheFields, NothingLeft DEF CacheTyped
  <2>4. ItemsKept'
    <3>1. Partition(Contents(unsent'), {}, Contents(inhand'), Contents(packages), Contents(popped), Elems(answered))
      BY <1>3, <1>5, <2>2, CacheFields DEF Partition
    <3> QED
      BY <1>4, <1>5, <2>1, <2>2, <3>1, CacheFields, NothingLeft, KeptForm DEF ItemsKept
  <2>5. PackagesFit' /\ OnlyDiscardedAnswered'
    BY <1>4 DEF CacheInv, PackagesFit, OnlyDiscardedAnswered, IsDiscarded
  <2>6. BatchesFit'
    <3>1. Len(b) <= CacheBatch
      BY <1>3, CacheFields
    <3>2. \A t \in Reqs \cup {"emit"} : Len(inhand'[t]) <= CacheBatch
      BY <2>1, <3>1, CacheFields
    <3> QED
      BY <2>1, <3>2, CacheFields DEF BatchesFit
  <2>7. StaticInOrder'
    BY <1>4 DEF StaticInOrder
  <2> QED
    BY <2>3, <2>4, <2>5, <2>6, <2>7 DEF CacheInv
<1> QED
  BY <1>7, <1>8

LEMMA CacheEmitStep ==
  ASSUME CacheInv, EmitBatch
  PROVE  CacheInv'
<1>1. /\ batcher_ # <<>> /\ inhand["emit"] = <<>> /\ inhand' = [inhand EXCEPT !["emit"] = batcher_] /\ batcher_' = <<>>
      /\ UNCHANGED <<strategy, unsent, packages, popped, answered, discarded>>
  BY DEF EmitBatch
<1>2. strategy # "STATIC"
  BY <1>1 DEF CacheInv, StaticInOrder
<1>3. /\ inhand' \in [Reqs \cup {"emit"} -> Seq(CacheItems)] /\ Scattered(inhand')
      /\ Contents(inhand') = Contents(inhand) \cup Elems(batcher_)
  <2>1. "emit" \in Reqs \cup {"emit"} /\ Elems(inhand["emit"]) = {}
    BY <1>1, NothingLeft
  <2>2. Elems(batcher_) \cap Contents(inhand) \subseteq Elems(inhand["emit"])
    BY CacheFields DEF Partition
  <2>3. HandReplaced(inhand', "emit", batcher_)
    BY <1>1, <2>1, <2>2, CacheFields DEF HandReplaced, Replaced
  <2>4. /\ inhand' \in [Reqs \cup {"emit"} -> Seq(CacheItems)] /\ Scattered(inhand')
        /\ Contents(inhand') = (Contents(inhand) \ Elems(inhand["emit"])) \cup Elems(batcher_)
    BY <2>3, NewHand
  <2> QED
    BY <2>1, <2>4
<1>4. CacheTyped'
  BY <1>1, <1>3, CacheFields, NothingLeft DEF CacheTyped
<1>5. ItemsKept'
  <2>1. Partition(Contents(unsent), {}, Contents(inhand'), Contents(packages), Contents(popped), Elems(answered))
    BY <1>3, CacheFields DEF Partition
  <2> QED
    BY <1>1, <1>3, <2>1, CacheFields, NothingLeft, KeptForm DEF ItemsKept
<1>6. PackagesFit' /\ OnlyDiscardedAnswered'
  BY <1>1 DEF CacheInv, PackagesFit, OnlyDiscardedAnswered, IsDiscarded
<1>7. BatchesFit'
  <2>1. Len(batcher_) <= CacheBatch /\ Len(batcher_') < CacheBatch
    BY <1>1, CacheFields
  <2>2. \A t \in Reqs \cup {"emit"} : Len(inhand'[t]) <= CacheBatch
    BY <1>1, <2>1, CacheFields
  <2> QED
    BY <2>1, <2>2 DEF BatchesFit
<1>8. StaticInOrder'
  BY <1>1, <1>2 DEF StaticInOrder
<1> QED
  BY <1>4, <1>5, <1>6, <1>7, <1>8 DEF CacheInv

LEMMA CacheDeliverStep ==
  ASSUME CacheInv, NEW t \in Reqs \cup {"emit"}, DeliverBatch(t)
  PROVE  CacheInv'
<1>1. PICK b \in Seq(CacheItems) :
        /\ b = inhand[t] /\ b # <<>> /\ packages' = Append(packages, b) /\ inhand' = [inhand EXCEPT ![t] = <<>>]
        /\ UNCHANGED <<strategy, unsent, batcher_, popped, answered, discarded>>
  BY CacheFields DEF DeliverBatch
<1>2. strategy # "STATIC"
  BY <1>1 DEF CacheInv, StaticInOrder
<1>3. Elems(b) \subseteq Contents(inhand) /\ Distinct(b)
  BY <1>1, CacheFields, OneOfLists
<1>4. /\ inhand' \in [Reqs \cup {"emit"} -> Seq(CacheItems)] /\ Scattered(inhand')
      /\ Contents(inhand') = Contents(inhand) \ Elems(b)
  <2>1. PICK e \in Seq(CacheItems) : e = <<>> /\ Distinct(e) /\ Elems(e) = {}
    BY NothingLeft
  <2>2. Elems(e) \cap Contents(inhand) \subseteq Elems(inhand[t])
    BY <2>1
  <2>3. HandReplaced(inhand', t, e)
    BY <1>1, <2>1, <2>2, CacheFields DEF HandReplaced, Replaced
  <2>4. /\ inhand' \in [Reqs \cup {"emit"} -> Seq(CacheItems)] /\ Scattered(inhand')
        /\ Contents(inhand') = (Contents(inhand) \ Elems(inhand[t])) \cup Elems(e)
    BY <2>3, NewHand
  <2> QED
    BY <1>1, <2>1, <2>4
<1>5. /\ packages' \in Seq(Seq(CacheItems)) /\ Scattered(packages') /\ Contents(packages') = Contents(packages) \cup Elems(b)
      /\ Elems(packages') = Elems(packages) \cup {b}
  <2>1. Elems(b) \cap Contents(packages) = {}
    BY <1>3, CacheFields DEF Partition
  <2> QED
    BY <1>1, <1>3, <2>1, CacheFields, AppendList
<1>6. CacheTyped'
  BY <1>1, <1>4, <1>5, CacheFields DEF CacheTyped
<1>7. ItemsKept'
  <2>1. Partition(Contents(unsent), Elems(batcher_), Contents(inhand'), Contents(packages'), Contents(popped), Elems(answered))
    BY <1>3, <1>4, <1>5, CacheFields DEF Partition
  <2> QED
    BY <1>1, <1>4, <1>5, <2>1, CacheFields, KeptForm DEF ItemsKept
<1>8. PackagesFit' /\ OnlyDiscardedAnswered'
  <2>1. Len(b) \in 1 .. CacheBatch
    BY <1>1, CacheFields
  <2>2. OnlyDiscardedAnswered'
    BY <1>1 DEF CacheInv, OnlyDiscardedAnswered, IsDiscarded
  <2>3. \A q \in Elems(packages') \cup Elems(popped') : Len(q) \in 1 .. CacheBatch
    BY <1>1, <1>5, <2>1, CacheFields
  <2> QED
    BY <2>2, <2>3 DEF PackagesFit
<1>9. BatchesFit'
  <2>1. Len(<<>>) <= CacheBatch
    BY CacheFields
  <2> QED
    BY <1>1, <2>1, CacheFields DEF BatchesFit
<1>10. StaticInOrder'
  BY <1>1, <1>2 DEF StaticInOrder
<1> QED
  BY <1>6, <1>7, <1>8, <1>9, <1>10 DEF CacheInv

-----------------------------------------------------------------------------
(* Cache: cutting a request *)

LEMMA PrecedeParts ==
  ASSUME NEW P, NEW Q, NEW R, NEW U, Precede(P, Q), R \subseteq P, U \subseteq Q
  PROVE  Precede(R, U)
  BY DEF Precede

\* The parts that a request is cut into.
Cut(s, n, a, b) ==
  /\ a \in Seq(CacheItems) /\ b \in Seq(CacheItems) /\ Len(a) = n /\ Elems(s) = Elems(a) \cup Elems(b)
  /\ \A i \in DOMAIN a : i \in DOMAIN s /\ a[i] = s[i] /\ i <= n
  /\ \A i \in DOMAIN b : i \in Nat /\ i >= 1 /\ n + i \in DOMAIN s /\ b[i] = s[n + i]
  /\ Distinct(s) => Distinct(a) /\ Distinct(b) /\ Elems(a) \cap Elems(b) = {}

LEMMA CutFacts ==
  ASSUME NEW s \in Seq(CacheItems), NEW n \in Nat, n <= Len(s)
  PROVE  Cut(s, n, SubSeq(s, 1, n), SubSeq(s, n + 1, Len(s)))
  BY CutList DEF Cut

LEMMA StaticLengthFits ==
  ASSUME NEW k \in Nat, k > 0
  PROVE  StaticLength(k) \in Nat /\ StaticLength(k) \in 1 .. CacheBatch /\ StaticLength(k) <= k
  BY CacheConstants DEF StaticLength, Least

\* What the step of PushStatic does to the lists.
Pushed(r, a, b) ==
  /\ strategy = "STATIC" /\ r \in Reqs /\ Len(a) \in 1 .. CacheBatch
  /\ \E n \in Nat : Cut(unsent[r], n, a, b)
  /\ packages' = Append(packages, a) /\ unsent' = [unsent EXCEPT ![r] = b]
  /\ UNCHANGED <<strategy, batcher_, inhand, popped, answered, discarded>>

LEMMA CachePushFacts ==
  ASSUME CacheInv, NEW r \in Reqs, PushStatic(r)
  PROVE  \E a, b : Pushed(r, a, b)
<1>1. PICK s \in Seq(CacheItems) : s = unsent[r] /\ s # <<>>
  BY CacheFields DEF PushStatic
<1>2. Len(s) \in Nat /\ Len(s) > 0
  BY <1>1
<1>3. PICK n \in Nat : n = StaticLength(Len(s)) /\ n \in 1 .. CacheBatch /\ n <= Len(s)
  BY <1>2, StaticLengthFits
<1>4. PICK a, b : a = SubSeq(s, 1, n) /\ b = SubSeq(s, n + 1, Len(s))
  OBVIOUS
<1>5. Cut(s, n, a, b) /\ Len(a) = n
  BY <1>3, <1>4, CutFacts DEF Cut
<1>6. /\ strategy = "STATIC" /\ packages' = Append(packages, a) /\ unsent' = [unsent EXCEPT ![r] = b]
      /\ UNCHANGED <<strategy, batcher_, inhand, popped, answered, discarded>>
  BY <1>1, <1>3, <1>4 DEF PushStatic
<1>7. \E k \in Nat : Cut(unsent[r], k, a, b)
  BY <1>1, <1>5
<1>8. Pushed(r, a, b)
  BY <1>3, <1>5, <1>6, <1>7 DEF Pushed
<1> QED
  BY <1>8

LEMMA CachePushStep ==
  ASSUME CacheInv, NEW r \in Reqs, PushStatic(r)
  PROVE  CacheInv'
<1>1. PICK a, b : Pushed(r, a, b)
  BY CachePushFacts
<1>2. /\ strategy = "STATIC" /\ Len(a) \in 1 .. CacheBatch /\ packages' = Append(packages, a)
      /\ unsent' = [unsent EXCEPT ![r] = b] /\ UNCHANGED <<strategy, batcher_, inhand, popped, answered, discarded>>
  BY <1>1 DEF Pushed
<1>3. PICK n \in Nat : Cut(unsent[r], n, a, b)
  BY <1>1 DEF Pushed
<1>4. PICK s \in Seq(CacheItems) : s = unsent[r] /\ Elems(s) \subseteq Contents(unsent) /\ Distinct(s)
  <2>1. r \in DOMAIN unsent /\ unsent[r] \in Seq(CacheItems) /\ Scattered(unsent)
    BY CacheFields
  <2>2. Elems(unsent[r]) \subseteq Contents(unsent) /\ Distinct(unsent[r])
    BY <2>1, OneOfLists
  <2> QED
    BY <2>1, <2>2
<1>5. Cut(s, n, a, b)
  BY <1>3, <1>4
<1>6. /\ a \in Seq(CacheItems) /\ b \in Seq(CacheItems) /\ Elems(s) = Elems(a) \cup Elems(b)
      /\ Distinct(a) /\ Distinct(b) /\ Elems(a) \cap Elems(b) = {}
  BY <1>4, <1>5 DEF Cut
<1>7. /\ unsent' \in [Reqs -> Seq(CacheItems)] /\ Scattered(unsent') /\ Contents(unsent') = Contents(unsent) \ Elems(a)
      /\ Elems(a) \subseteq Contents(unsent)
  <2>1. Replaced(CacheItems, Reqs, unsent', unsent, r, b)
    <3>1. Elems(b) \cap Contents(unsent) \subseteq Elems(unsent[r])
      BY <1>4, <1>6
    <3>2. unsent \in [Reqs -> Seq(CacheItems)] /\ Scattered(unsent)
      BY CacheFields
    <3> QED
      BY <1>2, <1>6, <3>1, <3>2 DEF Replaced
  <2>2. /\ unsent' \in [Reqs -> Seq(CacheItems)] /\ Scattered(unsent')
        /\ Contents(unsent') = (Contents(unsent) \ Elems(unsent[r])) \cup Elems(b)
    BY <2>1, ReplaceList
  <2> QED
    BY <1>4, <1>6, <2>2
<1>8. /\ packages' \in Seq(Seq(CacheItems)) /\ Scattered(packages') /\ Contents(packages') = Contents(packages) \cup Elems(a)
      /\ Elems(packages') = Elems(packages) \cup {a}
  <2>1. Elems(a) \cap Contents(packages) = {}
    BY <1>7, CacheFields DEF Partition
  <2> QED
    BY <1>2, <1>6, <2>1, CacheFields, AppendList
<1>9. CacheTyped'
  BY <1>2, <1>7, <1>8, CacheFields DEF CacheTyped
<1>10. ItemsKept'
  <2>1. Partition(Contents(unsent'), Elems(batcher_), Contents(inhand), Contents(packages'), Contents(popped), Elems(answered))
    BY <1>7, <1>8, CacheFields DEF Partition
  <2> QED
    BY <1>2, <1>7, <1>8, <2>1, CacheFields, KeptForm DEF ItemsKept
<1>11. PackagesFit' /\ OnlyDiscardedAnswered'
  <2>1. OnlyDiscardedAnswered'
    BY <1>2 DEF CacheInv, OnlyDiscardedAnswered, IsDiscarded
  <2>2. \A q \in Elems(packages') \cup Elems(popped') : Len(q) \in 1 .. CacheBatch
    BY <1>2, <1>8, CacheFields
  <2> QED
    BY <2>1, <2>2 DEF PackagesFit
<1>12. BatchesFit'
  BY <1>2, CacheFields DEF BatchesFit
<1>13. StaticInOrder'
  <2>1. /\ batcher_ = <<>> /\ \A t \in Reqs \cup {"emit"} : inhand[t] = <<>>
        /\ Unmixed(packages) /\ Unmixed(popped)
        /\ \A q \in Reqs : /\ \A i \in DOMAIN unsent[q] : unsent[q][i][1] = q
                           /\ \A i, j \in DOMAIN unsent[q] : i < j => unsent[q][i][2] < unsent[q][j][2]
        /\ Precede(Contents(popped), Contents(packages)) /\ Precede(Contents(popped), Contents(unsent))
        /\ Precede(Contents(packages), Contents(unsent))
    BY <1>2 DEF CacheInv, StaticInOrder
  <2>2. (\A i \in DOMAIN s : s[i][1] = r) /\ \A i, j \in DOMAIN s : i < j => s[i][2] < s[j][2]
    BY <1>4, <2>1
  <2>3. /\ \A i \in DOMAIN a : i \in DOMAIN s /\ a[i] = s[i] /\ i <= n
        /\ \A i \in DOMAIN b : i \in Nat /\ i >= 1 /\ n + i \in DOMAIN s /\ b[i] = s[n + i]
    BY <1>5 DEF Cut
  <2>4. Single(a)
    <3>1. 1 \in DOMAIN a
      BY <1>2, <1>6
    <3> QED
      BY <2>2, <2>3, <3>1 DEF Single
  <2>5. Unmixed(packages')
    <3>1. Precede(Contents(packages), Elems(a))
      BY <1>7, <2>1, PrecedeParts
    <3>2. packages \in Seq(Seq(CacheItems))
      BY CacheFields
    <3> QED
      BY <1>2, <1>6, <2>1, <2>4, <3>1, <3>2, UnmixedAppend
  <2>6. (\A i \in DOMAIN b : b[i][1] = r) /\ \A i, j \in DOMAIN b : i < j => b[i][2] < b[j][2]
    BY <2>2, <2>3
  <2>7. unsent'[r] = b /\ \A q \in Reqs : q # r => unsent'[q] = unsent[q]
    BY <1>2, CacheFields
  <2>8. \A q \in Reqs : /\ \A i \in DOMAIN unsent'[q] : unsent'[q][i][1] = q
                        /\ \A i, j \in DOMAIN unsent'[q] : i < j => unsent'[q][i][2] < unsent'[q][j][2]
    <3> SUFFICES ASSUME NEW q \in Reqs
                 PROVE  /\ \A i \in DOMAIN unsent'[q] : unsent'[q][i][1] = q
                        /\ \A i, j \in DOMAIN unsent'[q] : i < j => unsent'[q][i][2] < unsent'[q][j][2]
      OBVIOUS
    <3>1. CASE q = r
      BY <2>6, <2>7, <3>1
    <3>2. CASE q # r
      BY <2>1, <2>7, <3>2
    <3> QED
      BY <3>1, <3>2
  <2>9. Precede(Elems(a), Contents(unsent'))
    <3> SUFFICES ASSUME NEW x \in Elems(a), NEW y \in Contents(unsent'), x[1] = y[1] PROVE x[2] < y[2]
      BY DEF Precede
    <3>1. PICK i \in DOMAIN a : x = a[i]
      BY DEF Elems
    <3>2. PICK q \in Reqs : y \in Elems(unsent'[q])
      BY <1>7 DEF Contents
    <3>3. PICK j \in DOMAIN unsent'[q] : y = unsent'[q][j]
      BY <3>2 DEF Elems
    <3>4. q = r
      BY <2>2, <2>3, <2>8, <3>1, <3>3
    <3>5. j \in DOMAIN b /\ y = b[j]
      BY <2>7, <3>3, <3>4
    <3>6. n + j \in DOMAIN s /\ y = s[n + j] /\ i \in DOMAIN s /\ x = s[i] /\ i < n + j
      <4>1. i \in Int
        BY <1>6
      <4> QED
        BY <2>3, <3>1, <3>5, <4>1
    <3> QED
      BY <2>2, <3>6
  <2>10. Precede(Contents(packages), Contents(unsent')) /\ Precede(Contents(popped), Contents(unsent'))
    BY <1>7, <2>1, PrecedeParts
  <2>11. Precede(Contents(popped), Elems(a))
    BY <1>7, <2>1, PrecedeParts
  <2>12. Precede(Contents(popped), Contents(packages')) /\ Precede(Contents(packages'), Contents(unsent'))
    <3>1. PICK C : C = Contents(packages) \cup Elems(a)
      OBVIOUS
    <3>2. Precede(Contents(popped), C) /\ Precede(C, Contents(unsent'))
      BY <2>1, <2>9, <2>10, <2>11, <3>1 DEF Precede
    <3>3. Contents(packages') = C
      BY <1>8, <3>1
    <3> QED
      BY <3>2, <3>3
  <2> QED
    BY <1>2, <2>1, <2>5, <2>8, <2>10, <2>12 DEF StaticInOrder
<1> QED
  BY <1>9, <1>10, <1>11, <1>12, <1>13 DEF CacheInv

-----------------------------------------------------------------------------
(* Cache: popping, and the theorem *)

\* What the step of PopPackage does to the lists.
Popped(c, t) ==
  /\ Cleared(c) /\ answered' = answered \o c.gone /\ packages' = t
  /\ \/ c.left = <<>> /\ t = <<>> /\ popped' = popped
     \/ c.left # <<>> /\ t = Tail(c.left) /\ popped' = Append(popped, Head(c.left))
  /\ c.left # <<>> => \A n \in DOMAIN Head(c.left) : ~IsDiscarded(Head(c.left)[n])
  /\ UNCHANGED <<strategy, unsent, batcher_, inhand, discarded>>

LEMMA CachePopFacts ==
  ASSUME CacheInv, PopPackage
  PROVE  \E c, t : Popped(c, t)
<1>1. PICK c : c = IF FrontDiscarded THEN ClearDiscard ELSE [left |-> packages, gone |-> <<>>]
  OBVIOUS
<1>2. packages # <<>>
  BY DEF PopPackage
<1>3. Cleared(c) /\ (c.left # <<>> => \A n \in DOMAIN Head(c.left) : ~IsDiscarded(Head(c.left)[n]))
  BY <1>1, <1>2, FrontCleared, Zenon
<1>4. /\ answered' = answered \o c.gone
      /\ packages' = IF c.left = <<>> THEN <<>> ELSE Tail(c.left)
      /\ popped' = IF c.left = <<>> THEN popped ELSE Append(popped, Head(c.left))
      /\ UNCHANGED <<strategy, unsent, batcher_, inhand, discarded>>
  BY <1>1, Zenon DEF PopPackage
<1>5. Popped(c, packages')
  <2>1. CASE c.left = <<>>
    BY <1>3, <1>4, <2>1, Zenon DEF Popped
  <2>2. CASE c.left # <<>>
    BY <1>3, <1>4, <2>2, Zenon DEF Popped
  <2> QED
    BY <2>1, <2>2
<1> QED
  BY <1>5

LEMMA CachePopStep ==
  ASSUME CacheInv, PopPackage
  PROVE  CacheInv'
<1>1. PICK c, t : Popped(c, t)
  BY CachePopFacts
<1>2. PICK L \in Seq(Seq(CacheItems)), g \in Seq(CacheItems) :
        /\ L = c.left /\ g = c.gone /\ Scattered(L) /\ Distinct(g)
        /\ Contents(L) \cup Elems(g) = Contents(packages) /\ Contents(L) \cap Elems(g) = {}
        /\ \A q \in Elems(L) : Len(q) \in 1 .. CacheBatch
        /\ \A x \in Elems(g) : IsDiscarded(x)
        /\ strategy = "STATIC" => Unmixed(L)
  BY <1>1 DEF Popped, Cleared
<1>3. /\ answered' = answered \o g /\ UNCHANGED <<strategy, unsent, batcher_, inhand, discarded>>
      /\ \/ L = <<>> /\ packages' = <<>> /\ popped' = popped
         \/ L # <<>> /\ packages' = Tail(L) /\ popped' = Append(popped, Head(L))
  BY <1>1, <1>2 DEF Popped
<1>4. /\ answered' \in Seq(CacheItems) /\ Elems(answered') = Elems(answered) \cup Elems(g) /\ Distinct(answered')
  <2>1. answered \in Seq(CacheItems) /\ Distinct(answered) /\ Elems(answered) \cap Elems(g) = {}
    BY <1>2, CacheFields DEF Partition
  <2> QED
    BY <1>2, <1>3, <2>1, JoinElems
<1>5. OnlyDiscardedAnswered'
  <2>1. ASSUME NEW x \in Elems(answered) PROVE IsDiscarded(x)
    BY DEF CacheInv, OnlyDiscardedAnswered, Elems
  <2>2. \A x \in Elems(answered') : IsDiscarded(x)
    BY <1>2, <1>4, <2>1
  <2>3. \A x : IsDiscarded(x) => IsDiscarded(x)'
    BY <1>3 DEF IsDiscarded
  <2>4. \A n \in DOMAIN answered' : answered'[n][1] \in discarded'
    BY <1>3, <2>2 DEF IsDiscarded, Elems
  <2> QED
    BY <2>4 DEF OnlyDiscardedAnswered, IsDiscarded
<1>6. BatchesFit'
  BY <1>3, CacheFields DEF BatchesFit
<1>7. CASE L = <<>>
  <2>1. packages' = <<>> /\ popped' = popped
    BY <1>3, <1>7
  <2>2. Contents(L) = {} /\ Contents(packages') = {} /\ Elems(packages') = {} /\ Scattered(packages') /\ Unmixed(packages')
        /\ packages' \in Seq(Seq(CacheItems))
    BY <1>7, <2>1, NothingLeft
  <2>3. CacheTyped'
    BY <1>3, <1>4, <2>1, <2>2, CacheFields DEF CacheTyped
  <2>4. ItemsKept'
    <3>1. Partition(Contents(unsent), Elems(batcher_), Contents(inhand), {}, Contents(popped), Elems(answered'))
      BY <1>2, <1>4, <2>2, CacheFields DEF Partition
    <3> QED
      BY <1>3, <1>4, <2>1, <2>2, <3>1, CacheFields, KeptForm DEF ItemsKept
  <2>5. PackagesFit'
    <3>1. \A q \in Elems(packages') \cup Elems(popped') : Len(q) \in 1 .. CacheBatch
      BY <2>1, <2>2, CacheFields
    <3> QED
      BY <3>1 DEF PackagesFit
  <2>6. StaticInOrder'
    <3>1. \A Q : Precede({}, Q) /\ Precede(Q, {})
      BY DEF Precede
    <3> QED
      BY <1>3, <2>1, <2>2, <3>1 DEF CacheInv, StaticInOrder
  <2> QED
    BY <1>5, <1>6, <2>3, <2>4, <2>5, <2>6 DEF CacheInv
<1>8. CASE L # <<>>
  <2>1. PICK tl \in Seq(Seq(CacheItems)), hd \in Seq(CacheItems) :
          /\ tl = Tail(L) /\ hd = Head(L) /\ Elems(L) = Elems(tl) \cup {hd} /\ Contents(L) = Contents(tl) \cup Elems(hd)
          /\ Scattered(tl) /\ Distinct(hd) /\ Elems(hd) \cap Contents(tl) = {}
    BY <1>2, <1>8, TailList
  <2>2. packages' = tl /\ popped' = Append(popped, hd)
    BY <1>3, <1>8, <2>1
  <2>3. /\ popped' \in Seq(Seq(CacheItems)) /\ Contents(popped') = Contents(popped) \cup Elems(hd)
        /\ Elems(popped') = Elems(popped) \cup {hd} /\ Scattered(popped')
    <3>1. Elems(hd) \cap Contents(popped) = {}
      BY <1>2, <2>1, CacheFields DEF Partition
    <3> QED
      BY <2>1, <2>2, <3>1, CacheFields, AppendList
  <2>4. CacheTyped'
    BY <1>3, <1>4, <2>2, <2>3, CacheFields DEF CacheTyped
  <2>5. ItemsKept'
    <3>1. Partition(Contents(unsent), Elems(batcher_), Contents(inhand), Contents(tl), Contents(popped'), Elems(answered'))
      BY <1>2, <1>4, <2>1, <2>3, CacheFields DEF Partition
    <3> QED
      BY <1>3, <1>4, <2>1, <2>2, <2>3, <3>1, CacheFields, KeptForm DEF ItemsKept
  <2>6. PackagesFit'
    <3>1. \A q \in Elems(packages') \cup Elems(popped') : Len(q) \in 1 .. CacheBatch
      BY <1>2, <2>1, <2>2, <2>3, CacheFields
    <3> QED
      BY <3>1 DEF PackagesFit
  <2>7. StaticInOrder'
    <3> SUFFICES ASSUME strategy = "STATIC" PROVE StaticInOrder'
      BY <1>3 DEF StaticInOrder
    <3>1. /\ batcher_ = <<>> /\ \A u \in Reqs \cup {"emit"} : inhand[u] = <<>>
          /\ Unmixed(popped)
          /\ \A q \in Reqs : /\ \A i \in DOMAIN unsent[q] : unsent[q][i][1] = q
                             /\ \A i, j \in DOMAIN unsent[q] : i < j => unsent[q][i][2] < unsent[q][j][2]
          /\ Precede(Contents(popped), Contents(packages)) /\ Precede(Contents(popped), Contents(unsent))
          /\ Precede(Contents(packages), Contents(unsent))
      BY DEF CacheInv, StaticInOrder
    <3>2. Elems(hd) \subseteq Contents(packages) /\ Contents(tl) \subseteq Contents(packages)
      BY <1>2, <2>1
    <3>3. Unmixed(tl) /\ Single(hd) /\ Precede(Elems(hd), Contents(tl))
      BY <1>2, <1>8, <2>1, UnmixedTail
    <3>4. /\ Precede(Contents(popped), Elems(hd)) /\ Precede(Contents(popped), Contents(tl))
          /\ Precede(Elems(hd), Contents(unsent)) /\ Precede(Contents(tl), Contents(unsent))
      BY <3>1, <3>2, PrecedeParts
    <3>5. Unmixed(popped')
      <4>1. popped \in Seq(Seq(CacheItems))
        BY CacheFields
      <4> QED
        BY <2>1, <2>2, <3>1, <3>3, <3>4, <4>1, UnmixedAppend
    <3>6. Precede(Contents(popped'), Contents(packages')) /\ Precede(Contents(popped'), Contents(unsent'))
      <4>1. PICK C : C = Contents(popped) \cup Elems(hd)
        OBVIOUS
      <4>2. Precede(C, Contents(tl)) /\ Precede(C, Contents(unsent))
        BY <3>1, <3>3, <3>4, <4>1 DEF Precede
      <4>3. Contents(popped') = C
        BY <2>3, <4>1
      <4> QED
        BY <1>3, <2>2, <4>2, <4>3
    <3> QED
      BY <1>3, <2>2, <3>1, <3>3, <3>4, <3>5, <3>6 DEF StaticInOrder
  <2> QED
    BY <1>5, <1>6, <2>4, <2>5, <2>6, <2>7 DEF CacheInv
<1> QED
  BY <1>7, <1>8

LEMMA CacheDiscardStep ==
  ASSUME CacheInv, NEW r \in Reqs, DiscardRequest(r)
  PROVE  CacheInv'
<1>1. /\ discarded' = discarded \cup {r}
      /\ UNCHANGED <<strategy, unsent, batcher_, inhand, packages, popped, answered>>
  BY DEF DiscardRequest
<1>2. CacheTyped' /\ BatchesFit' /\ PackagesFit' /\ StaticInOrder'
  BY <1>1 DEF CacheInv, CacheTyped, BatchesFit, PackagesFit, StaticInOrder
<1>3. ItemsKept'
  BY <1>1 DEF CacheInv, ItemsKept
<1>4. OnlyDiscardedAnswered'
  BY <1>1 DEF CacheInv, OnlyDiscardedAnswered, IsDiscarded
<1> QED
  BY <1>2, <1>3, <1>4 DEF CacheInv

\* Every step keeps the invariant.
LEMMA CacheStep == CacheInv /\ [CacheNext]_cacheVars => CacheInv'
<1> SUFFICES ASSUME CacheInv, [CacheNext]_cacheVars PROVE CacheInv'
  OBVIOUS
<1>1. ASSUME NEW r \in Reqs, AddToBatch(r) PROVE CacheInv'
  BY <1>1, CacheAddStep
<1>2. ASSUME NEW r \in Reqs, PushStatic(r) PROVE CacheInv'
  BY <1>2, CachePushStep
<1>3. ASSUME NEW r \in Reqs, DiscardRequest(r) PROVE CacheInv'
  BY <1>3, CacheDiscardStep
<1>4. CASE EmitBatch
  BY <1>4, CacheEmitStep
<1>5. CASE PopPackage
  BY <1>5, CachePopStep
<1>6. ASSUME NEW t \in Reqs \cup {"emit"}, DeliverBatch(t) PROVE CacheInv'
  BY <1>6, CacheDeliverStep
<1>7. CASE UNCHANGED cacheVars
  <2>1. UNCHANGED <<strategy, unsent, batcher_, inhand, packages, popped, answered, discarded>>
    BY <1>7 DEF cacheVars
  <2>2. CacheTyped' /\ BatchesFit' /\ PackagesFit' /\ StaticInOrder'
    BY <2>1 DEF CacheInv, CacheTyped, BatchesFit, PackagesFit, StaticInOrder
  <2>3. ItemsKept' /\ OnlyDiscardedAnswered'
    BY <2>1 DEF CacheInv, ItemsKept, OnlyDiscardedAnswered, IsDiscarded
  <2> QED
    BY <2>2, <2>3 DEF CacheInv
<1> QED
  BY <1>1, <1>2, <1>3, <1>4, <1>5, <1>6, <1>7 DEF CacheNext

\* Only Pop adds to what is popped, and what it adds is not discarded.
LEMMA PoppedStep ==
  ASSUME CacheInv, [CacheNext]_cacheVars
  PROVE  [\A k \in DOMAIN popped' \ DOMAIN popped :
            \A n \in DOMAIN popped'[k] : ~IsDiscarded(popped'[k][n])]_cacheVars
<1>1. CASE PopPackage
  <2>1. PICK c, t : Popped(c, t)
    BY <1>1, CachePopFacts
  <2>2. CASE c.left = <<>>
    <3>1. popped' = popped
      BY <2>1, <2>2 DEF Popped
    <3> QED
      BY <3>1
  <2>3. CASE c.left # <<>>
    <3>1. PICK hd \in Seq(CacheItems) : hd = Head(c.left) /\ \A n \in DOMAIN hd : ~IsDiscarded(hd[n])
      <4>1. PICK L \in Seq(Seq(CacheItems)) : L = c.left
        BY <2>1 DEF Popped, Cleared
      <4>2. Head(L) \in Seq(CacheItems)
        BY <2>3, <4>1
      <4>3. \A n \in DOMAIN Head(c.left) : ~IsDiscarded(Head(c.left)[n])
        BY <2>1, <2>3 DEF Popped
      <4> QED
        BY <4>1, <4>2, <4>3
    <3>2. popped' = Append(popped, hd)
      BY <2>1, <2>3, <3>1 DEF Popped
    <3>3. PICK p \in Seq(Seq(CacheItems)) : p = popped
      BY CacheFields
    <3>4. \A k \in DOMAIN Append(p, hd) \ DOMAIN p : Append(p, hd)[k] = hd
      OBVIOUS
    <3>5. \A k \in DOMAIN popped' \ DOMAIN popped : popped'[k] = hd
      BY <3>2, <3>3, <3>4
    <3> QED
      BY <3>1, <3>5
  <2> QED
    BY <2>2, <2>3
<1>2. CASE ~PopPackage
  <2>1. popped' = popped
    BY <1>2 DEF CacheNext, cacheVars, AddToBatch, PushStatic, DiscardRequest, EmitBatch, DeliverBatch
  <2> QED
    BY <2>1
<1> QED
  BY <1>1, <1>2

LEMMA CacheInvCorrect == CacheInv => ItemsKept /\ PackagesFit /\ StaticUnmixed /\ OnlyDiscardedAnswered
  BY DEF CacheInv, StaticInOrder, StaticUnmixed

\* CacheDynamic and CacheStatic lose and double no item, make legal packages, keep
\* the order of static requests, answer discarded items only, and pop live ones.
THEOREM CacheIsCorrect == CacheSpec => CacheCorrect
<1>1. CacheInit => CacheInv
  BY CacheStart
<1>2. CacheInv /\ [CacheNext]_cacheVars => CacheInv'
  BY CacheStep
<1>3. CacheInv => ItemsKept /\ PackagesFit /\ StaticUnmixed /\ OnlyDiscardedAnswered
  BY CacheInvCorrect
<1>4. CacheInv /\ [CacheNext]_cacheVars =>
        [\A k \in DOMAIN popped' \ DOMAIN popped :
           \A n \in DOMAIN popped'[k] : ~IsDiscarded(popped'[k][n])]_cacheVars
  BY PoppedStep
<1> QED
  BY <1>1, <1>2, <1>3, <1>4, PTL DEF CacheSpec, CacheCorrect, PoppedLive
==============================================================================
