----------------------------- MODULE ThreadPool -----------------------------
(***************************************************************************)
(* infer_server::ThreadPool: tasks pushed by any thread, pool threads that *)
(* sleep on cv_ when the queue is empty, and an owner that resizes and     *)
(* stops the pool ("Should be called from one thread").                    *)
(*                                                                         *)
(* A pusher puts the task into the queue and notifies cv_ without holding  *)
(* mutex_.  A pool thread that found the queue empty holds mutex_ until it *)
(* sleeps, so these are steps here: Poll takes mutex_ and evaluates        *)
(* the TryPop of the wait predicate, Decide evaluates the rest of it, and  *)
(* Sleep releases mutex_.                                                  *)
(***************************************************************************)
EXTENDS Integers, Sequences, FiniteSets, Sublists

CONSTANTS
  Threads,    \* identities of the threads the pool may ever create
  Pushers,    \* threads that call Push or VoidPush
  Tasks,      \* tasks, each pushed at most once
  Prio,       \* Task::priority
  ResizeTo    \* sizes the owner may ask for

ASSUME PoolConstants ==
  /\ Prio \in [Tasks -> Int]
  /\ ResizeTo \subseteq Nat
  /\ Tasks # {}

VARIABLES
  threads_,   \* the joinable threads, by slot
  flag,       \* flags_[i] of the slot a thread was created for
  detached,   \* threads whose slot Resize removed: nobody joins them
  task_q_, is_done_, is_stop_,
  tpc, cur,   \* what each pool thread does, and the task it holds
  ppc, item,  \* what each pusher does, and the task it pushes
  opc, dtor,  \* what the owner does; whether it is inside ~ThreadPool
  done,       \* tasks that ran to the end
  must        \* tasks queued when Stop(true) began, with a crew to run them

vars == <<threads_, flag, detached, task_q_, is_done_, is_stop_, tpc, cur, ppc, item,
          opc, dtor, done, must>>

owner  == <<threads_, detached, is_done_, is_stop_, opc, dtor, must>>
pusher == <<ppc, item>>

-----------------------------------------------------------------------------
Attached == Elems(threads_)

TypeOK ==
  /\ threads_ \in Seq(Threads) /\ Distinct(threads_)
  /\ flag \in [Threads -> BOOLEAN]
  /\ detached \subseteq Threads
  /\ task_q_ \subseteq Tasks
  /\ is_done_ \in BOOLEAN /\ is_stop_ \in BOOLEAN
  /\ tpc \in [Threads -> {"none", "start", "run", "poll", "decide", "doze",
                          "wait", "woken", "gone"}]
  /\ cur \in [Threads -> Tasks]
  /\ ppc \in [Pushers -> {"idle", "notify"}]
  /\ item \subseteq Tasks
  /\ opc \in {"idle", "clear", "notify", "join", "dead"}
  /\ dtor \in BOOLEAN
  /\ done \subseteq Tasks
  /\ must \subseteq Tasks

Init ==
  /\ threads_ = <<>>
  /\ flag = [t \in Threads |-> FALSE]
  /\ detached = {}
  /\ task_q_ = {}
  /\ is_done_ = FALSE /\ is_stop_ = FALSE
  /\ tpc = [t \in Threads |-> "none"]
  /\ cur = [t \in Threads |-> CHOOSE x \in Tasks : TRUE]
  /\ ppc = [p \in Pushers |-> "idle"]
  /\ item = {}
  /\ opc = "idle" /\ dtor = FALSE
  /\ done = {}
  /\ must = {}

-----------------------------------------------------------------------------
(* Push and VoidPush: TSQueue::Emplace, then notify_one without mutex_. *)

Emplace(p, x) ==
  /\ ppc[p] = "idle" /\ x \notin item /\ ~dtor
  /\ task_q_' = task_q_ \cup {x}
  /\ item' = item \cup {x}
  /\ ppc' = [ppc EXCEPT ![p] = "notify"]
  /\ UNCHANGED <<owner, flag, tpc, cur, done>>

Sleeping == {t \in Threads : tpc[t] = "wait"}

NotifyOne(p) ==
  /\ ppc[p] = "notify"
  /\ \/ \E t \in Sleeping : tpc' = [tpc EXCEPT ![t] = "woken"]
     \/ Sleeping = {} /\ UNCHANGED tpc
  /\ ppc' = [ppc EXCEPT ![p] = "idle"]
  /\ UNCHANGED <<owner, flag, task_q_, cur, item, done>>

-----------------------------------------------------------------------------
(* The body of a pool thread (SetThread). *)

\* ThreadSafeQueue::TryPop on a priority queue.
Top(x) == x \in task_q_ /\ \A y \in task_q_ : Prio[y] <= Prio[x]

MutexFree == \A t \in Threads : tpc[t] \notin {"decide", "doze"}

PopTo(t, x) ==
  /\ Top(x)
  /\ task_q_' = task_q_ \ {x}
  /\ cur' = [cur EXCEPT ![t] = x]
  /\ tpc' = [tpc EXCEPT ![t] = "run"]

\* TryPop outside of mutex_: at the start of the thread and after each task.
TryPop(t) ==
  /\ tpc[t] = "start"
  /\ \/ \E x \in Tasks : PopTo(t, x)
     \/ /\ task_q_ = {}
        /\ tpc' = [tpc EXCEPT ![t] = "poll"]
        /\ UNCHANGED <<task_q_, cur>>
  /\ UNCHANGED <<owner, pusher, flag, done>>

\* Mutant: the loop over the queue is left after the first task.
RunTaskOnce(t) ==
  /\ tpc[t] = "run"
  /\ done' = done \cup {cur[t]}
  /\ tpc' = [tpc EXCEPT ![t] = "gone"]
  /\ UNCHANGED <<owner, pusher, flag, task_q_, cur>>

\* t(), then the look at the flag.
RunTask(t) ==
  /\ tpc[t] = "run"
  /\ done' = done \cup {cur[t]}
  /\ tpc' = [tpc EXCEPT ![t] = IF flag[t] THEN "gone" ELSE "start"]
  /\ UNCHANGED <<owner, pusher, flag, task_q_, cur>>

\* Mutant: is_done_ and the flag are read before the queue.
PollEager(t) ==
  /\ tpc[t] \in {"poll", "woken"} /\ MutexFree
  /\ IF is_done_ \/ flag[t]
     THEN tpc' = [tpc EXCEPT ![t] = "gone"] /\ UNCHANGED <<task_q_, cur>>
     ELSE \/ \E x \in Tasks : PopTo(t, x)
          \/ /\ task_q_ = {}
             /\ tpc' = [tpc EXCEPT ![t] = "decide"]
             /\ UNCHANGED <<task_q_, cur>>
  /\ UNCHANGED <<owner, pusher, flag, done>>

\* With mutex_ taken (again, when cv_ woke the thread): TryPop first.
Poll(t) ==
  /\ tpc[t] \in {"poll", "woken"} /\ MutexFree
  /\ \/ \E x \in Tasks : PopTo(t, x)
     \/ /\ task_q_ = {}
        /\ tpc' = [tpc EXCEPT ![t] = "decide"]
        /\ UNCHANGED <<task_q_, cur>>
  /\ UNCHANGED <<owner, pusher, flag, done>>

\* The rest of the predicate, still under mutex_: return from the thread, or go
\* to sleep.
Decide(t) ==
  /\ tpc[t] = "decide"
  /\ tpc' = [tpc EXCEPT ![t] = IF is_done_ \/ flag[t] THEN "gone" ELSE "doze"]
  /\ UNCHANGED <<owner, pusher, flag, task_q_, cur, done>>

\* cv_.wait releases mutex_ and sleeps.
Sleep(t) ==
  /\ tpc[t] = "doze"
  /\ tpc' = [tpc EXCEPT ![t] = "wait"]
  /\ UNCHANGED <<owner, pusher, flag, task_q_, cur, done>>

\* A condition variable may wake up by itself.
Spurious(t) ==
  /\ tpc[t] = "wait"
  /\ tpc' = [tpc EXCEPT ![t] = "woken"]
  /\ UNCHANGED <<owner, pusher, flag, task_q_, cur, done>>

-----------------------------------------------------------------------------
(* Resize *)

WakeAll == [t \in Threads |-> IF tpc[t] = "wait" THEN "woken" ELSE tpc[t]]

Unused == {t \in Threads : tpc[t] = "none"}

Grow(n) ==
  /\ opc = "idle" /\ ~is_stop_ /\ ~is_done_ /\ Len(threads_) < n
  /\ \E new \in [1 .. (n - Len(threads_)) -> Unused] :
       /\ \A i, j \in DOMAIN new : i # j => new[i] # new[j]
       /\ threads_' = threads_ \o new
       /\ tpc' = [t \in Threads |->
                    IF \E i \in DOMAIN new : new[i] = t THEN "start" ELSE tpc[t]]
  /\ UNCHANGED <<pusher, flag, detached, task_q_, is_done_, is_stop_, cur, opc,
                 dtor, done, must>>

\* The threads of the removed slots are flagged and detached under mutex_.
Shrink(n) ==
  /\ opc = "idle" /\ ~is_stop_ /\ ~is_done_ /\ n < Len(threads_)
  /\ MutexFree
  /\ flag' = [t \in Threads |-> flag[t] \/
                \E i \in (n + 1) .. Len(threads_) : threads_[i] = t]
  /\ detached' = detached \cup {threads_[i] : i \in (n + 1) .. Len(threads_)}
  /\ threads_' = SubSeq(threads_, 1, n)
  /\ tpc' = WakeAll
  /\ UNCHANGED <<pusher, task_q_, is_done_, is_stop_, cur, opc, dtor, done, must>>

-----------------------------------------------------------------------------
(* Stop and ~ThreadPool *)

\* Stop(false): command the threads to stop, then clear the queue.
StopNow ==
  /\ opc = "idle" /\ ~dtor /\ ~is_stop_
  /\ is_stop_' = TRUE
  /\ flag' = [t \in Threads |-> flag[t] \/ t \in Attached]
  /\ opc' = "clear"
  /\ UNCHANGED <<pusher, threads_, detached, task_q_, is_done_, tpc, cur, dtor,
                 done, must>>

StopClear ==
  /\ opc = "clear"
  /\ task_q_' = {}
  /\ opc' = "notify"
  /\ UNCHANGED <<pusher, threads_, flag, detached, is_done_, is_stop_, tpc, cur,
                 dtor, done, must>>

\* Stop(true), called by the user or by the destructor.
StopAfterTasks(d) ==
  /\ opc = "idle" /\ ~dtor /\ ~is_done_ /\ ~is_stop_
  /\ d => \A p \in Pushers : ppc[p] = "idle"
  /\ is_done_' = TRUE
  /\ must' = IF Len(threads_) > 1 /\ detached = {} THEN task_q_ ELSE {}
  /\ opc' = "notify"
  /\ dtor' = d
  /\ UNCHANGED <<pusher, threads_, flag, detached, task_q_, is_stop_, tpc, cur,
                 done>>

\* The destructor of a pool that was stopped before.
DestroyStopped ==
  /\ opc = "idle" /\ ~dtor /\ (is_done_ \/ is_stop_)
  /\ \A p \in Pushers : ppc[p] = "idle"
  /\ dtor' = TRUE
  /\ opc' = "dead"
  /\ UNCHANGED <<pusher, threads_, flag, detached, task_q_, is_done_, is_stop_,
                 tpc, cur, done, must>>

\* Mutant: "may stuck on thread::join if no lock here".
StopNotifyUnlocked ==
  /\ opc = "notify"
  /\ tpc' = WakeAll
  /\ opc' = "join"
  /\ UNCHANGED <<pusher, threads_, flag, detached, task_q_, is_done_, is_stop_,
                 cur, dtor, done, must>>

StopNotify ==
  /\ opc = "notify" /\ MutexFree
  /\ tpc' = WakeAll
  /\ opc' = "join"
  /\ UNCHANGED <<pusher, threads_, flag, detached, task_q_, is_done_, is_stop_,
                 cur, dtor, done, must>>

StopJoin ==
  /\ opc = "join"
  /\ \A t \in Attached : tpc[t] = "gone"
  /\ task_q_' = {}
  /\ threads_' = <<>>
  /\ opc' = IF dtor THEN "dead" ELSE "idle"
  /\ UNCHANGED <<pusher, flag, detached, is_done_, is_stop_, tpc, cur, dtor, done,
                 must>>

-----------------------------------------------------------------------------
PushStep(p) == (\E x \in Tasks : Emplace(p, x)) \/ NotifyOne(p)
ThreadStep(t) == TryPop(t) \/ RunTask(t) \/ Poll(t) \/ Decide(t) \/ Sleep(t)
StopStep == StopClear \/ StopNotify \/ StopJoin
OwnerStep ==
  \/ \E n \in ResizeTo : Grow(n) \/ Shrink(n)
  \/ StopNow \/ DestroyStopped
  \/ \E d \in BOOLEAN : StopAfterTasks(d)
  \/ StopStep

Next ==
  \/ \E p \in Pushers : PushStep(p)
  \/ \E t \in Threads : ThreadStep(t) \/ Spurious(t)
  \/ OwnerStep

Spec == Init /\ [][Next]_vars

(* Fairness: a pusher finishes its call, a started thread runs whenever it  *)
(* can (the mutex is handed to it in the end), and an owner that is inside  *)
(* Stop goes on.  Nobody has to push, to resize or to stop.                 *)
FairSpec ==
  /\ Spec
  /\ \A p \in Pushers : WF_vars(NotifyOne(p))
  /\ \A t \in Threads : SF_vars(ThreadStep(t))
  /\ WF_vars(StopClear) /\ SF_vars(StopNotify) /\ WF_vars(StopJoin)

-----------------------------------------------------------------------------
(* Properties *)

\* Stop(true) and ~ThreadPool run what is queued: "the destructor waits for all
\* the functions in the queue to be finished" (thread_pool.h).  With two threads
\* and none detached, because of must: a single thread may read the queue before
\* a push and is_done_ after Stop, and leave; nobody waits for a detached one.
StopDrains == is_done_ /\ opc \in {"idle", "dead"} => must \subseteq done

\* After ~ThreadPool no thread works for the pool or waits on its mutex ("Wait for
\* all computing threads to finish and stop all threads"), but for those Resize
\* detached.
DeadPoolUnused ==
  opc = "dead" =>
    \A t \in Threads \ detached : tpc[t] \in {"none", "gone"}

\* Stop returns: no thread sleeps through the order to leave, so none keeps the
\* owner in thread::join for ever.
StopReturns == opc \in {"clear", "notify", "join"} ~> opc \in {"idle", "dead"}

\* A task in the queue of a pool with threads is taken, or cleared by Stop ("Run
\* the user's function", thread_pool.h), unless all threads fall asleep over it:
\* Emplace and notify_one come without mutex_, so the one that has just found the
\* queue empty sleeps after the notification.
PushedIsTaken ==
  \A x \in Tasks :
    (x \in task_q_ /\ Attached # {}) ~>
      \/ x \notin task_q_
      \/ Attached \subseteq Sleeping /\ \A p \in Pushers : ppc[p] = "idle"

\* A task is held by one place at a time: the queue, one pool thread, or done.
TaskHeldOnce ==
  \A x \in Tasks :
    LET holders == {t \in Threads : tpc[t] = "run" /\ cur[t] = x}
    IN /\ Cardinality(holders) <= 1
       /\ x \in task_q_ => holders = {} /\ x \notin done
       /\ x \in done => holders = {}

-----------------------------------------------------------------------------
(* Parts of the inductive invariant of UtilProofs *)

OneMutex ==
  \A t, u \in Threads : tpc[t] \in {"decide", "doze"} /\ tpc[u] \in {"decide", "doze"} => t = u

\* A pushed task is queued, with one thread, done or cleared.
TaskOnce ==
  /\ task_q_ \subseteq item /\ done \subseteq item /\ task_q_ \cap done = {}
  /\ \A t \in Threads : tpc[t] = "run" => cur[t] \in item \ (task_q_ \cup done)
  /\ \A t, u \in Threads : tpc[t] = "run" /\ tpc[u] = "run" /\ cur[t] = cur[u] => t = u

\* A live thread is in its slot or detached, and leaves only when it is told to.
Crew ==
  /\ \A t \in Attached : tpc[t] # "none"
  /\ \A t \in Threads : tpc[t] = "none" => ~flag[t]
  /\ \A t \in Threads : tpc[t] \notin {"none", "gone"} => t \in Attached \cup detached
  /\ ~is_stop_ => \A t \in Attached : ~flag[t]
  /\ ~is_stop_ /\ ~is_done_ => \A t \in Attached : tpc[t] # "gone"
  /\ opc = "dead" \/ (opc = "idle" /\ (is_done_ \/ is_stop_)) => threads_ = <<>>

Runs(x) == \E t \in Threads : tpc[t] = "run" /\ cur[t] = x

\* While Stop(true) waits, what must run is queued, running or done, and as long
\* as some of it is queued a thread is there that has yet to look at the queue.
Draining ==
  /\ is_done_ /\ ~is_stop_ /\ opc \in {"notify", "join"} /\ detached = {}
  /\ \A x \in must : x \in task_q_ \/ x \in done \/ Runs(x)
  /\ must \cap task_q_ # {} => \E t \in Attached : tpc[t] \notin {"gone", "decide"}

Drain == must \subseteq done \/ Draining

PoolInv == TypeOK /\ OneMutex /\ TaskOnce /\ Crew /\ Drain

-----------------------------------------------------------------------------
\* Tasks and threads of the pool: no task is run twice or run and cleared, Stop
\* leaves none behind, and no thread uses a pool that was destroyed.
TasksSafe == TypeOK /\ TaskHeldOnce /\ StopDrains /\ DeadPoolUnused
====
