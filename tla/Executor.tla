------------------------------ MODULE Executor ------------------------------
(***************************************************************************)
(* infer_server::Executor with its Engines: the dispatch thread takes      *)
(* batches out of the cache and gives each to an engine; an engine is a    *)
(* chain of TaskNodes, each run as a task of the thread pool; the thread   *)
(* that ends the last node tells the executor which engine became idle.    *)
(*                                                                         *)
(* Three hand-overs are made without the mutex of the condition variable   *)
(* they belong to, and are split into steps here: idle_.store and          *)
(* dispatch_cond_.notify_one, CacheBase::Stop, and --task_num_ followed by *)
(* done_notifier_, which still uses the engine.                            *)
(*                                                                         *)
(* A batch is a model value: what is in it matters to the cache and to     *)
(* Session.  Whether its requests were discarded is chosen when it is      *)
(* looked at, as DiscardTask may come at any time before.                  *)
(***************************************************************************)
EXTENDS Integers, Sequences, FiniteSets, Sublists

CONSTANTS
  NumEngines,   \* desc_.engine_num
  NumNodes,     \* nodes of an engine, its MaxLoad
  Dynamic,      \* the cache is a CacheDynamic
  Packs         \* batches, each pushed once

ASSUME ExecutorConstants ==
  /\ NumEngines \in Nat \ {0}
  /\ NumNodes \in Nat \ {0}
  /\ Dynamic \in BOOLEAN
  /\ IsFiniteSet(Packs)

Engines == 1 .. NumEngines
Null == 0

VARIABLES
  cache_, running_,        \* CacheBase
  idle_, task_num_,        \* Executor::idle_, Engine::task_num_
  dpc, dpack, dengine,     \* the dispatch thread: pack and idle of its loop
  stage, where, engine,    \* by batch: what happens to it, node, engine
  xpc                      \* ~Executor

vars == <<cache_, running_, idle_, task_num_, dpc, dpack, dengine, stage, where,
          engine, xpc>>

TypeOK ==
  /\ cache_ \in Seq(Packs)
  /\ running_ \in BOOLEAN
  /\ idle_ \in Engines \cup {Null}
  /\ task_num_ \in [Engines -> 0 .. Cardinality(Packs)]
  /\ dpc \in {"pop", "block", "asleep", "choose", "scan", "check", "dblock",
              "dasleep", "take", "count", "run", "exit"}
  /\ dpack \in Packs \cup {Null}
  /\ dengine \in 0 .. (NumEngines + 1)
  /\ stage \in [Packs -> {"new", "cached", "held", "node", "count", "store",
                          "wake", "over"}]
  /\ where \in [Packs -> 1 .. NumNodes]
  /\ engine \in [Packs -> Engines]
  /\ xpc \in {"no", "notify", "again", "join", "engines", "dead"}

Init ==
  /\ cache_ = <<>>
  /\ running_ = TRUE
  /\ idle_ = 1
  /\ task_num_ = [e \in Engines |-> 0]
  /\ dpc = "pop"
  /\ dpack = Null
  /\ dengine = Null
  /\ stage = [p \in Packs |-> "new"]
  /\ where = [p \in Packs |-> 1]
  /\ engine = [p \in Packs |-> 1]
  /\ xpc = "no"

-----------------------------------------------------------------------------
(* CacheBase::Push and CacheBase::Pop *)

CacheMutexFree == dpc # "block"

Push(p) ==
  /\ running_ /\ xpc = "no" /\ stage[p] = "new" /\ CacheMutexFree
  /\ cache_' = Append(cache_, p)
  /\ stage' = [stage EXCEPT ![p] = "cached"]
  /\ dpc' = IF dpc = "asleep" THEN "pop" ELSE dpc
  /\ UNCHANGED <<running_, idle_, task_num_, dpack, dengine, where, engine, xpc>>

\* Pop evaluates its wait predicate under cache_mutex_.  When the batch at the
\* front is discarded, ClearDiscard answers every discarded batch (gone) of the
\* cache.  A null pack ends the loop once the cache is stopped.
Pop ==
  /\ dpc = "pop"
  /\ \/ \E gone \in SUBSET Elems(cache_) :
          LET left == Without(cache_, gone)
              over == [p \in Packs |-> IF p \in gone THEN "over" ELSE stage[p]]
          IN
            /\ cache_ # <<>> /\ (gone = {} \/ Head(cache_) \in gone)
            /\ \/ /\ left # <<>>
                  /\ dpack' = Head(left)
                  /\ cache_' = Tail(left)
                  /\ stage' = [over EXCEPT ![Head(left)] = "held"]
                  /\ dpc' = "choose"
               \/ /\ left = <<>>
                  /\ dpc' = IF running_ THEN "pop" ELSE "exit"
                  /\ cache_' = left /\ stage' = over
                  /\ UNCHANGED dpack
     \/ /\ cache_ = <<>>
        /\ dpc' = IF running_ THEN "block" ELSE "exit"
        /\ UNCHANGED <<cache_, dpack, stage>>
  /\ UNCHANGED <<running_, idle_, task_num_, dengine, where, engine, xpc>>

\* cache_cond_.wait releases the mutex and sleeps.
Block ==
  /\ dpc = "block"
  /\ dpc' = "asleep"
  /\ UNCHANGED <<cache_, running_, idle_, task_num_, dpack, dengine, stage, where,
                 engine, xpc>>

-----------------------------------------------------------------------------
(* DispatchLoop: the choice of an engine *)

dispatcher_only == <<cache_, running_, task_num_, dpack, stage, where, engine, xpc>>

Choose ==
  /\ dpc = "choose"
  /\ \/ idle_ # Null /\ dpc' = "take" /\ dengine' = dengine
     \/ idle_ = Null /\ dpc' = "scan" /\ dengine' = 1
  /\ UNCHANGED <<idle_, dispatcher_only>>

IsIdle(e) == task_num_[e] < NumNodes

\* for (auto& it : engines_) if (it->IsIdle()) ...
Scan ==
  /\ dpc = "scan"
  /\ \/ dengine \in Engines /\ IsIdle(dengine) /\ dpc' = "count" /\ dengine' = dengine
     \/ dengine \in Engines /\ ~IsIdle(dengine) /\ dpc' = dpc /\ dengine' = dengine + 1
     \/ dengine \notin Engines /\ dpc' = "check" /\ dengine' = Null
  /\ UNCHANGED <<idle_, dispatcher_only>>

\* The predicate of dispatch_cond_.wait, under dispatch_mutex_.
Check ==
  /\ dpc = "check"
  /\ dpc' = IF idle_ # Null THEN "take" ELSE "dblock"
  /\ UNCHANGED <<dengine, idle_, dispatcher_only>>

DispatchBlock ==
  /\ dpc = "dblock"
  /\ dpc' = "dasleep"
  /\ UNCHANGED <<dengine, idle_, dispatcher_only>>

\* A wake-up without a notification: the predicate is evaluated again.
SpuriousWake ==
  /\ \/ dpc = "dasleep" /\ dpc' = "check"
     \/ dpc = "asleep" /\ dpc' = "pop"
  /\ UNCHANGED <<dengine, idle_, dispatcher_only>>

\* idle = idle_.exchange(idle), where idle is null.
Take ==
  /\ dpc = "take"
  /\ dengine' = idle_
  /\ idle_' = Null
  /\ dpc' = "count"
  /\ UNCHANGED dispatcher_only

\* Engine::Run: ++task_num_, then the task for the first node is pushed.
Run ==
  /\ dpc = "count" /\ dengine \in Engines
  /\ task_num_' = [task_num_ EXCEPT ![dengine] = @ + 1]
  /\ dpc' = "run"
  /\ UNCHANGED <<cache_, running_, idle_, dpack, dengine, stage, where, engine, xpc>>

RunPush ==
  /\ dpc = "run"
  /\ stage' = [stage EXCEPT ![dpack] = "node"]
  /\ where' = [where EXCEPT ![dpack] = 1]
  /\ engine' = [engine EXCEPT ![dpack] = dengine]
  /\ dpc' = "pop"
  /\ UNCHANGED <<cache_, running_, idle_, task_num_, dpack, dengine, xpc>>

-----------------------------------------------------------------------------
(* TaskNode::Execute and TaskNode::Transmit, run by the thread pool *)

pack_only == <<cache_, running_, dpack, dengine, engine, xpc>>

\* A processor fails, or it is the last one: the items are given back to their
\* requests and done_notifier_ follows.  Otherwise the next node is pushed.
Execute(p, ok) ==
  /\ stage[p] = "node"
  /\ \/ /\ ~ok \/ where[p] = NumNodes
        /\ stage' = [stage EXCEPT ![p] = "count"]
        /\ where' = where
     \/ /\ ok /\ where[p] < NumNodes
        /\ where' = [where EXCEPT ![p] = @ + 1]
        /\ stage' = stage
  /\ UNCHANGED <<idle_, task_num_, dpc, pack_only>>

\* --task_num_ in the lambda of Engine::Engine and Engine::Fork.
CountDown(p) ==
  /\ stage[p] = "count"
  /\ task_num_' = [task_num_ EXCEPT ![engine[p]] = @ - 1]
  /\ stage' = [stage EXCEPT ![p] = "store"]
  /\ UNCHANGED <<idle_, dpc, where, pack_only>>

\* notify_done_func: idle_.store ...
StoreIdle(p) ==
  /\ stage[p] = "store"
  /\ idle_' = engine[p]
  /\ stage' = [stage EXCEPT ![p] = "wake"]
  /\ UNCHANGED <<task_num_, dpc, where, pack_only>>

\* ... and dispatch_cond_.notify_one, without dispatch_mutex_.
NotifyDispatch(p) ==
  /\ stage[p] = "wake"
  /\ dpc' = IF dpc = "dasleep" THEN "check" ELSE dpc
  /\ stage' = [stage EXCEPT ![p] = "over"]
  /\ UNCHANGED <<idle_, task_num_, where, pack_only>>

-----------------------------------------------------------------------------
(* ~Executor, called once the last session is gone: no batch is on its way  *)
(* to an answer.                                                            *)

Answered(p) == stage[p] \in {"new", "count", "store", "wake", "over"}

destructor_only == <<cache_, task_num_, dpack, dengine, stage, where, engine>>

\* CacheBase::Stop: running_.store(false) ...
StopCache ==
  /\ xpc = "no" /\ \A p \in Packs : Answered(p)
  /\ running_' = FALSE
  /\ xpc' = "notify"
  /\ UNCHANGED <<idle_, dpc, destructor_only>>

\* ... and cache_cond_.notify_all, without cache_mutex_; CacheDynamic::Stop does
\* it again after an Emit that finds no item.
StopNotify ==
  /\ xpc \in {"notify", "again"}
  /\ dpc' = IF dpc = "asleep" THEN "pop" ELSE dpc
  /\ xpc' = IF xpc = "notify" /\ Dynamic THEN "again" ELSE "join"
  /\ UNCHANGED <<running_, idle_, destructor_only>>

Join ==
  /\ xpc = "join" /\ dpc = "exit"
  /\ idle_' = Null
  /\ xpc' = "engines"
  /\ UNCHANGED <<running_, dpc, destructor_only>>

\* Mutant: ~Engine does not wait.
ClearAtOnce ==
  /\ xpc = "engines"
  /\ xpc' = "dead"
  /\ UNCHANGED <<running_, idle_, dpc, destructor_only>>

\* engines_.clear(): each ~Engine spins until task_num_ is zero.
ClearEngines ==
  /\ xpc = "engines" /\ \A e \in Engines : task_num_[e] = 0
  /\ xpc' = "dead"
  /\ UNCHANGED <<running_, idle_, dpc, destructor_only>>

-----------------------------------------------------------------------------
DispatchStep ==
  \/ Pop \/ Block \/ Choose \/ Scan \/ Check \/ DispatchBlock \/ Take \/ Run
  \/ RunPush
PackStep(p) ==
  \/ \E ok \in BOOLEAN : Execute(p, ok)
  \/ CountDown(p) \/ StoreIdle(p) \/ NotifyDispatch(p)
DestroyStep == StopNotify \/ Join \/ ClearEngines

Next ==
  \/ \E p \in Packs : Push(p) \/ PackStep(p)
  \/ DispatchStep \/ SpuriousWake
  \/ StopCache \/ DestroyStep

Spec == Init /\ [][Next]_vars

-----------------------------------------------------------------------------
(* Properties *)

\* The dispatch thread never calls Run on a null engine: what the wait saw in
\* idle_ is still there when it is exchanged, although other threads write it.
EngineChosen == dpc \in {"count", "run"} => dengine \in Engines

\* The batches a node of the engine works on, or whose --task_num_ is to come.
Inside(e) == {p \in Packs : engine[p] = e /\ stage[p] \in {"node", "count"}}

\* task_num_ counts the batches that are inside an engine, on the error path too:
\* IsIdle and ~Engine look at the truth.
TaskNumExact ==
  \A e \in Engines :
    task_num_[e] = Cardinality(Inside(e))
                   + (IF dpc = "run" /\ dengine = e THEN 1 ELSE 0)

\* A task that has counted itself out of its engine and has not come back from
\* done_notifier_(this), a member of the engine that writes idle_ and
\* dispatch_cond_ of the executor.
Notifying(p) == stage[p] \in {"store", "wake"}

\* "wait for all task done" in ~Engine waits for less than that: a task that is
\* inside done_notifier_ uses the engine and the executor after both are deleted.
\* It is the only use: every batch that was ever pushed is past its engine or, if
\* discarded, never gets to one, the cache is empty ("dispatch thread won't quit
\* until cache is empty") and the dispatch thread holds no batch.
OnlyNotifiersOutlive ==
  xpc = "dead" =>
    /\ \A p \in Packs : stage[p] \in {"new", "over"} \/ Notifying(p)
    /\ cache_ = <<>> /\ dpc = "exit"

\* The notification came between the predicate of dispatch_cond_.wait and the
\* sleep, as it is sent without dispatch_mutex_: idle_ names an engine, and nobody
\* is left to say so.
NotificationLost == idle_ # Null /\ \A p \in Packs : stage[p] # "wake"

\* The dispatch thread that found no idle engine is going to be told of one, after a
\* failing processor too: a batch is still to store its engine in idle_ or to notify.
\* What the code does not promise is that it still hears of it (NotificationLost).
EngineWillCome ==
  dpc \in {"dblock", "dasleep"} =>
    \/ \E p \in Packs : stage[p] \in {"node", "count", "store", "wake"}
    \/ NotificationLost

-----------------------------------------------------------------------------
(* Parts of the inductive invariant of ExecutorProofs *)

\* A cached batch is in the cache once.
CacheExact ==
  /\ Distinct(cache_)
  /\ \A p \in Packs : stage[p] = "cached" <=> p \in Elems(cache_)

\* From Pop to Run the dispatch thread holds one batch, the only one held.
Dispatching ==
  dpc \in {"choose", "scan", "check", "dblock", "dasleep", "take", "count", "run"}

HeldExact ==
  /\ Dispatching => dpack \in Packs
  /\ \A p \in Packs : stage[p] = "held" <=> Dispatching /\ p = dpack

\* What the dispatch thread saw of idle_ holds until it takes it, and its scan of
\* engines_ is past the busy ones.
Choice ==
  /\ dpc = "take" => idle_ # Null
  /\ dpc = "scan" => dengine \in 1 .. (NumEngines + 1)

\* A dispatch thread that found an engine busy will be told of an idle one.
Coming == \E p \in Packs : stage[p] \in {"node", "count", "store"}

WillCome ==
  (dpc = "scan" /\ dengine # 1) \/ dpc \in {"check", "dblock", "dasleep"}
    => idle_ # Null \/ Coming

\* Nothing comes back into an executor that is being destroyed.
Drained == xpc # "no" => \A p \in Packs : Answered(p)

\* ~Executor joins the dispatch thread before it touches the engines.
Joined == xpc \in {"engines", "dead"} => dpc = "exit"

ExecutorInv ==
  /\ TypeOK /\ CacheExact /\ HeldExact /\ Choice /\ WillCome /\ Joined
  /\ TaskNumExact /\ EngineChosen /\ Drained /\ OnlyNotifiersOutlive

-----------------------------------------------------------------------------
\* task_num_ counts exactly the batches of an engine, through every failing
\* processor, so that nothing but a task inside done_notifier_ outlives it; and the
\* dispatch thread ends up with an engine that is there: while there is none to
\* take, some batch is still to report its engine idle, unless the report was lost.
ExecutorSafe ==
  /\ TypeOK
  /\ TaskNumExact /\ OnlyNotifiersOutlive
  /\ EngineChosen /\ EngineWillCome
====
