---------------------------- MODULE Processors ----------------------------
(***************************************************************************)
(* The processors of an executor's engines.  A package goes through the    *)
(* TaskNodes of its engine (Preprocessor, Predictor, Postprocessor); each  *)
(* node is a task of the priority thread pool, holds the lock of its       *)
(* processor, and takes its output from that processor's pool of three     *)
(* buffers.  The dispatch loop is the one of module Executor in one step.  *)
(***************************************************************************)
EXTENDS Integers, FiniteSets

CONSTANTS
  NumEngines,       \* desc_.engine_num
  Packs,            \* a set of numbers, the order of the requests
  Threads,          \* threads in the pool
  MaxLoad,          \* nodes_.size(), from which IsIdle is false: 3
  BufNum,           \* buffers in a pool: 3
  Pooled            \* CanInferOutputShape() && FixedOutputShape()

ASSUME ProcessorsConstants ==
  /\ NumEngines \in Nat \ {0} /\ Packs \subseteq Nat \ {0} /\ IsFiniteSet(Packs)
  /\ {Threads, MaxLoad, BufNum} \subseteq Nat \ {0} /\ MaxLoad <= BufNum /\ Pooled \in BOOLEAN

Engines == 1 .. NumEngines
Nodes == 1 .. 3
Pre == 1
Infer == 2
Post == 3

VARIABLES
  handler,       \* the IPreproc is registered
  gOnParamsSet,  \* the key is in the set
  calls,         \* calls of OnTensorParams since the registration
  params,        \* what OnTensorParams returned
  solver,        \* Solver::initialized_ by engine
  pack,          \* packages
  task_num_, idle_,
  holder,        \* the package that has the lock of a processor, 0 if none
  crashed        \* a null buffer was used

solvers == <<handler, gOnParamsSet, calls, params, solver>>
engines == <<task_num_, idle_>>
vars == <<solvers, engines, pack, holder, crashed>>

Package == [st : {"new", "queue", "lock", "start", "params", "buffer", "count", "idle", "drop", "over"},
            node : Nodes, eng : Engines, in : BOOLEAN, out : BOOLEAN]

TypeOK ==
  /\ {handler, gOnParamsSet, crashed} \subseteq BOOLEAN /\ calls \in Nat /\ params \in {"none", "ok", "failed"}
  /\ solver \in [Engines -> BOOLEAN]
  /\ pack \in [Packs -> Package]
  /\ task_num_ \in [Engines -> 0 .. Cardinality(Packs)] /\ idle_ \in Engines \cup {0}
  /\ holder \in [Engines \X Nodes -> Packs \cup {0}]

Fresh == [st |-> "new", node |-> 1, eng |-> 1, in |-> FALSE, out |-> FALSE]
Gone == [Fresh EXCEPT !.st = "over"]

\* Processor::Init found the handler, or found none.
Init ==
  /\ handler \in BOOLEAN /\ gOnParamsSet = FALSE /\ calls = 0 /\ params = "none"
  /\ solver = [e \in Engines |-> FALSE]
  /\ pack = [p \in Packs |-> Fresh]
  /\ idle_ = 1
  /\ task_num_ = [e \in Engines |-> 0]
  /\ holder = [x \in Engines \X Nodes |-> 0] /\ crashed = FALSE

-----------------------------------------------------------------------------
(* Engine and TaskNode *)

IsIdle(e) == task_num_[e] < MaxLoad

\* DispatchLoop and Engine::Run: the engine in idle_ is not asked.
Run(p, e) ==
  /\ pack[p].st = "new" /\ \A q \in Packs : pack[q].st = "new" => p <= q
  /\ IF idle_ # 0 THEN e = idle_ ELSE IsIdle(e) /\ \A f \in 1 .. (e - 1) : ~IsIdle(f)
  /\ idle_' = 0
  /\ task_num_' = [task_num_ EXCEPT ![e] = @ + 1]
  /\ pack' = [pack EXCEPT ![p] = [@ EXCEPT !.st = "queue", !.eng = e]]
  /\ UNCHANGED <<solvers, holder, crashed>>

\* Priority: a later node first, then the older request.
Higher(q, p) == pack[q].node > pack[p].node \/ (pack[q].node = pack[p].node /\ q < p)

Queued == {p \in Packs : pack[p].st = "queue"}
Busy == {p \in Packs : pack[p].st \notin {"new", "queue", "over"}}

Proc(p) == <<pack[p].eng, pack[p].node>>

Acquire(p) ==
  /\ holder' = [holder EXCEPT ![Proc(p)] = p]
  /\ pack' = [pack EXCEPT ![p].st = "start"]

\* A thread of the pool takes the first task, and the processor's lock or waits.
TakeTask(p) ==
  /\ p \in Queued /\ Cardinality(Busy) < Threads
  /\ \A q \in Queued \ {p} : ~Higher(q, p)
  /\ IF holder[Proc(p)] = 0 THEN Acquire(p)
     ELSE pack' = [pack EXCEPT ![p].st = "lock"] /\ UNCHANGED holder
  /\ UNCHANGED <<solvers, engines, crashed>>

Lock(p) ==
  /\ pack[p].st = "lock" /\ holder[Proc(p)] = 0 /\ Acquire(p)
  /\ UNCHANGED <<solvers, engines, crashed>>

\* Process returned: the lock is released; a failure or the last node ends the
\* package, else Transmit.  in and out are the buffers it still has.
Return(p, ok, in, out) ==
  /\ holder' = [holder EXCEPT ![Proc(p)] = 0]
  /\ pack' = [pack EXCEPT ![p] =
       IF ok /\ @.node < Post THEN [@ EXCEPT !.st = "queue", !.node = pack[p].node + 1, !.in = in, !.out = out]
       ELSE [@ EXCEPT !.st = "count", !.in = in, !.out = out]]
  /\ UNCHANGED engines

Goto(p, st) == pack' = [pack EXCEPT ![p].st = st] /\ UNCHANGED <<engines, holder>>

\* done_notifier_: --task_num_ ...
CountDown(p) ==
  /\ pack[p].st = "count"
  /\ task_num_' = [task_num_ EXCEPT ![pack[p].eng] = @ - 1]
  /\ pack' = [pack EXCEPT ![p].st = "idle"]
  /\ UNCHANGED <<solvers, idle_, holder, crashed>>

\* ... then idle_.store.  A package without buffers may be gone at once.
StoreIdle(p) ==
  /\ pack[p].st = "idle"
  /\ idle_' = pack[p].eng
  /\ pack' = [pack EXCEPT ![p] = IF @.in \/ @.out THEN [@ EXCEPT !.st = "drop"] ELSE Gone]
  /\ UNCHANGED <<solvers, task_num_, holder, crashed>>

\* Mutant: a package that failed keeps its buffers.
DropNothing(p) ==
  /\ pack[p].st = "drop"
  /\ pack' = [pack EXCEPT ![p].st = "over"]
  /\ UNCHANGED <<solvers, engines, holder, crashed>>

\* The thread lets the package go, and with it what it has.
Drop(p) ==
  /\ pack[p].st = "drop"
  /\ pack' = [pack EXCEPT ![p] = Gone]
  /\ UNCHANGED <<solvers, engines, holder, crashed>>

-----------------------------------------------------------------------------
(* Preprocessor *)

At(p, node, st) == pack[p].node = node /\ pack[p].st = st
Of(e) == {p \in Packs : pack[p].eng = e}
InFree(e) == Cardinality({p \in Of(e) : pack[p].in}) < BufNum
OutFree(e) == Cardinality({p \in Of(e) : pack[p].out}) < BufNum

\* CreatePool at the end of CheckAllocResource.
CreatePool(p, ok) ==
  IF ok THEN /\ solver' = [solver EXCEPT ![pack[p].eng] = TRUE]
             /\ Goto(p, "buffer")
  ELSE Return(p, FALSE, FALSE, FALSE) /\ UNCHANGED solver

\* CheckAllocResource; EnableOnTensorParams inserts the key before the call.
CheckAllocResource(p, ok) ==
  /\ At(p, Pre, "start")
  /\ CASE solver[pack[p].eng] -> Goto(p, "buffer") /\ UNCHANGED <<gOnParamsSet, calls, solver>>
       [] ~solver[pack[p].eng] /\ ~handler -> Return(p, FALSE, FALSE, FALSE) /\ UNCHANGED <<gOnParamsSet, calls, solver>>
       [] ~solver[pack[p].eng] /\ handler /\ ~gOnParamsSet ->
            Goto(p, "params") /\ gOnParamsSet' = TRUE /\ calls' = calls + 1 /\ UNCHANGED solver
       [] OTHER -> CreatePool(p, ok) /\ UNCHANGED <<gOnParamsSet, calls>>
  /\ UNCHANGED <<handler, params, crashed>>

\* OnTensorParams of the handler, with the Solver's mutex_.
OnTensorParams(p, ok) ==
  /\ At(p, Pre, "params")
  /\ params' = IF ok THEN "ok" ELSE "failed"
  /\ IF ok THEN \E made \in BOOLEAN : CreatePool(p, made)
     ELSE Return(p, FALSE, FALSE, FALSE) /\ UNCHANGED solver
  /\ UNCHANGED <<handler, gOnParamsSet, calls, crashed>>

\* pool_.GetBufSurfaceWrapper(2000) and OnPreproc; predict_io gets the buffer.
OnPreproc(p, ok) ==
  /\ At(p, Pre, "buffer") /\ InFree(pack[p].eng)
  /\ Return(p, ok, ok, FALSE)
  /\ UNCHANGED <<solvers, crashed>>

PreprocTimeout(p) ==
  /\ At(p, Pre, "buffer") /\ ~InFree(pack[p].eng)
  /\ Return(p, FALSE, FALSE, FALSE)
  /\ UNCHANGED <<solvers, crashed>>

-----------------------------------------------------------------------------
(* Predictor and Postprocessor *)

\* GetBufSurfaceWrapper(1000), or no buffer when MagicMind makes the output, and
\* ModelRunner::Run; then predict_io is the output, also after a failure.
Predict(p, ok) ==
  /\ At(p, Infer, "start") /\ (Pooled => OutFree(pack[p].eng))
  /\ Return(p, ok, FALSE, Pooled)
  /\ UNCHANGED <<solvers, crashed>>

\* It returns nullptr, which ModelRunner::Run uses.
PredictTimeout(p) ==
  /\ At(p, Infer, "start") /\ Pooled /\ ~OutFree(pack[p].eng)
  /\ crashed' = TRUE
  /\ UNCHANGED <<solvers, engines, pack, holder>>

\* Mutant: cdata lives as long as the package.
OnPostprocKeeps(p) ==
  /\ At(p, Post, "start") /\ Return(p, TRUE, FALSE, pack[p].out)
  /\ UNCHANGED <<solvers, crashed>>

\* OnPostproc, or the copy of the output.
OnPostproc(p) ==
  /\ At(p, Post, "start") /\ Return(p, TRUE, FALSE, FALSE)
  /\ UNCHANGED <<solvers, crashed>>

-----------------------------------------------------------------------------
\* RemovePreprocHandler; the Solvers keep their pointer.
RemovePreprocHandler ==
  /\ handler /\ calls > 0 /\ \A p \in Packs : pack[p].st \in {"new", "over"}
  /\ gOnParamsSet /\ gOnParamsSet' = FALSE /\ calls' = 0
  /\ UNCHANGED <<handler, params, solver, engines, pack, holder, crashed>>

WorkStep(p) ==
  \/ TakeTask(p) \/ Lock(p) \/ CountDown(p) \/ StoreIdle(p) \/ Drop(p)
  \/ \E ok \in BOOLEAN : CheckAllocResource(p, ok) \/ OnTensorParams(p, ok) \/ OnPreproc(p, ok) \/ Predict(p, ok)
  \/ OnPostproc(p)

Next ==
  /\ ~crashed
  /\ \/ \E p \in Packs : WorkStep(p) \/ PreprocTimeout(p) \/ PredictTimeout(p)
     \/ \E p \in Packs, e \in Engines : Run(p, e)
     \/ RemovePreprocHandler

\* The pool's threads run, and user handlers return; no timeout is needed.
Spec == Init /\ [][Next]_vars /\ \A p \in Packs : WF_vars(~crashed /\ WorkStep(p))

-----------------------------------------------------------------------------
(* Properties *)

\* A handler gets the tensor params at most once while it is registered, however
\* many engines start at once.
ParamsOnce == calls <= 1

\* OnPreproc runs before the handler got its tensor params only if OnTensorParams
\* failed (the key stays in gOnParamsSet) or is still running in another engine.
PreprocAfterParams ==
  \A p \in Packs : At(p, Pre, "buffer") /\ params = "none" =>
    \E q \in Packs : pack[q].eng # pack[p].eng /\ At(q, Pre, "params")

\* A processor finds its pool empty, which the Predictor does not survive when it
\* lasts, only if the engine was given too many packages (idle_ is stored after
\* the count-down and taken without asking IsIdle) or a package that failed is
\* counted down and not yet gone.
Overloaded(e) ==
  task_num_[e] + Cardinality({p \in Of(e) : pack[p].node < Post /\ pack[p].st \in {"idle", "drop"}}) > MaxLoad
PoolEmptyMeansOverload ==
  \A p \in Packs :
    \/ At(p, Pre, "buffer") /\ ~InFree(pack[p].eng)
    \/ At(p, Infer, "start") /\ Pooled /\ ~OutFree(pack[p].eng)
    => Overloaded(pack[p].eng)

\* Every package is answered and gives its buffers back, and nobody has to wait
\* for the timeout of a buffer: a later node goes first in the thread pool, so
\* the threads never all wait for buffers that queued packages have.
PackageEnds == \A p \in Packs : pack[p].st = "queue" ~> (pack[p].st = "over" \/ crashed)

-----------------------------------------------------------------------------
(* Parts of the inductive invariant of UnitsProofs *)

\* task_num_ counts the packages between Run and the count-down.
Active == {"queue", "lock", "start", "params", "buffer", "count"}
Loaded(e) == {p \in Of(e) : pack[p].st \in Active}
LoadCounted == \A e \in Engines : task_num_[e] = Cardinality(Loaded(e))

\* A package in a processor has its lock.
ProcessorLocked ==
  \A p \in Packs : pack[p].st \in {"start", "params", "buffer"} => holder[Proc(p)] = p

\* Where a package may have a buffer of the Preprocessor or of the Predictor.
BuffersOf(r) ==
  /\ r.in => r.node = Infer /\ r.st \in {"queue", "lock", "start"}
  /\ r.out => \/ r.node = Post /\ r.st \in {"queue", "lock", "start"}
              \/ r.node = Infer /\ r.st \in {"count", "idle", "drop"}
  /\ r.st \in {"params", "buffer"} => r.node = Pre
BuffersPlaced == \A p \in Packs : BuffersOf(pack[p])

\* A handler without tensor params is getting them.
ParamsUnderWay ==
  /\ calls = IF gOnParamsSet THEN 1 ELSE 0
  /\ \A p \in Packs : At(p, Pre, "buffer") => solver[pack[p].eng]
  /\ params = "none" /\ (gOnParamsSet \/ \E e \in Engines : solver[e]) =>
       \E q \in Packs : At(q, Pre, "params")

EngineInv == TypeOK /\ LoadCounted /\ ProcessorLocked /\ BuffersPlaced /\ ParamsUnderWay

-----------------------------------------------------------------------------
\* Handlers get their tensor params once and before they preprocess, and a pool
\* is found empty only by the package an engine took beyond its load.
EngineSafe == TypeOK /\ ParamsOnce /\ PreprocAfterParams /\ PoolEmptyMeansOverload
====
