--------------------------- MODULE ExecutorProofs ---------------------------
(***************************************************************************)
(* Proofs about Executor for any number of engines, nodes and batches, and *)
(* about InferServer for any number of clients, models and requests.       *)
(***************************************************************************)
EXTENDS Executor, InferServer, SublistsProofs, FiniteSetTheorems

USE DEF dispatcher_only, pack_only, destructor_only

-----------------------------------------------------------------------------
(* Counting the batches of an engine *)

LEMMA InsideFinite ==
  ASSUME NEW e
  PROVE  /\ IsFiniteSet(Inside(e)) /\ Cardinality(Inside(e)) \in Nat
         /\ Cardinality(Inside(e)) <= Cardinality(Packs)
         /\ Cardinality(Packs) \in Nat
<1>1. Inside(e) \in SUBSET Packs
  BY DEF Inside
<1> QED
  BY <1>1, FS_Subset, FS_CardinalityType, ExecutorConstants

\* The counters stay as they are when no batch enters or leaves an engine.
LEMMA CountFrame ==
  ASSUME TaskNumExact, task_num_' = task_num_,
         \A p \in Packs :
           (stage'[p] \in {"node", "count"}) <=> (stage[p] \in {"node", "count"}),
         \A p \in Packs : stage[p] \in {"node", "count"} => engine'[p] = engine[p],
         (dpc' = "run") <=> (dpc = "run"), dpc = "run" => dengine' = dengine
  PROVE  TaskNumExact'
<1>1. \A e \in Engines : Inside(e)' = Inside(e)
  BY DEF Inside
<1> QED
  BY <1>1 DEF TaskNumExact

\* A batch with a busy engine will report it idle.
LEMMA BusyComing ==
  ASSUME TypeOK, TaskNumExact, dpc # "run", NEW e \in Engines, task_num_[e] # 0
  PROVE  Coming
<1>1. task_num_[e] = Cardinality(Inside(e))
  BY InsideFinite DEF TaskNumExact
<1>2. Inside(e) # {}
  BY <1>1, FS_EmptySet
<1> QED
  BY <1>2 DEF Inside, Coming

-----------------------------------------------------------------------------
LEMMA InitExecutor == Init => ExecutorInv
<1> SUFFICES ASSUME Init PROVE ExecutorInv
  OBVIOUS
<1>1. TypeOK
  <2>1. 1 \in Engines /\ 1 \in 1 .. NumNodes /\ 0 \in 0 .. (NumEngines + 1)
    BY ExecutorConstants DEF Engines
  <2>2. 0 \in 0 .. Cardinality(Packs)
    BY InsideFinite
  <2> QED
    BY <2>1, <2>2 DEF Init, TypeOK, Null
<1>2. CacheExact
  BY DEF Init, CacheExact, Distinct, Elems
<1>3. HeldExact /\ Choice /\ WillCome /\ Joined /\ EngineChosen /\ Drained /\ OnlyNotifiersOutlive
  BY DEF Init, HeldExact, Choice, WillCome, Joined, EngineChosen,
     Drained, Answered, OnlyNotifiersOutlive, Notifying, Dispatching
<1>4. TaskNumExact
  <2>1. \A e \in Engines : Inside(e) = {}
    BY DEF Init, Inside
  <2>2. dpc = "pop" /\ \A e \in Engines : task_num_[e] = 0
    BY DEF Init
  <2>3. \A e \in Engines : Cardinality(Inside(e)) = 0
    BY <2>1, FS_EmptySet
  <2> QED
    BY <2>2, <2>3 DEF TaskNumExact
<1> QED
  BY <1>1, <1>2, <1>3, <1>4 DEF ExecutorInv

\* CacheExact, HeldExact, WillCome and Drained look at these only.
LEMMA StageFrame ==
  ASSUME ExecutorInv, UNCHANGED <<cache_, stage, dpack>>,
         Dispatching' <=> Dispatching
  PROVE  CacheExact' /\ HeldExact'
  BY DEF ExecutorInv, CacheExact, HeldExact

LEMMA PushStep ==
  ASSUME ExecutorInv, NEW p \in Packs, Push(p)
  PROVE  ExecutorInv'
<1> USE DEF ExecutorInv
<1>1. /\ UNCHANGED <<running_, idle_, task_num_, dpack, dengine, where, engine, xpc>>
      /\ stage[p] = "new" /\ stage' = [stage EXCEPT ![p] = "cached"]
      /\ cache_' = Append(cache_, p)
      /\ dpc' = IF dpc = "asleep" THEN "pop" ELSE dpc
      /\ xpc = "no"
  BY DEF Push
<1>2. cache_ \in Seq(Packs) /\ p \notin Elems(cache_)
  BY <1>1 DEF TypeOK, CacheExact
<1>3. /\ cache_' \in Seq(Packs) /\ Elems(cache_') = Elems(cache_) \cup {p}
      /\ Distinct(cache_')
  BY <1>1, <1>2, AppendElems DEF CacheExact
<1>4. TypeOK'
  BY <1>1, <1>3 DEF TypeOK
<1>5. CacheExact'
  BY <1>1, <1>3 DEF CacheExact, TypeOK
<1>6. HeldExact'
  BY <1>1 DEF HeldExact, Dispatching, TypeOK
<1>7. TaskNumExact'
  BY <1>1, CountFrame DEF TypeOK
<1>8. Choice' /\ Joined' /\ EngineChosen'
  BY <1>1 DEF Choice, Joined, EngineChosen
<1>9. WillCome' /\ Drained' /\ OnlyNotifiersOutlive'
  BY <1>1 DEF WillCome, Coming, Drained, Answered, OnlyNotifiersOutlive, Notifying, TypeOK
<1> QED
  BY <1>4, <1>5, <1>6, <1>7, <1>8, <1>9

LEMMA PopStep ==
  ASSUME ExecutorInv, Pop
  PROVE  ExecutorInv'
<1> USE DEF ExecutorInv
<1>1. /\ UNCHANGED <<running_, idle_, task_num_, dengine, where, engine, xpc>>
      /\ dpc = "pop"
  BY DEF Pop
<1>2. CASE UNCHANGED <<cache_, dpack, stage>> /\ dpc' \in {"block", "exit"}
  <2>1. TypeOK'
    BY <1>1, <1>2 DEF TypeOK
  <2>2. CacheExact' /\ HeldExact'
    BY <1>1, <1>2, StageFrame DEF Dispatching
  <2>3. TaskNumExact'
    BY <1>1, <1>2, CountFrame
  <2>4. Choice' /\ Joined' /\ EngineChosen' /\ WillCome' /\ Drained' /\ OnlyNotifiersOutlive'
    BY <1>1, <1>2 DEF Choice, Joined, EngineChosen, WillCome, Drained,
       Answered, OnlyNotifiersOutlive, Notifying
  <2> QED
    BY <2>1, <2>2, <2>3, <2>4
<1>3. ASSUME NEW gone \in SUBSET Elems(cache_),
             cache_ # <<>>,
             \/ /\ Without(cache_, gone) # <<>>
                /\ dpack' = Head(Without(cache_, gone))
                /\ cache_' = Tail(Without(cache_, gone))
                /\ stage' = [[p \in Packs |-> IF p \in gone THEN "over" ELSE stage[p]]
                               EXCEPT ![Head(Without(cache_, gone))] = "held"]
                /\ dpc' = "choose"
             \/ /\ Without(cache_, gone) = <<>>
                /\ dpc' = IF running_ THEN "pop" ELSE "exit"
                /\ cache_' = Without(cache_, gone)
                /\ stage' = [p \in Packs |-> IF p \in gone THEN "over" ELSE stage[p]]
                /\ UNCHANGED dpack
      PROVE  ExecutorInv'
  <2> DEFINE left == Without(cache_, gone)
  <2>1. /\ left \in Seq(Packs) /\ Elems(left) = Elems(cache_) \ gone
        /\ Distinct(left)
    BY WithoutProperties DEF TypeOK, CacheExact
  <2>2. \A p \in gone : p \in Packs => stage[p] = "cached"
    BY DEF CacheExact
  <2>3. \A p \in Packs : stage[p] # "held"
    BY <1>1 DEF HeldExact, Dispatching
  <2> HIDE DEF left
  <2>4. CASE left # <<>>
    <3>1. /\ dpack' = Head(left) /\ cache_' = Tail(left) /\ dpc' = "choose"
          /\ stage' = [[p \in Packs |-> IF p \in gone THEN "over" ELSE stage[p]]
                         EXCEPT ![Head(left)] = "held"]
      BY <1>3, <2>4 DEF left
    <3>2. /\ cache_' \in Seq(Packs) /\ dpack' \in Packs /\ dpack' \in Elems(left)
          /\ Elems(left) = Elems(cache_') \cup {dpack'}
          /\ Distinct(cache_') /\ dpack' \notin Elems(cache_')
      BY <2>1, <2>4, <3>1, TailElements
    <3>3. /\ stage'[dpack'] = "held"
          /\ \A p \in Packs : p # dpack' =>
               stage'[p] = IF p \in gone THEN "over" ELSE stage[p]
          /\ stage' \in [Packs -> {"new", "cached", "held", "node", "count", "store",
                                   "wake", "over"}]
      BY <3>1, <3>2 DEF TypeOK
    <3>4. stage[dpack'] = "cached"
      BY <2>1, <3>2 DEF CacheExact
    <3>5. TypeOK'
      BY <1>1, <3>1, <3>2, <3>3 DEF TypeOK
    <3>6. CacheExact'
      BY <2>1, <3>2, <3>3 DEF CacheExact
    <3>7. HeldExact'
      BY <2>3, <3>1, <3>2, <3>3 DEF HeldExact, Dispatching
    <3>8. TaskNumExact'
      BY <1>1, <2>2, <3>1, <3>3, <3>4, CountFrame
    <3>9. Drained' /\ OnlyNotifiersOutlive'
      <4>1. xpc = "no"
        BY <3>2, <3>4 DEF Drained, Answered
      <4> QED
        BY <1>1, <4>1 DEF Drained, OnlyNotifiersOutlive
    <3>10. Choice' /\ Joined' /\ EngineChosen' /\ WillCome'
      BY <1>1, <3>1 DEF Choice, Joined, EngineChosen, WillCome
    <3> QED
      BY <3>5, <3>6, <3>7, <3>8, <3>9, <3>10
  <2>5. CASE left = <<>>
    <3>1. /\ cache_' = <<>> /\ dpc' \in {"pop", "exit"} /\ dpack' = dpack
          /\ stage' = [p \in Packs |-> IF p \in gone THEN "over" ELSE stage[p]]
      BY <1>3, <2>5 DEF left
    <3>2. Elems(cache_) \ gone = {} /\ Elems(cache_') = {} /\ Distinct(cache_')
      BY <2>1, <2>5, <3>1 DEF Elems, Distinct
    <3>3. /\ \A p \in Packs : stage'[p] = IF p \in gone THEN "over" ELSE stage[p]
          /\ stage' \in [Packs -> {"new", "cached", "held", "node", "count", "store",
                                   "wake", "over"}]
      BY <3>1 DEF TypeOK
    <3>4. TypeOK'
      BY <1>1, <3>1, <3>3 DEF TypeOK
    <3>5. CacheExact'
      BY <3>2, <3>3 DEF CacheExact
    <3>6. HeldExact'
      BY <2>3, <3>1, <3>3 DEF HeldExact, Dispatching
    <3>7. TaskNumExact'
      BY <1>1, <2>2, <3>1, <3>3, CountFrame
    <3>8. Drained' /\ OnlyNotifiersOutlive'
      BY <1>1, <3>3 DEF Drained, Answered, OnlyNotifiersOutlive, Notifying
    <3>9. Choice' /\ Joined' /\ EngineChosen' /\ WillCome'
      BY <1>1, <3>1 DEF Choice, Joined, EngineChosen, WillCome
    <3> QED
      BY <3>4, <3>5, <3>6, <3>7, <3>8, <3>9
  <2> QED
    BY <2>4, <2>5
<1> QED
  BY <1>2, <1>3, Zenon DEF Pop

\* The steps in which the dispatch thread looks for an engine.
LEMMA ChooseStep ==
  ASSUME ExecutorInv,
         Block \/ Choose \/ Scan \/ Check \/ DispatchBlock \/ SpuriousWake \/ Take
  PROVE  ExecutorInv'
<1> USE DEF ExecutorInv
<1>1. /\ UNCHANGED <<cache_, running_, task_num_, dpack, stage, where, engine, xpc>>
      /\ dpc \notin {"exit", "count", "run", "pop"}
      /\ dpc' \notin {"exit", "run"}
  BY DEF Block, Choose, Scan, Check, DispatchBlock, SpuriousWake, Take
<1>2. Dispatching' <=> Dispatching
  BY DEF Block, Choose, Scan, Check, DispatchBlock, SpuriousWake, Take, Dispatching
<1>3. CacheExact' /\ HeldExact'
  BY <1>1, <1>2, StageFrame
<1>4. TaskNumExact'
  BY <1>1, CountFrame
<1>5. Drained' /\ OnlyNotifiersOutlive' /\ Joined'
  BY <1>1 DEF Drained, Answered, OnlyNotifiersOutlive, Notifying, Joined
<1>6. CASE Take
  <2>1. dpc = "take" /\ dpc' = "count" /\ dengine' = idle_ /\ idle_' = Null
    BY <1>6 DEF Take
  <2>2. idle_ \in Engines /\ idle_ \in 0 .. (NumEngines + 1)
    BY <2>1, ExecutorConstants DEF Choice, TypeOK, Engines, Null
  <2>3. TypeOK'
    BY <1>1, <2>1, <2>2 DEF TypeOK
  <2>4. Choice' /\ EngineChosen' /\ WillCome'
    BY <2>1, <2>2 DEF Choice, EngineChosen, WillCome
  <2> QED
    BY <1>3, <1>4, <1>5, <2>3, <2>4
<1>7. CASE Scan
  <2>1. dpc = "scan" /\ idle_' = idle_ /\ dengine \in 1 .. (NumEngines + 1)
    BY <1>7 DEF Scan, Choice
  <2>2. CASE dengine \in Engines /\ IsIdle(dengine)
    <3>1. dpc' = "count" /\ dengine' = dengine
      BY <1>7, <2>2 DEF Scan
    <3>2. TypeOK' /\ Choice' /\ EngineChosen' /\ WillCome'
      BY <1>1, <2>1, <2>2, <3>1 DEF TypeOK, Choice, EngineChosen, WillCome
    <3> QED
      BY <1>3, <1>4, <1>5, <3>2
  <2>3. CASE dengine \in Engines /\ ~IsIdle(dengine)
    <3>1. dpc' = "scan" /\ dengine' = dengine + 1
      BY <1>7, <2>1, <2>3 DEF Scan
    <3>2. dengine + 1 \in 1 .. (NumEngines + 1) /\ dengine + 1 \in 0 .. (NumEngines + 1)
      BY <2>3, ExecutorConstants DEF Engines
    <3>3. task_num_[dengine] # 0
      BY <2>3, ExecutorConstants DEF IsIdle
    <3>4. Coming
      BY <2>1, <2>3, <3>3, BusyComing
    <3>5. Coming'
      BY <1>1, <3>4 DEF Coming
    <3>6. TypeOK' /\ Choice' /\ EngineChosen' /\ WillCome'
      BY <1>1, <2>1, <3>1, <3>2, <3>5 DEF TypeOK, Choice, EngineChosen, WillCome
    <3> QED
      BY <1>3, <1>4, <1>5, <3>6
  <2>4. CASE dengine \notin Engines
    <3>1. dpc' = "check" /\ dengine' = Null
      BY <1>7, <2>4 DEF Scan
    <3>2. dengine # 1
      BY <2>4, ExecutorConstants DEF Engines
    <3>3. (idle_ # Null \/ Coming)'
      BY <1>1, <2>1, <3>2 DEF WillCome, Coming
    <3>4. Null \in 0 .. (NumEngines + 1)
      BY ExecutorConstants DEF Null
    <3>5. TypeOK' /\ Choice' /\ EngineChosen' /\ WillCome'
      BY <1>1, <2>1, <3>1, <3>3, <3>4 DEF TypeOK, Choice, EngineChosen, WillCome
    <3> QED
      BY <1>3, <1>4, <1>5, <3>5
  <2> QED
    BY <2>2, <2>3, <2>4
<1>8. CASE Block \/ Choose \/ Check \/ DispatchBlock \/ SpuriousWake
  <2>1. /\ idle_' = idle_
        /\ dpc' \in {"asleep", "take", "scan", "dblock", "dasleep", "check", "pop"}
        /\ dpc' = "take" => idle_ # Null
        /\ dpc' = "scan" => dengine' = 1
        /\ dpc' # "scan" => dengine' = dengine
        /\ dpc' \in {"check", "dblock", "dasleep"} =>
             idle_ # Null \/ dpc \in {"check", "dblock", "dasleep"}
    BY <1>8 DEF Block, Choose, Check, DispatchBlock, SpuriousWake
  <2>2. 1 \in 0 .. (NumEngines + 1) /\ 1 \in 1 .. (NumEngines + 1)
    BY ExecutorConstants
  <2>3. TypeOK'
    BY <1>1, <2>1, <2>2 DEF TypeOK
  <2>4. Choice' /\ EngineChosen'
    BY <1>1, <2>1, <2>2 DEF Choice, EngineChosen
  <2>5. WillCome'
    BY <1>1, <2>1 DEF WillCome, Coming
  <2> QED
    BY <1>3, <1>4, <1>5, <2>3, <2>4, <2>5
<1> QED
  BY <1>6, <1>7, <1>8

\* Engine::Run counts the batch before its first task is pushed.
LEMMA RunStep ==
  ASSUME ExecutorInv, Run \/ RunPush
  PROVE  ExecutorInv'
<1> USE DEF ExecutorInv
<1>1. /\ UNCHANGED <<cache_, running_, idle_, dpack, dengine, xpc>>
      /\ dpc \in {"count", "run"} /\ dengine \in Engines
      /\ dpack \in Packs /\ stage[dpack] = "held"
  BY DEF Run, RunPush, EngineChosen, HeldExact, Dispatching
<1>2. CASE Run
  <2>1. /\ UNCHANGED <<stage, where, engine>> /\ dpc = "count" /\ dpc' = "run"
        /\ task_num_' = [task_num_ EXCEPT ![dengine] = @ + 1]
    BY <1>2 DEF Run
  <2>2. \A e \in Engines : task_num_[e] = Cardinality(Inside(e)) /\ Inside(e)' = Inside(e)
    <3>1. \A e \in Engines : Inside(e)' = Inside(e)
      BY <2>1 DEF Inside
    <3>2. \A e \in Engines : task_num_[e] = Cardinality(Inside(e))
      BY <2>1, InsideFinite DEF TaskNumExact
    <3> QED
      BY <3>1, <3>2
  <2>3. TaskNumExact'
    BY <1>1, <2>1, <2>2, InsideFinite DEF TaskNumExact, TypeOK
  <2>4. Cardinality(Inside(dengine)) + 1 <= Cardinality(Packs)
    <3>1. dpack \notin Inside(dengine) /\ Inside(dengine) \cup {dpack} \in SUBSET Packs
      BY <1>1 DEF Inside
    <3>2. Cardinality(Inside(dengine) \cup {dpack}) = Cardinality(Inside(dengine)) + 1
      BY <3>1, InsideFinite, FS_AddElement
    <3> QED
      BY <3>1, <3>2, FS_Subset, ExecutorConstants
  <2>5. task_num_' \in [Engines -> 0 .. Cardinality(Packs)]
    BY <1>1, <2>1, <2>2, <2>4, InsideFinite DEF TypeOK
  <2>6. TypeOK'
    BY <1>1, <2>1, <2>5 DEF TypeOK
  <2>7. CacheExact' /\ HeldExact'
    BY <1>1, <2>1, StageFrame DEF Dispatching
  <2>8. Choice' /\ Joined' /\ EngineChosen' /\ WillCome' /\ Drained' /\ OnlyNotifiersOutlive'
    BY <1>1, <2>1 DEF Choice, Joined, EngineChosen, WillCome, Drained,
       Answered, OnlyNotifiersOutlive, Notifying
  <2> QED
    BY <2>3, <2>6, <2>7, <2>8
<1>3. CASE RunPush
  <2>1. /\ task_num_' = task_num_ /\ dpc = "run" /\ dpc' = "pop"
        /\ stage' = [stage EXCEPT ![dpack] = "node"]
        /\ where' = [where EXCEPT ![dpack] = 1]
        /\ engine' = [engine EXCEPT ![dpack] = dengine]
    BY <1>3 DEF RunPush
  <2>2. /\ stage'[dpack] = "node" /\ engine'[dpack] = dengine
        /\ \A p \in Packs : p # dpack => stage'[p] = stage[p] /\ engine'[p] = engine[p]
    BY <1>1, <2>1 DEF TypeOK
  <2>3. TypeOK'
    BY <1>1, <2>1, ExecutorConstants DEF TypeOK
  <2>4. Inside(dengine)' = Inside(dengine) \cup {dpack} /\ dpack \notin Inside(dengine)
    BY <1>1, <2>2 DEF Inside
  <2>5. \A e \in Engines : e # dengine => Inside(e)' = Inside(e)
    BY <1>1, <2>2 DEF Inside
  <2>6. Cardinality(Inside(dengine)') = Cardinality(Inside(dengine)) + 1
    BY <2>4, InsideFinite, FS_AddElement
  <2>7. TaskNumExact'
    BY <1>1, <2>1, <2>5, <2>6, InsideFinite DEF TaskNumExact
  <2>8. CacheExact'
    BY <1>1, <2>2 DEF CacheExact
  <2>9. HeldExact'
    BY <1>1, <2>1, <2>2 DEF HeldExact, Dispatching
  <2>10. Choice' /\ Joined' /\ EngineChosen' /\ WillCome' /\ Drained' /\ OnlyNotifiersOutlive'
    BY <1>1, <2>1 DEF Choice, Joined, EngineChosen, WillCome, Drained,
       Answered, OnlyNotifiersOutlive, Notifying
  <2> QED
    BY <2>3, <2>7, <2>8, <2>9, <2>10
<1> QED
  BY <1>2, <1>3

\* A batch on its way through an engine, on the error path too.
LEMMA PackSteps ==
  ASSUME ExecutorInv, NEW p \in Packs, PackStep(p)
  PROVE  ExecutorInv'
<1> USE DEF ExecutorInv
<1>1. UNCHANGED <<cache_, running_, dpack, dengine, engine, xpc>>
  BY DEF PackStep, Execute, CountDown, StoreIdle, NotifyDispatch
<1>2. /\ stage[p] \in {"node", "count", "store", "wake"}
      /\ stage'[p] \in {"node", "count", "store", "wake", "over"}
      /\ \A q \in Packs : q # p => stage'[q] = stage[q]
      /\ stage' \in [Packs -> {"new", "cached", "held", "node", "count", "store",
                               "wake", "over"}]
  BY DEF PackStep, Execute, CountDown, StoreIdle, NotifyDispatch, TypeOK
<1>3. CacheExact'
  BY <1>1, <1>2 DEF CacheExact
<1>4. dpc' = dpc \/ (dpc = "dasleep" /\ dpc' = "check")
  BY DEF PackStep, Execute, CountDown, StoreIdle, NotifyDispatch
<1>5. HeldExact'
  BY <1>1, <1>2, <1>4 DEF HeldExact, Dispatching
<1>6. Joined' /\ EngineChosen'
  BY <1>1, <1>4 DEF Joined, EngineChosen
<1>7. ASSUME NEW ok \in BOOLEAN, Execute(p, ok) PROVE ExecutorInv'
  <2>1. /\ UNCHANGED <<idle_, task_num_, dpc>>
        /\ stage[p] = "node" /\ stage'[p] \in {"node", "count"}
        /\ where' \in [Packs -> 1 .. NumNodes]
    <3>1. UNCHANGED <<idle_, task_num_, dpc>> /\ stage[p] = "node"
      BY <1>7 DEF Execute
    <3>2. stage'[p] \in {"node", "count"}
      BY <1>7 DEF Execute, TypeOK
    <3>3. where' = where \/ (where[p] < NumNodes /\ where' = [where EXCEPT ![p] = @ + 1])
      BY <1>7 DEF Execute
    <3>4. where' \in [Packs -> 1 .. NumNodes]
      <4>1. where \in [Packs -> 1 .. NumNodes] /\ where[p] \in 1 .. NumNodes
        BY DEF TypeOK
      <4>2. where[p] < NumNodes => where[p] + 1 \in 1 .. NumNodes
        BY <4>1, ExecutorConstants
      <4> QED
        BY <3>3, <4>1, <4>2
    <3> QED
      BY <3>1, <3>2, <3>4
  <2>2. TypeOK' /\ Choice'
    BY <1>1, <1>2, <2>1 DEF TypeOK, Choice
  <2>3. TaskNumExact'
    BY <1>1, <1>2, <2>1, CountFrame
  <2>4. WillCome' /\ Drained' /\ OnlyNotifiersOutlive'
    BY <1>1, <1>2, <2>1 DEF WillCome, Coming, Drained, Answered, OnlyNotifiersOutlive, Notifying
  <2> QED
    BY <1>3, <1>5, <1>6, <2>2, <2>3, <2>4
<1>8. CASE CountDown(p)
  <2>1. /\ UNCHANGED <<idle_, dpc, where>>
        /\ stage[p] = "count" /\ stage'[p] = "store"
        /\ task_num_' = [task_num_ EXCEPT ![engine[p]] = @ - 1]
        /\ engine[p] \in Engines
    BY <1>8 DEF CountDown, TypeOK
  <2>2. /\ Inside(engine[p])' = Inside(engine[p]) \ {p} /\ p \in Inside(engine[p])
        /\ \A e \in Engines : e # engine[p] => Inside(e)' = Inside(e)
    BY <1>1, <1>2, <2>1 DEF Inside
  <2>3. Cardinality(Inside(engine[p])') = Cardinality(Inside(engine[p])) - 1
    BY <2>2, InsideFinite, FS_RemoveElement
  <2>4. /\ task_num_'[engine[p]] = task_num_[engine[p]] - 1
        /\ \A e \in Engines : e # engine[p] => task_num_'[e] = task_num_[e]
    BY <2>1 DEF TypeOK
  <2>5. TaskNumExact'
    <3> SUFFICES ASSUME NEW e \in Engines
                 PROVE  task_num_'[e] = Cardinality(Inside(e)')
                                        + (IF dpc' = "run" /\ dengine' = e THEN 1 ELSE 0)
      BY DEF TaskNumExact
    <3>1. /\ task_num_[e] = Cardinality(Inside(e))
                             + (IF dpc = "run" /\ dengine = e THEN 1 ELSE 0)
          /\ Cardinality(Inside(e)) \in Nat
      BY InsideFinite DEF TaskNumExact
    <3>2. CASE e = engine[p]
      BY <1>1, <2>1, <2>3, <2>4, <3>1, <3>2
    <3>3. CASE e # engine[p]
      BY <1>1, <2>1, <2>2, <2>4, <3>1, <3>3
    <3> QED
      BY <3>2, <3>3
  <2>6. task_num_[engine[p]] # 0
    <3>1. Cardinality(Inside(engine[p])) # 0
      BY <2>2, InsideFinite, FS_EmptySet
    <3> QED
      BY <2>1, <3>1, InsideFinite DEF TaskNumExact
  <2>7. task_num_' \in [Engines -> 0 .. Cardinality(Packs)]
    <3>1. Cardinality(Packs) \in Nat /\ task_num_ \in [Engines -> 0 .. Cardinality(Packs)]
      BY InsideFinite DEF TypeOK
    <3>2. task_num_[engine[p]] - 1 \in 0 .. Cardinality(Packs)
      BY <2>1, <2>6, <3>1
    <3> QED
      BY <2>1, <3>1, <3>2
  <2>8. TypeOK' /\ Choice'
    BY <1>1, <1>2, <2>1, <2>7 DEF TypeOK, Choice
  <2>9. WillCome' /\ Drained' /\ OnlyNotifiersOutlive'
    BY <1>1, <1>2, <2>1 DEF WillCome, Coming, Drained, Answered, OnlyNotifiersOutlive, Notifying
  <2> QED
    BY <1>3, <1>5, <1>6, <2>5, <2>8, <2>9
<1>9. CASE StoreIdle(p)
  <2>1. /\ UNCHANGED <<task_num_, dpc, where>> /\ idle_' = engine[p]
        /\ stage[p] = "store" /\ stage'[p] = "wake"
        /\ engine[p] \in Engines /\ engine[p] # Null
    BY <1>9, ExecutorConstants DEF StoreIdle, TypeOK, Engines, Null
  <2>2. TypeOK' /\ Choice' /\ WillCome'
    BY <1>1, <1>2, <2>1 DEF TypeOK, Choice, WillCome
  <2>3. TaskNumExact'
    BY <1>1, <1>2, <2>1, CountFrame
  <2>4. Drained' /\ OnlyNotifiersOutlive'
    BY <1>1, <1>2, <2>1 DEF Drained, Answered, OnlyNotifiersOutlive, Notifying
  <2> QED
    BY <1>3, <1>5, <1>6, <2>2, <2>3, <2>4
<1>10. CASE NotifyDispatch(p)
  <2>1. /\ UNCHANGED <<task_num_, idle_, where>>
        /\ stage[p] = "wake" /\ stage'[p] = "over"
    BY <1>2, <1>10 DEF NotifyDispatch, TypeOK
  <2>2. TypeOK' /\ Choice'
    BY <1>1, <1>2, <1>4, <2>1 DEF TypeOK, Choice
  <2>3. WillCome'
    BY <1>1, <1>2, <1>4, <2>1 DEF WillCome, Coming
  <2>4. TaskNumExact'
    BY <1>1, <1>2, <1>4, <2>1, CountFrame
  <2>5. Drained'
    BY <1>1, <1>2, <2>1 DEF Drained, Answered
  <2>6. OnlyNotifiersOutlive'
    <3>1. xpc = "dead" => dpc' = dpc
      BY <1>4 DEF Joined
    <3> QED
      BY <1>1, <1>2, <2>1, <3>1 DEF OnlyNotifiersOutlive, Notifying
  <2> QED
    BY <1>3, <1>5, <1>6, <2>2, <2>3, <2>4, <2>5, <2>6
<1> QED
  BY <1>7, <1>8, <1>9, <1>10 DEF PackStep

\* ~Executor: Stop, the join of the dispatch thread, and the engines.
LEMMA DestroySteps ==
  ASSUME ExecutorInv, StopCache \/ DestroyStep
  PROVE  ExecutorInv'
<1> USE DEF ExecutorInv
<1>1. /\ UNCHANGED <<cache_, task_num_, dpack, dengine, stage, where, engine>>
      /\ dpc' = dpc \/ (dpc = "asleep" /\ dpc' = "pop")
      /\ xpc' \in {"notify", "again", "join", "engines", "dead"}
      /\ running_' \in BOOLEAN
      /\ idle_' = idle_ \/ (idle_' = Null /\ dpc = "exit")
      /\ xpc' \in {"engines", "dead"} => dpc' = "exit"
  BY DEF StopCache, DestroyStep, StopNotify, Join, ClearEngines, TypeOK, Joined
<1>2. TypeOK'
  BY <1>1 DEF TypeOK
<1>3. CacheExact' /\ HeldExact'
  BY <1>1, StageFrame DEF Dispatching
<1>4. TaskNumExact'
  BY <1>1, CountFrame
<1>5. Choice' /\ WillCome' /\ EngineChosen' /\ Joined'
  BY <1>1 DEF Choice, WillCome, Coming, EngineChosen, Joined
<1>6. Drained' /\ OnlyNotifiersOutlive'
  <2>1. xpc = "no" => \A p \in Packs : Answered(p)
    BY DEF StopCache, DestroyStep, StopNotify, Join, ClearEngines
  <2>2. \A p \in Packs : Answered(p)
    BY <2>1 DEF Drained
  <2>3. Drained'
    BY <1>1, <2>2 DEF Drained, Answered
  <2>4. CASE ClearEngines
    <3>1. ASSUME NEW p \in Packs, stage[p] = "count" PROVE FALSE
      <4>1. engine[p] \in Engines /\ p \in Inside(engine[p]) /\ dpc # "run"
        BY <2>4, <3>1 DEF TypeOK, Inside, ClearEngines, Joined
      <4>2. Cardinality(Inside(engine[p])) = 0
        BY <2>4, <4>1, InsideFinite DEF ClearEngines, TaskNumExact
      <4> QED
        BY <4>1, <4>2, InsideFinite, FS_EmptySet
    <3>2. \A p \in Packs : stage[p] \in {"new", "over", "store", "wake"}
      BY <2>2, <3>1 DEF Answered
    <3>3. cache_ = <<>>
      <4>1. cache_ \in Seq(Packs) /\ \A p \in Packs : p \notin Elems(cache_)
        BY <3>2 DEF CacheExact, TypeOK
      <4>2. \A i \in 1 .. Len(cache_) : cache_[i] \in Packs /\ cache_[i] \in Elems(cache_)
        BY <4>1 DEF Elems
      <4>3. Len(cache_) \in Nat /\ ~(1 \in 1 .. Len(cache_))
        BY <4>1, <4>2
      <4>4. Len(cache_) = 0
        BY <4>3
      <4> QED
        BY <4>1, <4>4
    <3>4. dpc = "exit"
      BY <2>4 DEF ClearEngines, Joined
    <3> QED
      BY <1>1, <2>3, <3>2, <3>3, <3>4 DEF OnlyNotifiersOutlive, Notifying
  <2>5. CASE ~ClearEngines
    <3>1. xpc' # "dead"
      BY <2>5 DEF StopCache, DestroyStep, StopNotify, Join
    <3> QED
      BY <2>3, <3>1 DEF OnlyNotifiersOutlive
  <2> QED
    BY <2>4, <2>5
<1> QED
  BY <1>2, <1>3, <1>4, <1>5, <1>6

LEMMA StepExecutor == ExecutorInv /\ [Next]_vars => ExecutorInv'
<1> SUFFICES ASSUME ExecutorInv, [Next]_vars PROVE ExecutorInv'
  OBVIOUS
<1>1. CASE UNCHANGED vars
  BY <1>1 DEF vars, ExecutorInv, TypeOK, CacheExact, HeldExact, Dispatching, Choice,
     WillCome, Coming, Joined, TaskNumExact, Inside, EngineChosen, Drained,
     Answered, OnlyNotifiersOutlive, Notifying
<1> QED
  BY <1>1, PushStep, PopStep, ChooseStep, RunStep, PackSteps, DestroySteps
     DEF Next, DispatchStep

\* For any number of engines, nodes and batches: task_num_ is exact on every path,
\* so nothing outlives ~Engine and ~Executor but tasks inside done_notifier_, which
\* do; the dispatch thread never runs a null engine, and while it waits without one
\* some batch is still to report, unless the report was lost.
THEOREM ExecutorIsSafe == Spec => []ExecutorSafe
<1>1. ExecutorInv => ExecutorSafe
  BY DEF ExecutorInv, ExecutorSafe, WillCome, Coming, EngineWillCome, NotificationLost
<1> QED
  BY <1>1, InitExecutor, StepExecutor, PTL DEF Spec

-----------------------------------------------------------------------------
(* InferServer: counting requests and their items *)

LEMMA LargestPack ==
  /\ Largest \in PackSizes /\ Largest \in Nat \ {0} /\ \A i \in PackSizes : i <= Largest
  /\ \A i \in PackSizes : i \in Nat \ {0}
BY InferServerConstants DEF Largest

LEMMA InFinite ==
  ASSUME NEW C \in SUBSET Clients, NEW q
  PROVE  /\ IsFiniteSet(RequestsIn(C, q)) /\ Cardinality(RequestsIn(C, q)) \in Nat
         /\ IsFiniteSet(UnitsIn(C, q)) /\ Cardinality(UnitsIn(C, q)) \in Nat
<1>1. MaxReqs \in Nat /\ Largest \in Nat
  BY LargestPack, InferServerConstants
<1>2. IsFiniteSet(C) /\ IsFiniteSet(1 .. MaxReqs) /\ IsFiniteSet(1 .. Largest)
  <2>1. IsFiniteSet(C)
    BY FS_Subset, InferServerConstants
  <2>2. 1 \in Int /\ MaxReqs \in Int /\ Largest \in Int
    BY <1>1
  <2>3. IsFiniteSet(1 .. MaxReqs) /\ IsFiniteSet(1 .. Largest)
    BY <2>2, FS_Interval
  <2> QED
    BY <2>1, <2>3
<1>3. IsFiniteSet(C \X (1 .. MaxReqs))
  BY <1>2, FS_Product
<1>4. IsFiniteSet((C \X (1 .. MaxReqs)) \X (1 .. Largest))
  BY <1>2, <1>3, FS_Product
<1> DEFINE P == C \X (1 .. MaxReqs) \X (1 .. Largest)
           Q == (C \X (1 .. MaxReqs)) \X (1 .. Largest)
           f == [x \in Q |-> <<x[1][1], x[1][2], x[2]>>]
<1>5. IsFiniteSet(P)
  <2>1. f \in [Q -> P]
    OBVIOUS
  <2>2. \A y \in P : \E x \in Q : f[x] = y
    <3> SUFFICES ASSUME NEW y \in P PROVE \E x \in Q : f[x] = y
      OBVIOUS
    <3>1. <<<<y[1], y[2]>>, y[3]>> \in Q
      OBVIOUS
    <3>2. f[<<<<y[1], y[2]>>, y[3]>>] = <<y[1], y[2], y[3]>>
      BY <3>1
    <3> QED
      BY <3>1, <3>2
  <2>3. f \in Surjection(Q, P)
    BY <2>1, <2>2 DEF Surjection
  <2> HIDE DEF f, P, Q
  <2> QED
    BY <2>3, <1>4, FS_Surjection DEF Q
<1>6. RequestsIn(C, q) \in SUBSET (C \X (1 .. MaxReqs)) /\ UnitsIn(C, q) \in SUBSET P
  BY DEF RequestsIn, UnitsIn
<1> HIDE DEF f, P, Q
<1>7. IsFiniteSet(RequestsIn(C, q)) /\ IsFiniteSet(UnitsIn(C, q))
  BY <1>3, <1>5, <1>6, FS_Subset
<1> QED
  BY <1>7, FS_CardinalityType

\* What the sets are depends on clients with requests only.
LEMMA SameUsers ==
  ASSUME NEW C \in SUBSET Clients, NEW D \in SUBSET Clients, NEW q \in [Clients -> Seq(PackSizes)],
         \A c \in Clients : q[c] # <<>> => (c \in C <=> c \in D)
  PROVE  RequestsIn(C, q) = RequestsIn(D, q) /\ UnitsIn(C, q) = UnitsIn(D, q)
<1>1. \A c \in Clients : q[c] \in Seq(PackSizes) /\ Len(q[c]) \in Nat /\ (Len(q[c]) >= 1 => q[c] # <<>>)
  OBVIOUS
<1>2. \A i \in 1 .. MaxReqs : i \in Nat /\ i >= 1
  BY InferServerConstants
<1>3. \A c \in Clients, i \in 1 .. MaxReqs : i <= Len(q[c]) => (c \in C <=> c \in D)
  BY <1>1, <1>2
<1> QED
  BY <1>3 DEF RequestsIn, UnitsIn

LEMMA OneUnion ==
  ASSUME NEW S, NEW T, IsFiniteSet(S), IsFiniteSet(T), S \cap T = {}
  PROVE  IsFiniteSet(S \cup T) /\ Cardinality(S \cup T) = Cardinality(S) + Cardinality(T)
<1>1. IsFiniteSet(S \cup T) /\ Cardinality(S \cup T) = Cardinality(S) + Cardinality(T) - Cardinality(S \cap T)
  BY FS_Union
<1>2. Cardinality(S \cap T) = 0
  BY FS_EmptySet
<1>3. Cardinality(S) \in Nat /\ Cardinality(T) \in Nat
  BY FS_CardinalityType
<1> QED
  BY <1>1, <1>2, <1>3

\* The queues z are q, with a request of n items of c more.
Added(q, z, c, n) ==
  /\ {q, z} \subseteq [Clients -> Seq(PackSizes)] /\ c \in Clients /\ n \in PackSizes
  /\ Len(q[c]) + 1 <= MaxReqs
  /\ z[c] = Append(q[c], n) /\ \A d \in Clients : d # c => z[d] = q[d]

\* The queues z are q, without the oldest request of c.
Removed(q, z, c) ==
  /\ {q, z} \subseteq [Clients -> Seq(PackSizes)] /\ c \in Clients /\ q[c] # <<>>
  /\ Len(q[c]) <= MaxReqs
  /\ z[c] = Tail(q[c]) /\ \A d \in Clients : d # c => z[d] = q[d]

\* A request that is sent is one more, with its items.
LEMMA RequestAdded ==
  ASSUME NEW C \in SUBSET Clients, NEW q, NEW z, NEW c, NEW n, Added(q, z, c, n)
  PROVE  /\ c \in C => Cardinality(RequestsIn(C, z)) = Cardinality(RequestsIn(C, q)) + 1
         /\ c \in C => Cardinality(UnitsIn(C, z)) = Cardinality(UnitsIn(C, q)) + n
         /\ c \notin C => RequestsIn(C, z) = RequestsIn(C, q) /\ UnitsIn(C, z) = UnitsIn(C, q)
<1>7. /\ q \in [Clients -> Seq(PackSizes)] /\ z \in [Clients -> Seq(PackSizes)] /\ c \in Clients /\ n \in PackSizes
      /\ Len(q[c]) + 1 <= MaxReqs /\ z[c] = Append(q[c], n) /\ \A d \in Clients : d # c => z[d] = q[d]
  BY DEF Added
<1> DEFINE L == Len(q[c])
<1>1. L \in Nat /\ q[c] \in Seq(PackSizes) /\ MaxReqs \in Nat /\ n \in Nat /\ n >= 1 /\ n <= Largest /\ Largest \in Nat
  BY <1>7, LargestPack, InferServerConstants
<1>2. /\ z[c] = Append(q[c], n) /\ Len(z[c]) = L + 1 /\ z[c][L + 1] = n
      /\ \A i \in 1 .. L : z[c][i] = q[c][i]
      /\ \A d \in Clients : d # c => z[d] = q[d]
  BY <1>1, <1>7
<1>3. L + 1 \in 1 .. MaxReqs
  BY <1>1, <1>7
<1> HIDE DEF L
<1>4. CASE c \notin C
  <2>1. \A d \in C : d \in Clients /\ z[d] = q[d]
    BY <1>2, <1>4
  <2> QED
    BY <2>1, <1>4 DEF RequestsIn, UnitsIn
<1>5. CASE c \in C
  <2>1. RequestsIn(C, z) = RequestsIn(C, q) \cup {<<c, L + 1>>}
    <3>1. \A d \in C, i \in 1 .. MaxReqs : i <= Len(z[d]) <=> (i <= Len(q[d]) \/ (d = c /\ i = L + 1))
      BY <1>1, <1>2 DEF L
    <3> QED
      BY <3>1, <1>3, <1>5 DEF RequestsIn
  <2>2. <<c, L + 1>> \notin RequestsIn(C, q)
    BY <1>1 DEF RequestsIn, L
  <2>3. Cardinality(RequestsIn(C, z)) = Cardinality(RequestsIn(C, q)) + 1
    <3>1. IsFiniteSet(RequestsIn(C, q)) /\ IsFiniteSet(RequestsIn(C, z))
      BY InFinite
    <3> QED
      BY <2>1, <2>2, <3>1, FS_AddElement
  <2> DEFINE N == {<<c, L + 1, j>> : j \in 1 .. n}
  <2>4. UnitsIn(C, z) = UnitsIn(C, q) \cup N
    <3>1. \A d \in C, i \in 1 .. MaxReqs, j \in 1 .. Largest :
            (i <= Len(z[d]) /\ j <= z[d][i]) <=> (i <= Len(q[d]) /\ j <= q[d][i]) \/ (d = c /\ i = L + 1 /\ j \in 1 .. n)
      <4> SUFFICES ASSUME NEW d \in C, NEW i \in 1 .. MaxReqs, NEW j \in 1 .. Largest
                   PROVE  (i <= Len(z[d]) /\ j <= z[d][i]) <=> (i <= Len(q[d]) /\ j <= q[d][i]) \/ (d = c /\ i = L + 1 /\ j \in 1 .. n)
        OBVIOUS
      <4>1. CASE d # c
        BY <4>1, <1>2
      <4>2. CASE d = c /\ i \in 1 .. L
        BY <4>2, <1>1, <1>2 DEF L
      <4>3. CASE d = c /\ i = L + 1
        BY <4>3, <1>1, <1>2 DEF L
      <4>4. CASE d = c /\ i > L + 1
        BY <4>4, <1>1, <1>2 DEF L
      <4> QED
        BY <4>1, <4>2, <4>3, <4>4, <1>1
    <3>2. N \subseteq C \X (1 .. MaxReqs) \X (1 .. Largest)
      BY <1>1, <1>3, <1>5
    <3>3. \A p \in C \X (1 .. MaxReqs) \X (1 .. Largest) :
            p \in N <=> (p[1] = c /\ p[2] = L + 1 /\ p[3] \in 1 .. n)
      OBVIOUS
    <3> HIDE DEF N
    <3> QED
      BY <3>1, <3>2, <3>3 DEF UnitsIn
  <2>5. UnitsIn(C, q) \cap N = {}
    BY <1>1 DEF UnitsIn, L
  <2>6. IsFiniteSet(N) /\ Cardinality(N) = n
    <3> DEFINE g == [j \in 1 .. n |-> <<c, L + 1, j>>]
    <3>1. g \in Injection(1 .. n, N) /\ g \in Surjection(1 .. n, N)
      BY DEF Injection, IsInjective, Surjection
    <3>2. ExistsBijection(1 .. n, N)
      BY <3>1 DEF ExistsBijection, Bijection
    <3>3. IsFiniteSet(1 .. n) /\ Cardinality(1 .. n) = n
      BY <1>1, FS_Interval
    <3> HIDE DEF N
    <3> QED
      BY <3>2, <3>3, FS_Bijection
  <2> HIDE DEF N
  <2>7. IsFiniteSet(UnitsIn(C, q))
    BY InFinite
  <2>8. Cardinality(UnitsIn(C, z)) = Cardinality(UnitsIn(C, q)) + n
    BY <2>4, <2>5, <2>6, <2>7, OneUnion
  <2> QED
    BY <2>3, <2>8, <1>5
<1> QED
  BY <1>4, <1>5

\* A request that is answered takes its items along; the ones behind it move up.
LEMMA RequestAnswered ==
  ASSUME NEW C \in SUBSET Clients, NEW q, NEW z, NEW c, Removed(q, z, c)
  PROVE  /\ c \in C => Cardinality(RequestsIn(C, q)) = Cardinality(RequestsIn(C, z)) + 1
         /\ c \in C => Cardinality(UnitsIn(C, q)) = Cardinality(UnitsIn(C, z)) + Head(q[c])
         /\ c \notin C => RequestsIn(C, z) = RequestsIn(C, q) /\ UnitsIn(C, z) = UnitsIn(C, q)
<1>7. /\ q \in [Clients -> Seq(PackSizes)] /\ z \in [Clients -> Seq(PackSizes)] /\ c \in Clients
      /\ q[c] # <<>> /\ Len(q[c]) <= MaxReqs /\ z[c] = Tail(q[c]) /\ \A d \in Clients : d # c => z[d] = q[d]
  BY DEF Removed
<1> DEFINE L == Len(q[c])
           n == Head(q[c])
<1>1. /\ L \in Nat /\ q[c] \in Seq(PackSizes) /\ L >= 1 /\ MaxReqs \in Nat /\ L <= MaxReqs
      /\ n \in PackSizes /\ n = q[c][1]
  BY <1>7, InferServerConstants
<1>0. n \in Nat /\ n >= 1 /\ n <= Largest /\ Largest \in Nat
  <2> HIDE DEF n
  <2> QED
    BY <1>1, LargestPack
<1>2. /\ z[c] = Tail(q[c]) /\ Len(z[c]) = L - 1
      /\ \A i \in 1 .. L - 1 : z[c][i] = q[c][i + 1]
      /\ \A d \in Clients : d # c => z[d] = q[d]
  BY <1>1, <1>7
<1> HIDE DEF L, n
<1>4. CASE c \notin C
  <2>1. \A d \in C : d \in Clients /\ z[d] = q[d]
    BY <1>2, <1>4
  <2> QED
    BY <2>1, <1>4 DEF RequestsIn, UnitsIn
<1>5. CASE c \in C
  <2>1. RequestsIn(C, q) = RequestsIn(C, z) \cup {<<c, L>>}
    <3>1. \A d \in C, i \in 1 .. MaxReqs : i <= Len(q[d]) <=> (i <= Len(z[d]) \/ (d = c /\ i = L))
      <4> SUFFICES ASSUME NEW d \in C, NEW i \in 1 .. MaxReqs
                   PROVE  i <= Len(q[d]) <=> (i <= Len(z[d]) \/ (d = c /\ i = L))
        OBVIOUS
      <4>1. CASE d # c
        BY <4>1, <1>2
      <4>2. CASE d = c
        <5>1. Len(q[d]) = L /\ Len(z[d]) = L - 1
          BY <4>2, <1>2 DEF L
        <5> QED
          BY <5>1, <4>2, <1>1
      <4> QED
        BY <4>1, <4>2
    <3> QED
      BY <3>1, <1>1, <1>5 DEF RequestsIn
  <2>2. <<c, L>> \notin RequestsIn(C, z)
    <3>1. ~(L <= Len(z[c]))
      BY <1>1, <1>2
    <3> QED
      BY <3>1 DEF RequestsIn
  <2>3. Cardinality(RequestsIn(C, q)) = Cardinality(RequestsIn(C, z)) + 1
    <3>1. IsFiniteSet(RequestsIn(C, q)) /\ IsFiniteSet(RequestsIn(C, z))
      BY InFinite
    <3> QED
      BY <2>1, <2>2, <3>1, FS_AddElement
  <2> DEFINE N == {<<c, 1, j>> : j \in 1 .. n}
             R == UnitsIn(C, q) \ N
             P == C \X (1 .. MaxReqs) \X (1 .. Largest)
             up(p) == IF p[1] = c THEN <<c, p[2] + 1, p[3]>> ELSE p
             f == [p \in UnitsIn(C, z) |-> up(p)]
  <2>4. \A p \in P : p \in N <=> (p[1] = c /\ p[2] = 1 /\ p[3] \in 1 .. n)
    OBVIOUS
  <2>5. \A i \in 1 .. MaxReqs, j \in 1 .. Largest :
          i <= Len(z[c]) /\ j <= z[c][i] => /\ i + 1 \in 1 .. MaxReqs /\ i + 1 # 1
                                            /\ i + 1 <= Len(q[c]) /\ j <= q[c][i + 1]
    BY <1>1, <1>2 DEF L
  <2>6. \A i \in 1 .. MaxReqs, j \in 1 .. Largest :
          i # 1 /\ i <= Len(q[c]) /\ j <= q[c][i] => /\ i - 1 \in 1 .. MaxReqs
                                                     /\ i - 1 <= Len(z[c]) /\ j <= z[c][i - 1]
    <3> SUFFICES ASSUME NEW i \in 1 .. MaxReqs, NEW j \in 1 .. Largest, i # 1, i <= Len(q[c]), j <= q[c][i]
                 PROVE  i - 1 \in 1 .. MaxReqs /\ i - 1 <= Len(z[c]) /\ j <= z[c][i - 1]
      OBVIOUS
    <3>1. i - 1 \in 1 .. L - 1 /\ (i - 1) + 1 = i
      BY <1>1 DEF L
    <3>2. z[c][i - 1] = q[c][i]
      BY <3>1, <1>2
    <3> QED
      BY <3>1, <3>2, <1>1, <1>2
  <2>7. \A p \in UnitsIn(C, z) : up(p) \in R
    <3> SUFFICES ASSUME NEW p \in UnitsIn(C, z) PROVE up(p) \in R
      OBVIOUS
    <3>1. p \in P /\ p[2] <= Len(z[p[1]]) /\ p[3] <= z[p[1]][p[2]]
      BY DEF UnitsIn
    <3>2. CASE p[1] = c
      <4> DEFINE u == <<c, p[2] + 1, p[3]>>
      <4>1. u \in P /\ u[1] = c /\ u[2] = p[2] + 1 /\ u[3] = p[3] /\ u[2] # 1
        BY <3>1, <3>2, <2>5
      <4>2. u[2] <= Len(q[u[1]]) /\ u[3] <= q[u[1]][u[2]]
        BY <3>1, <3>2, <2>5
      <4>3. up(p) = u
        BY <3>2
      <4> HIDE DEF u, up, N
      <4>4. u \in UnitsIn(C, q)
        BY <4>1, <4>2 DEF UnitsIn
      <4> QED
        BY <4>1, <4>3, <4>4, <2>4
    <3>3. CASE p[1] # c
      <4>1. up(p) = p
        BY <3>3
      <4> HIDE DEF up, N
      <4>2. p \in UnitsIn(C, q)
        BY <3>1, <3>3, <1>2 DEF UnitsIn
      <4> QED
        BY <3>1, <3>3, <4>1, <4>2, <2>4
    <3> QED
      BY <3>2, <3>3
  <2>8. \A r \in R : \E p \in UnitsIn(C, z) : up(p) = r
    <3> SUFFICES ASSUME NEW r \in R PROVE \E p \in UnitsIn(C, z) : up(p) = r
      OBVIOUS
    <3>1. r \in P /\ r[2] <= Len(q[r[1]]) /\ r[3] <= q[r[1]][r[2]] /\ r \notin N
      BY DEF UnitsIn
    <3>2. CASE r[1] = c
      <4> DEFINE u == <<c, r[2] - 1, r[3]>>
      <4>1. r[2] # 1
        <5>1. r[2] = 1 => r[3] \in 1 .. n
          BY <3>1, <3>2, <1>0, <1>1
        <5> HIDE DEF N
        <5> QED
          BY <5>1, <3>1, <3>2, <2>4
      <4>2. u \in P /\ u[1] = c /\ u[2] = r[2] - 1 /\ u[3] = r[3]
        BY <3>1, <3>2, <4>1, <2>6
      <4>3. u[2] <= Len(z[u[1]]) /\ u[3] <= z[u[1]][u[2]]
        BY <3>1, <3>2, <4>1, <2>6
      <4>4. up(u) = r
        <5>1. r = <<r[1], r[2], r[3]>> /\ r[2] - 1 + 1 = r[2]
          BY <3>1
        <5> QED
          BY <5>1, <3>2
      <4> HIDE DEF u, up
      <4>5. u \in UnitsIn(C, z)
        BY <4>2, <4>3 DEF UnitsIn
      <4> QED
        BY <4>4, <4>5
    <3>3. CASE r[1] # c
      <4>1. up(r) = r
        BY <3>3
      <4> HIDE DEF up, N
      <4>2. r \in UnitsIn(C, z)
        BY <3>1, <3>3, <1>2 DEF UnitsIn
      <4> QED
        BY <4>1, <4>2
    <3> QED
      BY <3>2, <3>3
  <2>9. \A p, r \in UnitsIn(C, z) : up(p) = up(r) => p = r
    <3> SUFFICES ASSUME NEW p \in UnitsIn(C, z), NEW r \in UnitsIn(C, z), up(p) = up(r) PROVE p = r
      OBVIOUS
    <3>1. p \in P /\ r \in P
      BY DEF UnitsIn
    <3>2. p = <<p[1], p[2], p[3]>> /\ r = <<r[1], r[2], r[3]>>
      BY <3>1
    <3>3. up(p)[1] = p[1] /\ up(r)[1] = r[1]
      OBVIOUS
    <3>4. CASE p[1] # c
      BY <3>3, <3>4
    <3>5. CASE p[1] = c
      <4>1. p[2] \in Nat /\ r[2] \in Nat
        BY <3>1, <1>1
      <4>2. <<c, p[2] + 1, p[3]>> = <<c, r[2] + 1, r[3]>>
        BY <3>3, <3>5
      <4>3. p[2] + 1 = r[2] + 1 /\ p[3] = r[3]
        BY <4>2
      <4>4. p[2] = r[2] /\ p[3] = r[3] /\ p[1] = r[1]
        BY <3>3, <3>5, <4>1, <4>3
      <4> QED
        BY <3>2, <4>4
    <3> QED
      BY <3>4, <3>5
  <2>10. ExistsBijection(UnitsIn(C, z), R)
    <3> HIDE DEF R, up
    <3>1. f \in Injection(UnitsIn(C, z), R) /\ f \in Surjection(UnitsIn(C, z), R)
      BY <2>7, <2>8, <2>9 DEF Injection, IsInjective, Surjection
    <3> QED
      BY <3>1 DEF ExistsBijection, Bijection
  <2>11. IsFiniteSet(N) /\ Cardinality(N) = n
    <3> DEFINE g == [j \in 1 .. n |-> <<c, 1, j>>]
    <3>1. g \in Injection(1 .. n, N) /\ g \in Surjection(1 .. n, N)
      BY DEF Injection, IsInjective, Surjection
    <3>2. ExistsBijection(1 .. n, N)
      BY <3>1 DEF ExistsBijection, Bijection
    <3>3. IsFiniteSet(1 .. n) /\ Cardinality(1 .. n) = n
      <4>1. 1 \in Int /\ n \in Int /\ ~(1 > n) /\ n - 1 + 1 = n
        BY <1>0
      <4>2. IsFiniteSet(1 .. n) /\ Cardinality(1 .. n) = n - 1 + 1
        BY <4>1, FS_Interval
      <4> QED
        BY <4>1, <4>2
    <3> HIDE DEF N
    <3> QED
      BY <3>2, <3>3, FS_Bijection
  <2>12. N \subseteq UnitsIn(C, q)
    <3>1. \A j \in 1 .. n : <<c, 1, j>> \in UnitsIn(C, q)
      BY <1>0, <1>1, <1>5 DEF UnitsIn, L
    <3> QED
      BY <3>1
  <2> HIDE DEF N, up, f
  <2>13. UnitsIn(C, q) = R \cup N /\ R \cap N = {}
    BY <2>12
  <2> HIDE DEF R
  <2>14. IsFiniteSet(R) /\ Cardinality(R) = Cardinality(UnitsIn(C, z))
    BY <2>10, InFinite, FS_Bijection
  <2>15. Cardinality(UnitsIn(C, q)) = Cardinality(UnitsIn(C, z)) + n
    BY <2>11, <2>13, <2>14, OneUnion
  <2> QED
    BY <2>3, <2>15, <1>5 DEF n
<1> QED
  BY <1>4, <1>5

-----------------------------------------------------------------------------
(* InferServer: what a step leaves as it is *)

\* No request comes or goes, and sessions without requests change executors.
LEMMA CountsFrame ==
  ASSUME ServerTypeOK, CountsExact, reqs' = reqs,
         \A c \in Clients : reqs[c] # <<>> => client'[c].ex = client[c].ex,
         \A e \in DOMAIN exec' :
           \/ e \in DOMAIN exec /\ exec'[e].req = exec[e].req /\ exec'[e].unit = exec[e].unit
           \/ exec'[e].req = 0 /\ exec'[e].unit = 0 /\ \A c \in Clients : client'[c].ex = e => reqs[c] = <<>>
  PROVE  CountsExact'
<1> SUFFICES ASSUME NEW e \in DOMAIN exec'
             PROVE  /\ exec'[e].req = Cardinality(RequestsIn(Users(e)', reqs'))
                    /\ exec'[e].unit = Cardinality(UnitsIn(Users(e)', reqs'))
  BY DEF CountsExact
<1>1. reqs \in [Clients -> Seq(PackSizes)]
  BY DEF ServerTypeOK
<1>2. PICK D \in SUBSET Clients : D = Users(e)'
  BY DEF Users
<1>3. PICK C \in SUBSET Clients : C = Users(e)
  BY DEF Users
<1>4. CASE e \in DOMAIN exec /\ exec'[e].req = exec[e].req /\ exec'[e].unit = exec[e].unit
  <2>1. \A c \in Clients : reqs[c] # <<>> => (c \in C <=> c \in D)
    BY <1>2, <1>3 DEF Users
  <2>2. RequestsIn(C, reqs) = RequestsIn(D, reqs) /\ UnitsIn(C, reqs) = UnitsIn(D, reqs)
    BY <1>1, <2>1, SameUsers
  <2> QED
    BY <1>2, <1>3, <1>4, <2>2 DEF CountsExact
<1>5. CASE exec'[e].req = 0 /\ exec'[e].unit = 0 /\ \A c \in Clients : client'[c].ex = e => reqs[c] = <<>>
  <2>1. \A c \in Clients : reqs[c] # <<>> => (c \in D <=> c \in {})
    BY <1>2, <1>5 DEF Users
  <2>2. RequestsIn(D, reqs) = RequestsIn({}, reqs) /\ UnitsIn(D, reqs) = UnitsIn({}, reqs)
    BY <1>1, <2>1, SameUsers
  <2>3. RequestsIn({}, reqs) = {} /\ UnitsIn({}, reqs) = {}
    BY DEF RequestsIn, UnitsIn
  <2>4. Cardinality(RequestsIn(D, reqs)) = 0 /\ Cardinality(UnitsIn(D, reqs)) = 0
    BY <2>2, <2>3, FS_EmptySet
  <2> QED
    BY <1>2, <1>5, <2>4
<1> QED
  BY <1>4, <1>5

LEMMA WaitingFinite ==
  /\ IsFiniteSet(Waiting) /\ Cardinality(Waiting) \in Nat
  /\ Waiting \subseteq Clients
<1>1. Waiting \in SUBSET Clients
  BY DEF Waiting
<1> QED
  BY <1>1, FS_Subset, FS_CardinalityType, InferServerConstants

LEMMA SentFrame ==
  ASSUME ServerTypeOK, SentCovers, reqs' = reqs, sent' = sent, Waiting' \subseteq Waiting
  PROVE  SentCovers'
<1>1. PICK W : W = Waiting'
  OBVIOUS
<1>2. IsFiniteSet(W) /\ Cardinality(W) <= Cardinality(Waiting) /\ Cardinality(W) \in Nat
  BY <1>1, WaitingFinite, FS_Subset, FS_CardinalityType
<1>3. Cardinality(RequestsIn(Clients, reqs)) \in Nat
  BY InFinite
<1>4. sent \in Nat /\ \A c \in Clients : Len(reqs[c]) \in Nat
  BY InferServerConstants DEF ServerTypeOK
<1>5. \A c \in Clients : Len(reqs[c]) + (IF c \in W THEN 1 ELSE 0) <= sent
  <2> SUFFICES ASSUME NEW c \in Clients PROVE Len(reqs[c]) + (IF c \in W THEN 1 ELSE 0) <= sent
    OBVIOUS
  <2>1. PICK l \in Nat : l = Len(reqs[c])
    BY <1>4
  <2>2. l + (IF c \in Waiting THEN 1 ELSE 0) <= sent
    BY <2>1 DEF SentCovers
  <2>3. CASE c \in W
    <3>1. l + 1 <= sent
      BY <1>1, <2>2, <2>3
    <3> QED
      BY <2>1, <2>3, <3>1
  <2>4. CASE c \notin W
    <3>1. l + 1 <= sent \/ l + 0 <= sent
      BY <2>2
    <3>3. l <= sent
      BY <3>1, <1>4
    <3>2. l + 0 = l
      OBVIOUS
    <3> QED
      BY <2>1, <2>4, <3>3, <3>2
  <2> QED
    BY <2>3, <2>4
<1>6. Cardinality(RequestsIn(Clients, reqs)) + Cardinality(W) <= sent
  BY <1>2, <1>3, <1>4, WaitingFinite DEF SentCovers
<1> QED
  BY <1>1, <1>5, <1>6 DEF SentCovers

LEMMA TimesLargest ==
  ASSUME NEW a \in Nat, NEW b \in Nat, a <= b
  PROVE  /\ a * Largest \in Nat /\ b * Largest \in Nat /\ a * Largest <= b * Largest
         /\ (a + 1) * Largest = a * Largest + Largest
<1>1. PICK m \in Nat : m = Largest
  BY LargestPack
<1>2. PICK d \in Nat : b = a + d
  <2>1. b - a \in Nat /\ b = a + (b - a)
    OBVIOUS
  <2> QED
    BY <2>1
<1>3. a * m \in Nat /\ b * m \in Nat /\ d * m \in Nat
  OBVIOUS
<1>4. b * m = a * m + d * m
  BY <1>2
<1>5. (a + 1) * m = a * m + m
  OBVIOUS
<1> QED
  BY <1>1, <1>3, <1>4, <1>5

LEMMA UploadersFinite ==
  ASSUME NEW S \in SUBSET Clients
  PROVE  /\ IsFiniteSet(S) /\ Cardinality(S) \in Nat /\ Cardinality(Clients) \in Nat
         /\ Cardinality(S) * Largest \in Nat
         /\ Cardinality(S) * Largest <= Cardinality(Clients) * Largest
<1>1. IsFiniteSet(S) /\ Cardinality(S) <= Cardinality(Clients)
  BY FS_Subset, InferServerConstants
<1>2. Cardinality(S) \in Nat /\ Cardinality(Clients) \in Nat
  BY <1>1, FS_CardinalityType, InferServerConstants
<1> QED
  BY <1>1, <1>2, TimesLargest

\* Who passes WaitIfCacheFull found room, and others only leave.
LEMMA LoadFrame ==
  ASSUME ServerTypeOK, LoadReserved,
         \A e \in DOMAIN exec' : exec'[e].unit \in Nat,
         \A e \in DOMAIN exec' :
           \/ exec'[e].unit < MaxLoad
           \/ e \in DOMAIN exec /\ exec'[e].unit <= exec[e].unit /\ Uploaders(e)' \subseteq Uploaders(e)
  PROVE  LoadReserved'
<1> SUFFICES ASSUME NEW e \in DOMAIN exec'
             PROVE  exec'[e].unit + Cardinality(Uploaders(e)') * Largest <= MaxLoad - 1 + Cardinality(Clients) * Largest
  BY DEF LoadReserved
<1>1. PICK V \in SUBSET Clients : V = Uploaders(e)'
  BY DEF Uploaders, Users
<1>2. PICK U \in SUBSET Clients : U = Uploaders(e)
  BY DEF Uploaders, Users
<1>3. /\ Cardinality(V) * Largest \in Nat /\ Cardinality(U) * Largest \in Nat
      /\ Cardinality(V) * Largest <= Cardinality(Clients) * Largest
      /\ Cardinality(V) \in Nat /\ Cardinality(U) \in Nat /\ Cardinality(Clients) \in Nat
      /\ IsFiniteSet(U) /\ Cardinality(Clients) * Largest \in Nat
  BY UploadersFinite, LargestPack
<1>4. MaxLoad \in Nat
  BY InferServerConstants
<1>5. CASE exec'[e].unit < MaxLoad
  <2>1. PICK u \in Nat : u = exec'[e].unit
    OBVIOUS
  <2> QED
    BY <1>1, <1>3, <1>4, <1>5, <2>1
<1>6. CASE e \in DOMAIN exec /\ exec'[e].unit <= exec[e].unit /\ Uploaders(e)' \subseteq Uploaders(e)
  <2>1. PICK u \in Nat : u = exec'[e].unit
    OBVIOUS
  <2>2. PICK o \in Nat : o = exec[e].unit
    BY <1>6 DEF ServerTypeOK, Executors
  <2>3. V \in SUBSET U
    BY <1>1, <1>2, <1>6
  <2>4. Cardinality(V) <= Cardinality(U)
    BY <2>3, <1>3, FS_Subset
  <2>5. Cardinality(V) * Largest <= Cardinality(U) * Largest
    BY <2>4, <1>3, TimesLargest
  <2>6. o + Cardinality(U) * Largest <= MaxLoad - 1 + Cardinality(Clients) * Largest
    BY <1>2, <1>6, <2>2 DEF LoadReserved
  <2>7. u <= o
    BY <1>6, <2>1, <2>2
  <2> QED
    BY <1>1, <1>3, <1>4, <2>1, <2>5, <2>6, <2>7
<1> QED
  BY <1>5, <1>6

-----------------------------------------------------------------------------
(* InferServer: the steps *)

LEMMA ServerInitInv == ServerInit => ServerInv
<1> SUFFICES ASSUME ServerInit PROVE ServerInv
  OBVIOUS
<1>1. ServerTypeOK
  <2>1. Idle \in Calls
    BY InferServerConstants DEF Idle, Calls, Linked, Unlinked
  <2>2. <<>> \in Seq(PackSizes)
    OBVIOUS
  <2>3. exec \in [1 .. 0 -> Executors] /\ 0 \in 0 .. MaxExecs
    BY InferServerConstants DEF ServerInit
  <2>4. /\ 0 \in 0 .. MaxModels /\ 0 \in 0 .. MaxThreads /\ 0 \in 0 .. MaxSessions /\ 0 \in 0 .. MaxReqs
    BY InferServerConstants
  <2>5. client \in [Clients -> Calls] /\ reqs \in [Clients -> Seq(PackSizes)]
    BY <2>1, <2>2 DEF ServerInit
  <2> QED
    BY <2>3, <2>4, <2>5 DEF ServerInit, ServerTypeOK
<1>2. DOMAIN exec = {}
  BY DEF ServerInit
<1>3. \A c \in Clients : client[c].pc = "idle" /\ client[c].ex = 0 /\ reqs[c] = <<>>
  BY DEF ServerInit, Idle
<1>4. Registered /\ NoOverlap /\ ExecutorAlive /\ CountsExact /\ LoadReserved /\ Threads /\ HeldCached /\ ModelFound
  BY <1>2, <1>3 DEF ServerInit, Registered, NoOverlap, ExecutorAlive, CountsExact, LoadReserved, Threads, HeldCached,
     ModelFound, Creating, None
<1>5. Attached
  <2>1. \A c \in Clients : mutex # c
    BY InferServerConstants DEF ServerInit, Nobody
  <2> QED
    BY <1>3, <2>1 DEF Attached, Linked, WaitsForRoom
<1>6. SentCovers
  <2>1. Waiting = {} /\ \A c \in Clients : Len(reqs[c]) = 0
    BY <1>3 DEF Waiting, WaitsForRoom
  <2>2. RequestsIn(Clients, reqs) = {}
    BY <2>1, InferServerConstants DEF RequestsIn
  <2>3. Cardinality(Waiting) = 0 /\ Cardinality(RequestsIn(Clients, reqs)) = 0 /\ sent = 0
    BY <2>1, <2>2, FS_EmptySet DEF ServerInit
  <2> QED
    BY <2>1, <2>3 DEF SentCovers
<1> QED
  BY <1>1, <1>4, <1>5, <1>6 DEF ServerInv

\* The cache of models: the executors and their clients are not concerned.
LEMMA CacheKeepsRest ==
  ASSUME ServerInv, UNCHANGED <<registry, exec, client, flow, crashed>>
  PROVE  /\ Registered' /\ Attached' /\ NoOverlap' /\ ExecutorAlive'
         /\ CountsExact' /\ SentCovers' /\ LoadReserved' /\ Threads'
<1>1. UNCHANGED <<executor_map_, mutex, tp, sessions, exec, client, reqs, sent, crashed>>
  BY DEF registry, flow
<1>2. Registered' /\ Attached' /\ Threads'
  BY <1>1 DEF ServerInv, Registered, Attached, Threads
<1>3. NoOverlap' /\ ExecutorAlive'
  BY <1>1 DEF ServerInv, NoOverlap, Creating, Destroying, ExecutorAlive, Alive
<1>4. CountsExact' /\ LoadReserved'
  BY <1>1 DEF ServerInv, CountsExact, LoadReserved, Users, Uploaders
<1>5. SentCovers'
  BY <1>1 DEF ServerInv, SentCovers, Waiting
<1> QED
  BY <1>2, <1>3, <1>4, <1>5

LEMMA HeldType ==
  ASSUME ServerTypeOK, NEW c \in Clients, held[c] # None
  PROVE  /\ held[c][1] \in Keys /\ held[c][2] \in 1 .. MaxModels
         /\ held[c] = <<held[c][1], held[c][2]>> /\ held[c][2] # 0
<1>1. held[c] \in Keys \X (1 .. MaxModels)
  BY DEF ServerTypeOK
<1> QED
  BY <1>1, InferServerConstants

LEMMA LoadModelStep ==
  ASSUME ServerInv, NEW c \in Clients, NEW k \in Keys, LoadModel(c, k)
  PROVE  ServerInv'
<1>1. /\ Registered' /\ Attached' /\ NoOverlap' /\ ExecutorAlive'
      /\ CountsExact' /\ SentCovers' /\ LoadReserved' /\ Threads'
  BY CacheKeepsRest DEF LoadModel
<1>2. ServerTypeOK
  BY DEF ServerInv
<1>3. UNCHANGED <<executor_map_, mutex, tp, sessions, exec, client, reqs, sent, crashed, unloaded>>
  BY DEF LoadModel, registry, flow
<1>4. CASE k \in Cached /\ held' = [held EXCEPT ![c] = <<k, model_cache_[k]>>] /\ UNCHANGED <<model_cache_, models>>
  <2>1. model_cache_[k] \in 1 .. MaxModels
    BY <1>2, <1>4, InferServerConstants DEF ServerTypeOK, Cached
  <2>2. held' \in [Clients -> {None} \cup (Keys \X (1 .. MaxModels))]
    BY <1>2, <1>4, <2>1 DEF ServerTypeOK
  <2>3. ServerTypeOK'
    BY <1>2, <1>3, <1>4, <2>2 DEF ServerTypeOK
  <2>4. HeldCached' /\ ModelFound'
    BY <1>2, <1>3, <1>4 DEF ServerInv, ServerTypeOK, HeldCached, ModelFound
  <2> QED
    BY <1>1, <2>3, <2>4 DEF ServerInv
<1>5. CASE /\ k \notin Cached /\ models < MaxModels
           /\ models' = models + 1
           /\ held' = [held EXCEPT ![c] = <<k, models + 1>>]
           /\ \E K \in CheckAndCleanCache : model_cache_' = [Erase(K) EXCEPT ![k] = models + 1]
  <2>0. MaxModels \in Nat /\ models \in 0 .. MaxModels /\ model_cache_ \in [Keys -> 0 .. MaxModels]
    BY <1>2, InferServerConstants DEF ServerTypeOK
  <2>1. models + 1 \in 1 .. MaxModels /\ models + 1 \in 0 .. MaxModels
    BY <1>5, <2>0
  <2>2. PICK K \in CheckAndCleanCache : model_cache_' = [Erase(K) EXCEPT ![k] = models + 1]
    BY <1>5
  <2>3. \A x \in K : ~Used(x)
    BY <2>2 DEF CheckAndCleanCache
  <2>4. /\ \A x \in Keys : x # k => model_cache_'[x] = IF x \in K THEN 0 ELSE model_cache_[x]
        /\ model_cache_'[k] = models + 1 /\ model_cache_' \in [Keys -> 0 .. MaxModels]
    BY <2>0, <2>1, <2>2 DEF Erase
  <2>5. held' \in [Clients -> {None} \cup (Keys \X (1 .. MaxModels))]
    BY <1>2, <1>5, <2>1 DEF ServerTypeOK
  <2>6. ServerTypeOK'
    BY <1>2, <1>3, <1>5, <2>1, <2>4, <2>5 DEF ServerTypeOK
  <2>7. HeldCached'
    <3> SUFFICES ASSUME ~unloaded, NEW d \in Clients, held'[d] # None
                 PROVE  model_cache_'[held'[d][1]] = held'[d][2]
      BY <1>3 DEF HeldCached
    <3>1. CASE d = c
      BY <3>1, <1>2, <1>5, <2>4 DEF ServerTypeOK
    <3>2. CASE d # c
      <4>1. held'[d] = held[d]
        BY <3>2, <1>2, <1>5 DEF ServerTypeOK
      <4>2. /\ held[d][1] \in Keys /\ held[d] = <<held[d][1], held[d][2]>> /\ held[d][2] # 0
        BY <4>1, <1>2, HeldType
      <4>3. model_cache_[held[d][1]] = held[d][2]
        BY <4>1 DEF ServerInv, HeldCached
      <4>4. held[d][1] # k
        BY <4>2, <4>3, <1>5 DEF Cached
      <4>5. Used(held[d][1])
        BY <4>2, <4>3 DEF Used
      <4> QED
        BY <4>1, <4>2, <4>3, <4>4, <4>5, <2>3, <2>4
    <3> QED
      BY <3>1, <3>2
  <2>8. ModelFound'
    BY <1>3 DEF ServerInv, ModelFound
  <2> QED
    BY <1>1, <2>6, <2>7, <2>8 DEF ServerInv
<1> QED
  BY <1>4, <1>5 DEF LoadModel

LEMMA UnloadStep ==
  ASSUME ServerInv, NEW c \in Clients, NEW K \in SUBSET Keys, UnloadModel(c, K) \/ Drop(c)
  PROVE  ServerInv'
<1>1. /\ Registered' /\ Attached' /\ NoOverlap' /\ ExecutorAlive'
      /\ CountsExact' /\ SentCovers' /\ LoadReserved' /\ Threads'
  BY CacheKeepsRest DEF UnloadModel, Drop
<1>2. ServerTypeOK
  BY DEF ServerInv
<1>3. UNCHANGED <<executor_map_, mutex, tp, sessions, exec, client, reqs, sent, crashed, models>>
  BY DEF UnloadModel, Drop, registry, flow
<1>4. CASE UnloadModel(c, K)
  <2>1. model_cache_' \in [Keys -> 0 .. MaxModels] /\ unloaded' = TRUE /\ held' = held
    BY <1>2, <1>4, InferServerConstants DEF UnloadModel, Erase, ServerTypeOK
  <2>2. ServerTypeOK'
    BY <1>2, <1>3, <2>1 DEF ServerTypeOK
  <2>3. HeldCached' /\ ModelFound'
    BY <2>1 DEF HeldCached, ModelFound
  <2> QED
    BY <1>1, <2>2, <2>3 DEF ServerInv
<1>5. CASE Drop(c)
  <2>1. held' = [held EXCEPT ![c] = None] /\ UNCHANGED <<model_cache_, unloaded>>
    BY <1>5 DEF Drop
  <2>2. held' \in [Clients -> {None} \cup (Keys \X (1 .. MaxModels))]
    BY <1>2, <2>1 DEF ServerTypeOK
  <2>3. ServerTypeOK'
    BY <1>2, <1>3, <2>1, <2>2 DEF ServerTypeOK
  <2>4. HeldCached' /\ ModelFound'
    BY <1>2, <1>3, <2>1 DEF ServerInv, ServerTypeOK, HeldCached, ModelFound
  <2> QED
    BY <1>1, <2>3, <2>4 DEF ServerInv
<1> QED
  BY <1>4, <1>5

LEMMA CallsFields ==
  /\ \A x \in Calls : /\ x.pc \in Linked \cup Unlinked /\ x.ex \in 0 .. MaxExecs
                      /\ x.n \in {0} \cup PackSizes /\ x.timed \in BOOLEAN
  /\ Idle \in Calls /\ Idle.pc = "idle" /\ Idle.ex = 0
  /\ \A c \in Clients : ServerTypeOK => client[c] \in Calls
<1>1. Idle \in Calls
  BY InferServerConstants DEF Idle, Calls, Linked, Unlinked
<1> QED
  BY <1>1 DEF Calls, Idle, ServerTypeOK

LEMMA GotoSets ==
  ASSUME ServerTypeOK, NEW c \in Clients, NEW p \in Linked \cup Unlinked, Goto(c, p)
  PROVE  /\ client' \in [Clients -> Calls] /\ client'[c].pc = p
         /\ client'[c].ex = client[c].ex /\ client'[c].n = client[c].n
         /\ \A d \in Clients : d # c => client'[d] = client[d]
<1>1. client \in [Clients -> Calls]
  BY DEF ServerTypeOK
<1>2. client[c] \in Calls
  BY <1>1
<1>3. [client[c] EXCEPT !.pc = p] \in Calls
  BY <1>2 DEF Calls
<1> QED
  BY <1>1, <1>2, <1>3 DEF Goto, Calls

LEMMA ClientSets ==
  ASSUME ServerTypeOK, NEW c \in Clients, NEW r \in Calls, client' = [client EXCEPT ![c] = r]
  PROVE  /\ client' \in [Clients -> Calls] /\ client'[c] = r
         /\ \A d \in Clients : d # c => client'[d] = client[d]
BY DEF ServerTypeOK

LEMMA ReadySets ==
  ASSUME ServerTypeOK, NEW c \in Clients
  PROVE  Ready(c) \in Calls /\ Ready(c).pc = "ready" /\ Ready(c).ex = client[c].ex
<1>1. client[c].ex \in 0 .. MaxExecs
  BY CallsFields
<1> QED
  BY <1>1, CallsFields DEF Ready, Idle, Calls, Linked

\* A client with a session goes on in a call: its executor, its session and its
\* requests stay.
LEMMA LinkedMove ==
  ASSUME ServerInv, NEW c \in Clients,
         client' \in [Clients -> Calls], \A d \in Clients : d # c => client'[d] = client[d],
         UNCHANGED <<cache, executor_map_, mutex, tp, sessions, exec, reqs, crashed>>,
         client'[c].ex = client[c].ex,
         client[c].pc \in Linked, client'[c].pc \in Linked,
         client'[c].pc \in WaitsForRoom => client'[c].n \in PackSizes,
         sent' \in 0 .. MaxReqs
  PROVE  /\ ServerTypeOK' /\ Registered' /\ Attached' /\ ExecutorAlive' /\ CountsExact'
         /\ Threads' /\ HeldCached' /\ ModelFound'
         /\ (client'[c].pc = "lock" => (Serialised => Creating = {})) => NoOverlap'
<1>1. UNCHANGED <<model_cache_, models, held, unloaded>>
  BY DEF cache
<1>2. ServerTypeOK
  BY DEF ServerInv
<1>3. ServerTypeOK'
  BY <1>1, <1>2 DEF ServerTypeOK
<1>4. Registered' /\ HeldCached' /\ ModelFound'
  BY <1>1 DEF ServerInv, Registered, HeldCached, ModelFound
<1>5. /\ client[c].pc \notin {"idle", "grow", "link", "delete", "shrink"}
      /\ client'[c].pc \notin {"idle", "grow", "link", "delete", "shrink"}
  BY DEF Linked, WaitsForRoom
<1>6. Attached'
  <2> SUFFICES ASSUME NEW d \in Clients
               PROVE  /\ client'[d].pc = "idle" <=> client'[d].ex = 0
                      /\ client'[d].ex # 0 => client'[d].ex \in DOMAIN exec
                      /\ client'[d].pc \in {"idle", "grow", "link", "shrink"} => reqs[d] = <<>>
                      /\ client'[d].pc \in Linked => d \in exec[client'[d].ex].links
                      /\ client'[d].pc \in WaitsForRoom => client'[d].n \in PackSizes
                      /\ client'[d].pc = "delete" <=> mutex = d
    BY DEF Attached
  <2>1. CASE d # c
    BY <2>1 DEF ServerInv, Attached
  <2>2. CASE d = c
    BY <2>2, <1>5 DEF ServerInv, Attached
  <2> QED
    BY <2>1, <2>2
<1>7. ExecutorAlive'
  BY <1>5 DEF ServerInv, ExecutorAlive, Alive
<1>8. CountsExact'
  <2>1. \A d \in Clients : client'[d].ex = client[d].ex
    OBVIOUS
  <2> QED
    BY <2>1, <1>2, CountsFrame DEF ServerInv
<1>9. Threads'
  <2>1. \A d \in Clients : client[d].pc = "grow" => client'[d].pc = "grow"
    BY <1>5
  <2> QED
    BY <2>1 DEF ServerInv, Threads
<1>10. (client'[c].pc = "lock" => (Serialised => Creating = {})) => NoOverlap'
  <2>1. Creating' = Creating
    BY <1>5 DEF Creating
  <2>2. client'[c].pc # "lock" => Destroying' \subseteq Destroying
    BY <1>5 DEF Destroying
  <2> QED
    BY <2>1, <2>2 DEF ServerInv, NoOverlap
<1> QED
  BY <1>3, <1>4, <1>6, <1>7, <1>8, <1>9, <1>10

\* The waits of Request and RequestSync: a client gets to "upload" only when it
\* finds room.
LEMMA WaitSteps ==
  ASSUME ServerInv, NEW c \in Clients,
         Sleep(c) \/ Wake(c) \/ Timeout(c) \/ TimeUsedUp(c) \/ SyncTimeout(c) \/ DestroySession(c)
  PROVE  ServerInv'
<1>1. ServerTypeOK
  BY DEF ServerInv
<1>2. UNCHANGED <<cache, executor_map_, mutex, tp, sessions, exec, reqs, sent, crashed>>
  BY DEF Sleep, Wake, Timeout, TimeUsedUp, SyncTimeout, DestroySession, registry, flow
<1>3. client[c].pc \in Linked
  BY DEF Sleep, Wake, Timeout, TimeUsedUp, SyncTimeout, DestroySession, Linked, WaitsForRoom
<1>4. \/ Goto(c, "asleep") /\ client[c].pc = "full"
      \/ Goto(c, "full") /\ client[c].pc = "woken"
      \/ Goto(c, "upload") /\ client[c].pc \in {"woken", "asleep"} /\ Room(client[c].ex)
      \/ Goto(c, "lock") /\ client[c].pc = "ready" /\ (Serialised => Creating = {})
      \/ client' = [client EXCEPT ![c] = Ready(c)]
  BY DEF Sleep, Wake, Timeout, TimeUsedUp, SyncTimeout, DestroySession
<1>5. /\ client' \in [Clients -> Calls] /\ client'[c].ex = client[c].ex
      /\ \A d \in Clients : d # c => client'[d] = client[d]
      /\ \/ client'[c].n = client[c].n /\ client[c].pc \in WaitsForRoom /\ client'[c].pc \in WaitsForRoom
         \/ client'[c].pc \in {"lock", "ready"}
      /\ client'[c].pc = "upload" => Room(client[c].ex)
      /\ client'[c].pc = "lock" => (Serialised => Creating = {})
  <2>1. /\ "asleep" \in Linked \cup Unlinked /\ "full" \in Linked \cup Unlinked /\ "upload" \in Linked \cup Unlinked
        /\ "lock" \in Linked \cup Unlinked
    BY DEF Linked, WaitsForRoom
  <2>2. CASE Goto(c, "asleep") /\ client[c].pc = "full"
    BY <2>1, <2>2, <1>1, GotoSets DEF WaitsForRoom
  <2>3. CASE Goto(c, "full") /\ client[c].pc = "woken"
    BY <2>1, <2>3, <1>1, GotoSets DEF WaitsForRoom
  <2>4. CASE Goto(c, "upload") /\ client[c].pc \in {"woken", "asleep"} /\ Room(client[c].ex)
    BY <2>1, <2>4, <1>1, GotoSets DEF WaitsForRoom
  <2>5. CASE Goto(c, "lock") /\ client[c].pc = "ready" /\ (Serialised => Creating = {})
    BY <2>1, <2>5, <1>1, GotoSets
  <2>6. CASE client' = [client EXCEPT ![c] = Ready(c)]
    BY <2>6, <1>1, ReadySets, ClientSets
  <2> QED
    BY <1>4, <2>2, <2>3, <2>4, <2>5, <2>6
<1>6. client'[c].pc \in Linked /\ (client'[c].pc \in WaitsForRoom => client'[c].n \in PackSizes)
  BY <1>5 DEF ServerInv, Attached, Linked, WaitsForRoom
<1>7. sent' \in 0 .. MaxReqs
  BY <1>1, <1>2 DEF ServerTypeOK
<1>8. /\ ServerTypeOK' /\ Registered' /\ Attached' /\ ExecutorAlive' /\ CountsExact'
      /\ Threads' /\ HeldCached' /\ ModelFound' /\ NoOverlap'
  BY <1>2, <1>3, <1>5, <1>6, <1>7, LinkedMove
<1>9. SentCovers'
  <2>1. Waiting' \subseteq Waiting
    BY <1>5 DEF Waiting, WaitsForRoom
  <2> QED
    BY <2>1, <1>1, <1>2, SentFrame DEF ServerInv
<1>10. LoadReserved'
  <2>1. \A e \in DOMAIN exec : exec[e].unit \in Nat
    BY <1>1 DEF ServerTypeOK, Executors
  <2>2. \A e \in DOMAIN exec : exec[e].unit < MaxLoad \/ Uploaders(e)' \subseteq Uploaders(e)
    <3>1. CASE client'[c].pc # "upload"
      BY <3>1, <1>5 DEF Uploaders, Users
    <3>2. CASE client'[c].pc = "upload"
      <4>1. exec[client[c].ex].unit < MaxLoad
        BY <3>2, <1>5 DEF Room
      <4>2. \A e : e # client[c].ex => Uploaders(e)' \subseteq Uploaders(e)
        BY <1>5 DEF Uploaders, Users
      <4> QED
        BY <4>1, <4>2
    <3> QED
      BY <3>1, <3>2
  <2>3. \A e \in DOMAIN exec : exec[e].unit <= exec[e].unit
    BY <2>1
  <2> QED
    BY <2>1, <2>2, <2>3, <1>1, <1>2, LoadFrame DEF ServerInv
<1> QED
  BY <1>8, <1>9, <1>10 DEF ServerInv

\* A request is made: one more is on its way.
LEMMA RequestStep ==
  ASSUME ServerInv, NEW c \in Clients, NEW n \in PackSizes, NEW timed \in BOOLEAN, Request(c, n, timed)
  PROVE  ServerInv'
<1>1. ServerTypeOK
  BY DEF ServerInv
<1>2. /\ UNCHANGED <<cache, executor_map_, mutex, tp, sessions, exec, reqs, crashed>>
      /\ client[c].pc = "ready" /\ sent' = sent + 1 /\ sent < MaxReqs
  BY DEF Request, registry
<1> DEFINE p == IF Room(client[c].ex) THEN "upload" ELSE "full"
<1>3. /\ client' \in [Clients -> Calls] /\ client'[c].ex = client[c].ex /\ client'[c].n = n
      /\ \A d \in Clients : d # c => client'[d] = client[d]
      /\ client'[c].pc \in {"upload", "full"} /\ (client'[c].pc = "upload" => Room(client[c].ex))
  <2>1. p \in {"upload", "full"} /\ (p = "upload" => Room(client[c].ex))
    OBVIOUS
  <2>2. client' = [client EXCEPT ![c] = [@ EXCEPT !.pc = p, !.n = n, !.timed = timed]]
    BY DEF Request
  <2> HIDE DEF p
  <2>3. client[c] \in Calls
    BY <1>1, CallsFields
  <2>4. PICK r : r = [client[c] EXCEPT !.pc = p, !.n = n, !.timed = timed]
    OBVIOUS
  <2>5. r \in Calls /\ r.pc = p /\ r.n = n /\ r.ex = client[c].ex
    BY <2>1, <2>3, <2>4 DEF Calls, Linked, WaitsForRoom
  <2>6. client' = [client EXCEPT ![c] = r]
    BY <2>2, <2>4
  <2> QED
    BY <2>1, <2>5, <2>6, <1>1, ClientSets
<1>4. client'[c].pc \in Linked /\ client[c].pc \in Linked /\ client'[c].pc # "lock" /\ client[c].pc \notin WaitsForRoom
      /\ client'[c].pc \in WaitsForRoom
  BY <1>2, <1>3 DEF Linked, WaitsForRoom
<1>5. sent \in Nat /\ sent' \in 0 .. MaxReqs
  BY <1>1, <1>2, InferServerConstants DEF ServerTypeOK
<1>6. /\ ServerTypeOK' /\ Registered' /\ Attached' /\ ExecutorAlive' /\ CountsExact'
      /\ Threads' /\ HeldCached' /\ ModelFound' /\ NoOverlap'
  BY <1>2, <1>3, <1>4, <1>5, LinkedMove
<1>7. SentCovers'
  <2>1. PICK W : W = Waiting'
    OBVIOUS
  <2>2. W = Waiting \cup {c} /\ c \notin Waiting
    BY <2>1, <1>3, <1>4 DEF Waiting
  <2>3. Cardinality(W) = Cardinality(Waiting) + 1 /\ Cardinality(Waiting) \in Nat
    BY <2>2, WaitingFinite, FS_AddElement
  <2>4. Cardinality(RequestsIn(Clients, reqs)) \in Nat
    BY InFinite
  <2>5. Cardinality(RequestsIn(Clients, reqs)) + Cardinality(W) <= sent + 1
    BY <2>3, <2>4, <1>5 DEF ServerInv, SentCovers
  <2>6. \A d \in Clients : Len(reqs[d]) + (IF d \in W THEN 1 ELSE 0) <= sent + 1
    <3> SUFFICES ASSUME NEW d \in Clients PROVE Len(reqs[d]) + (IF d \in W THEN 1 ELSE 0) <= sent + 1
      OBVIOUS
    <3>1. PICK l \in Nat : l = Len(reqs[d])
      BY <1>1 DEF ServerTypeOK
    <3>2. l + (IF d \in Waiting THEN 1 ELSE 0) <= sent
      BY <3>1 DEF ServerInv, SentCovers
    <3>3. l + 1 <= sent \/ l + 0 <= sent
      BY <3>2
    <3>4. l + 1 <= sent + 1 /\ l + 0 <= sent + 1
      BY <3>3, <1>5
    <3> QED
      BY <3>1, <3>4
  <2> QED
    BY <1>2, <2>1, <2>5, <2>6 DEF SentCovers
<1>8. LoadReserved'
  <2>1. \A e \in DOMAIN exec : exec[e].unit \in Nat /\ exec[e].unit <= exec[e].unit
    BY <1>1 DEF ServerTypeOK, Executors
  <2>2. client'[c].pc = "upload" => exec[client[c].ex].unit < MaxLoad
    BY <1>3 DEF Room
  <2>3. \A e : e # client[c].ex \/ client'[c].pc # "upload" => Uploaders(e)' \subseteq Uploaders(e)
    BY <1>3 DEF Uploaders, Users
  <2>4. \A e \in DOMAIN exec : exec[e].unit < MaxLoad \/ Uploaders(e)' \subseteq Uploaders(e)
    BY <2>2, <2>3
  <2> QED
    BY <2>1, <2>4, <1>1, <1>2, LoadFrame DEF ServerInv
<1> QED
  BY <1>6, <1>7, <1>8 DEF ServerInv

\* The executor of a client with a session, and its entry.
LEMMA ExecutorOf ==
  ASSUME ServerInv, NEW c \in Clients, client[c].pc # "idle"
  PROVE  /\ client[c].ex \in DOMAIN exec /\ exec[client[c].ex] \in Executors
         /\ exec[client[c].ex].links \in SUBSET Clients /\ exec[client[c].ex].key \in Keys
         /\ exec[client[c].ex].req \in 0 .. MaxReqs /\ exec[client[c].ex].unit \in Nat
<1>1. client[c].ex \in DOMAIN exec
  BY DEF ServerInv, Attached
<1>2. exec[client[c].ex] \in Executors
  BY <1>1 DEF ServerInv, ServerTypeOK
<1> QED
  BY <1>1, <1>2 DEF Executors

\* What changes when the entry of one executor does.
LEMMA ExecutorSets ==
  ASSUME ServerTypeOK, NEW e \in DOMAIN exec, NEW x \in Executors, exec' = [exec EXCEPT ![e] = x]
  PROVE  /\ \E n \in 0 .. MaxExecs : exec' \in [1 .. n -> Executors]
         /\ DOMAIN exec' = DOMAIN exec /\ exec'[e] = x /\ \A i \in DOMAIN exec : i # e => exec'[i] = exec[i]
<1>1. PICK n \in 0 .. MaxExecs : exec \in [1 .. n -> Executors]
  BY DEF ServerTypeOK
<1>2. exec' \in [1 .. n -> Executors]
  BY <1>1
<1> QED
  BY <1>1, <1>2

\* A request in the server was made.
LEMMA LenBound ==
  ASSUME ServerInv, NEW c \in Clients
  PROVE  /\ Len(reqs[c]) \in Nat /\ Len(reqs[c]) <= MaxReqs
         /\ client[c].pc \in WaitsForRoom => Len(reqs[c]) + 1 <= MaxReqs
<1>1. Len(reqs[c]) \in Nat /\ sent \in 0 .. MaxReqs /\ MaxReqs \in Nat
  BY InferServerConstants DEF ServerInv, ServerTypeOK
<1>2. PICK l \in Nat : l = Len(reqs[c])
  BY <1>1
<1>3. l + (IF c \in Waiting THEN 1 ELSE 0) <= sent
  BY <1>2 DEF ServerInv, SentCovers
<1>4. l + 1 <= sent \/ l + 0 <= sent
  BY <1>3
<1>5. c \in Waiting => l + 1 <= sent
  BY <1>3
<1>6. client[c].pc \in WaitsForRoom => c \in Waiting
  BY DEF Waiting
<1> QED
  BY <1>1, <1>2, <1>4, <1>5, <1>6

\* Only the counters of one executor change and no client goes to another executor,
\* into or out of the states of CreateSession and DestroySession.
LEMMA CountersMove ==
  ASSUME ServerInv, NEW e \in DOMAIN exec, NEW x \in Executors,
         exec' = [exec EXCEPT ![e] = x], x.key = exec[e].key, x.links = exec[e].links,
         client' \in [Clients -> Calls], reqs' \in [Clients -> Seq(PackSizes)],
         \A d \in Clients : /\ client'[d].ex = client[d].ex
                            /\ \/ client'[d].pc = client[d].pc /\ client'[d].n = client[d].n
                               \/ /\ client[d].pc \in Linked /\ client'[d].pc \in Linked \ {"lock"}
                                  /\ client'[d].pc \in WaitsForRoom => client'[d].n \in PackSizes
                            /\ client[d].pc \in Unlinked /\ reqs[d] = <<>> => reqs'[d] = <<>>,
         UNCHANGED <<cache, executor_map_, mutex, tp, sessions, sent, crashed>>
  PROVE  /\ ServerTypeOK' /\ Registered' /\ Attached' /\ NoOverlap' /\ ExecutorAlive'
         /\ Threads' /\ HeldCached' /\ ModelFound'
<1>1. UNCHANGED <<model_cache_, models, held, unloaded>>
  BY DEF cache
<1>2. ServerTypeOK
  BY DEF ServerInv
<1>3. /\ \E n \in 0 .. MaxExecs : exec' \in [1 .. n -> Executors]
      /\ DOMAIN exec' = DOMAIN exec /\ exec'[e] = x /\ \A i \in DOMAIN exec : i # e => exec'[i] = exec[i]
  BY <1>2, ExecutorSets
<1>4. \A i \in DOMAIN exec : exec'[i].key = exec[i].key /\ exec'[i].links = exec[i].links
  BY <1>3
<1>5. ServerTypeOK'
  BY <1>1, <1>2, <1>3 DEF ServerTypeOK
<1>6. Registered' /\ HeldCached' /\ ModelFound'
  BY <1>1, <1>3, <1>4 DEF ServerInv, Registered, HeldCached, ModelFound
<1>7. \A d \in Clients : \A p \in Unlinked \cup {"lock"} : client'[d].pc = p => client[d].pc = p
  BY DEF Linked, Unlinked, WaitsForRoom
<1>8. \A d \in Clients : \A p \in Unlinked : client[d].pc = p => client'[d].pc = p
  BY DEF Linked, Unlinked, WaitsForRoom
<1>9. Attached'
  <2> SUFFICES ASSUME NEW d \in Clients
               PROVE  /\ client'[d].pc = "idle" <=> client'[d].ex = 0
                      /\ client'[d].ex # 0 => client'[d].ex \in DOMAIN exec'
                      /\ client'[d].pc \in {"idle", "grow", "link", "shrink"} => reqs'[d] = <<>>
                      /\ client'[d].pc \in Linked => d \in exec'[client'[d].ex].links
                      /\ client'[d].pc \in WaitsForRoom => client'[d].n \in PackSizes
                      /\ client'[d].pc = "delete" <=> mutex = d
    BY DEF Attached
  <2>1. /\ client[d].pc = "idle" <=> client[d].ex = 0
        /\ client[d].ex # 0 => client[d].ex \in DOMAIN exec
        /\ client[d].pc \in {"idle", "grow", "link", "shrink"} => reqs[d] = <<>>
        /\ client[d].pc \in Linked => d \in exec[client[d].ex].links
        /\ client[d].pc \in WaitsForRoom => client[d].n \in PackSizes
        /\ client[d].pc = "delete" <=> mutex = d
    BY DEF ServerInv, Attached
  <2>2. client'[d].pc = "idle" <=> client'[d].ex = 0
    BY <2>1, <1>7, <1>8 DEF Unlinked
  <2>3. client'[d].pc = "delete" <=> mutex = d
    BY <2>1, <1>7, <1>8 DEF Unlinked
  <2>4. client'[d].pc \in {"idle", "grow", "link", "shrink"} => reqs'[d] = <<>>
    BY <2>1, <1>7 DEF Unlinked
  <2>5. client'[d].ex # 0 => client'[d].ex \in DOMAIN exec'
    BY <2>1, <1>3
  <2>6. client'[d].pc \in Linked => d \in exec'[client'[d].ex].links
    <3>1. client'[d].pc \in Linked => client[d].pc \in Linked /\ client[d].pc # "idle"
      BY DEF Linked, WaitsForRoom
    <3> QED
      BY <2>1, <3>1, <1>4
  <2>7. client'[d].pc \in WaitsForRoom => client'[d].n \in PackSizes
    BY <2>1
  <2> QED
    BY <2>2, <2>3, <2>4, <2>5, <2>6, <2>7
<1>10. NoOverlap'
  <2>1. Creating' \subseteq Creating /\ Destroying' \subseteq Destroying
    BY <1>7 DEF Creating, Destroying, Unlinked
  <2> QED
    BY <2>1 DEF ServerInv, NoOverlap
<1>11. ExecutorAlive'
  <2> SUFFICES ASSUME Serialised, NEW d \in Clients, client'[d].pc \notin {"idle", "shrink"}
               PROVE  executor_map_[exec'[client'[d].ex].key] = client'[d].ex
    BY DEF ExecutorAlive, Alive
  <2>1. client[d].pc \notin {"idle", "shrink"}
    BY <1>8 DEF Unlinked
  <2>2. executor_map_[exec[client[d].ex].key] = client[d].ex
    BY <2>1 DEF ServerInv, ExecutorAlive, Alive
  <2>3. client[d].ex \in DOMAIN exec
    BY <2>1, ExecutorOf
  <2> QED
    BY <2>2, <2>3, <1>4
<1>12. Threads'
  BY <1>3, <1>8 DEF ServerInv, Threads, Unlinked
<1> QED
  BY <1>5, <1>6, <1>9, <1>10, <1>11, <1>12

LEMMA SendStep ==
  ASSUME ServerInv, NEW c \in Clients, Send(c)
  PROVE  ServerInv'
<1>1. ServerTypeOK
  BY DEF ServerInv
<1>2. UNCHANGED <<cache, executor_map_, mutex, tp, sessions, sent, crashed>> /\ client[c].pc = "upload"
  BY DEF Send, registry
<1>3. PICK e : e = client[c].ex
  OBVIOUS
<1>4. PICK n \in PackSizes : n = client[c].n
  BY <1>2 DEF ServerInv, Attached, WaitsForRoom
<1>5. n \in Nat /\ n <= Largest /\ Largest \in Nat /\ MaxReqs \in Nat /\ sent \in 0 .. MaxReqs /\ MaxLoad \in Nat
  BY <1>1, LargestPack, InferServerConstants DEF ServerTypeOK
<1>6. e \in DOMAIN exec /\ exec[e] \in Executors /\ exec[e].req \in Nat /\ exec[e].unit \in Nat
  BY <1>2, <1>3, <1>5, ExecutorOf
<1>7. PICK x : x = Upload(exec[e], n)
  OBVIOUS
<1>8. x.key = exec[e].key /\ x.links = exec[e].links /\ x.req = exec[e].req + 1 /\ x.unit = exec[e].unit + n
  BY <1>6, <1>7 DEF Upload, Executors
<1>9. exec' = [exec EXCEPT ![e] = x] /\ reqs' = [reqs EXCEPT ![c] = Append(@, n)]
  BY <1>3, <1>4, <1>7 DEF Send
<1>10. PICK z : z = reqs'
  OBVIOUS
<1>11. /\ reqs \in [Clients -> Seq(PackSizes)] /\ reqs' = z /\ z \in [Clients -> Seq(PackSizes)]
       /\ z[c] = Append(reqs[c], n) /\ \A d \in Clients : d # c => z[d] = reqs[d]
  BY <1>1, <1>9, <1>10 DEF ServerTypeOK
<1>12. Len(reqs[c]) + 1 <= MaxReqs /\ Len(reqs[c]) \in Nat
  BY <1>2, LenBound DEF WaitsForRoom
<1>0. Added(reqs, z, c, n)
  BY <1>4, <1>11, <1>12 DEF Added
<1>13. /\ client' \in [Clients -> Calls] /\ client'[c].ex = e /\ client'[c].pc \in {"wait", "ready"}
       /\ \A d \in Clients : d # c => client'[d] = client[d]
  <2>1. client[c] \in Calls /\ client \in [Clients -> Calls]
    BY <1>1 DEF ServerTypeOK
  <2>2. CASE c \in Sync
    <3>1. [client[c] EXCEPT !.pc = "wait", !.n = 0] \in Calls
      BY <2>1 DEF Calls, Linked
    <3>2. client' = [client EXCEPT ![c].pc = "wait", ![c].n = 0]
      BY <2>2 DEF Send
    <3>3. client' = [client EXCEPT ![c] = [client[c] EXCEPT !.pc = "wait", !.n = 0]]
      BY <3>2, <2>1 DEF Calls
    <3>4. PICK r \in Calls : r = [client[c] EXCEPT !.pc = "wait", !.n = 0]
      BY <3>1
    <3>5. r.pc = "wait" /\ r.ex = e
      BY <3>4, <2>1, <1>3 DEF Calls
    <3> QED
      BY <3>3, <3>4, <3>5, <1>1, ClientSets
  <2>3. CASE c \notin Sync
    BY <2>3, <1>1, <1>3, ReadySets, ClientSets DEF Send
  <2> QED
    BY <2>2, <2>3
<1>14. PICK U \in SUBSET Clients : U = Users(e)
  BY DEF Users
<1>15. c \in U
  BY <1>3, <1>14 DEF Users
<1>16. /\ Cardinality(RequestsIn(U, z)) = exec[e].req + 1
       /\ Cardinality(UnitsIn(U, z)) = exec[e].unit + n
  <2>1. /\ Cardinality(RequestsIn(U, z)) = Cardinality(RequestsIn(U, reqs)) + 1
        /\ Cardinality(UnitsIn(U, z)) = Cardinality(UnitsIn(U, reqs)) + n
    BY <1>0, <1>15, RequestAdded
  <2> QED
    BY <2>1, <1>6, <1>14 DEF ServerInv, CountsExact
<1>17. PICK W : W = Waiting'
  OBVIOUS
<1>18. W = Waiting \ {c} /\ c \in Waiting
  BY <1>2, <1>13, <1>17 DEF Waiting, WaitsForRoom
<1>19. Cardinality(W) = Cardinality(Waiting) - 1 /\ Cardinality(Waiting) \in Nat /\ IsFiniteSet(W) /\ Cardinality(W) \in Nat
  <2>1. IsFiniteSet(W) /\ Cardinality(W) = Cardinality(Waiting) - 1
    BY <1>18, WaitingFinite, FS_RemoveElement
  <2> QED
    BY <2>1, WaitingFinite, FS_CardinalityType
<1>20. Cardinality(RequestsIn(Clients, z)) = Cardinality(RequestsIn(Clients, reqs)) + 1
  <2>1. Clients \in SUBSET Clients
    OBVIOUS
  <2> QED
    BY <2>1, <1>0, RequestAdded
<1>21. Cardinality(RequestsIn(Clients, reqs)) \in Nat /\ Cardinality(RequestsIn(Clients, z)) \in Nat
  BY InFinite
<1>22. Cardinality(RequestsIn(Clients, z)) + Cardinality(W) <= sent
  BY <1>5, <1>19, <1>20, <1>21 DEF ServerInv, SentCovers
<1>23. x \in Executors
  <2>1. RequestsIn(U, z) \in SUBSET RequestsIn(Clients, z)
    BY DEF RequestsIn
  <2>2. Cardinality(RequestsIn(U, z)) <= Cardinality(RequestsIn(Clients, z))
    BY <2>1, InFinite, FS_Subset
  <2>3. Cardinality(RequestsIn(Clients, z)) <= sent
    BY <1>5, <1>19, <1>21, <1>22
  <2>4. exec[e].req + 1 \in 0 .. MaxReqs
    BY <2>2, <2>3, <1>5, <1>6, <1>16, <1>21
  <2>5. exec[e].unit + n \in Nat
    BY <1>5, <1>6
  <2> QED
    BY <2>4, <2>5, <1>6, <1>7 DEF Upload, Executors
<1>24. /\ ServerTypeOK' /\ Registered' /\ Attached' /\ NoOverlap' /\ ExecutorAlive'
       /\ Threads' /\ HeldCached' /\ ModelFound'
  <2>1. \A d \in Clients : /\ client'[d].ex = client[d].ex
                           /\ \/ client'[d].pc = client[d].pc /\ client'[d].n = client[d].n
                              \/ /\ client[d].pc \in Linked /\ client'[d].pc \in Linked \ {"lock"}
                                 /\ client'[d].pc \in WaitsForRoom => client'[d].n \in PackSizes
                           /\ client[d].pc \in Unlinked /\ reqs[d] = <<>> => reqs'[d] = <<>>
    <3> SUFFICES ASSUME NEW d \in Clients
                 PROVE  /\ client'[d].ex = client[d].ex
                        /\ \/ client'[d].pc = client[d].pc /\ client'[d].n = client[d].n
                           \/ /\ client[d].pc \in Linked /\ client'[d].pc \in Linked \ {"lock"}
                              /\ client'[d].pc \in WaitsForRoom => client'[d].n \in PackSizes
                        /\ client[d].pc \in Unlinked /\ reqs[d] = <<>> => reqs'[d] = <<>>
      OBVIOUS
    <3>1. CASE d # c
      BY <3>1, <1>9, <1>11, <1>13
    <3>2. CASE d = c
      BY <3>2, <1>2, <1>3, <1>13 DEF Linked, Unlinked, WaitsForRoom
    <3> QED
      BY <3>1, <3>2
  <2> QED
    BY <2>1, <1>2, <1>6, <1>8, <1>9, <1>11, <1>13, <1>23, CountersMove
<1>25. DOMAIN exec' = DOMAIN exec /\ exec'[e] = x /\ \A i \in DOMAIN exec : i # e => exec'[i] = exec[i]
  BY <1>1, <1>6, <1>9, <1>23, ExecutorSets
<1>26. CountsExact'
  <2> SUFFICES ASSUME NEW i \in DOMAIN exec
               PROVE  /\ exec'[i].req = Cardinality(RequestsIn(Users(i)', z))
                      /\ exec'[i].unit = Cardinality(UnitsIn(Users(i)', z))
    BY <1>11, <1>25 DEF CountsExact
  <2>1. PICK C \in SUBSET Clients : C = Users(i)
    BY DEF Users
  <2>2. Users(i)' = C
    BY <2>1, <1>3, <1>13 DEF Users
  <2>3. CASE i = e
    BY <2>1, <2>2, <2>3, <1>8, <1>14, <1>16, <1>25
  <2>4. CASE i # e
    <3>1. c \notin C
      BY <2>1, <2>4, <1>3 DEF Users
    <3>2. RequestsIn(C, z) = RequestsIn(C, reqs) /\ UnitsIn(C, z) = UnitsIn(C, reqs)
      BY <3>1, <1>0, RequestAdded
    <3> QED
      BY <2>1, <2>2, <2>4, <3>2, <1>25 DEF ServerInv, CountsExact
  <2> QED
    BY <2>3, <2>4
<1>27. SentCovers'
  <2>1. \A d \in Clients : Len(z[d]) + (IF d \in W THEN 1 ELSE 0) <= sent
    <3> SUFFICES ASSUME NEW d \in Clients PROVE Len(z[d]) + (IF d \in W THEN 1 ELSE 0) <= sent
      OBVIOUS
    <3>1. CASE d # c
      <4>1. z[d] = reqs[d] /\ (d \in W <=> d \in Waiting)
        BY <3>1, <1>10, <1>11, <1>18
      <4> QED
        BY <4>1 DEF ServerInv, SentCovers
    <3>2. CASE d = c
      <4>1. Len(z[d]) = Len(reqs[c]) + 1
        BY <3>2, <1>10, <1>11, <1>4
      <4>2. Len(reqs[c]) + 1 <= sent
        BY <1>18 DEF ServerInv, SentCovers
      <4>3. d \notin W
        BY <3>2, <1>18
      <4>4. PICK l \in Nat : l = Len(reqs[c])
        BY <1>12
      <4>5. l + 1 + 0 = l + 1
        OBVIOUS
      <4> QED
        BY <4>1, <4>2, <4>3, <4>4, <4>5
    <3> QED
      BY <3>1, <3>2
  <2> QED
    BY <2>1, <1>2, <1>11, <1>17, <1>22 DEF SentCovers
<1>28. LoadReserved'
  <2> SUFFICES ASSUME NEW i \in DOMAIN exec
               PROVE  exec'[i].unit + Cardinality(Uploaders(i)') * Largest <= MaxLoad - 1 + Cardinality(Clients) * Largest
    BY <1>25 DEF LoadReserved
  <2>1. exec[i].unit + Cardinality(Uploaders(i)) * Largest <= MaxLoad - 1 + Cardinality(Clients) * Largest
    BY DEF ServerInv, LoadReserved
  <2>2. CASE i # e
    <3>1. Uploaders(i)' = Uploaders(i)
      BY <2>2, <1>3, <1>13 DEF Uploaders, Users
    <3> QED
      BY <2>1, <2>2, <3>1, <1>25
  <2>3. CASE i = e
    <3>1. PICK V \in SUBSET Clients : V = Uploaders(i)'
      BY DEF Uploaders, Users
    <3>2. PICK P \in SUBSET Clients : P = Uploaders(i)
      BY DEF Uploaders, Users
    <3>3. V = P \ {c} /\ c \in P
      BY <2>3, <3>1, <3>2, <1>2, <1>3, <1>13 DEF Uploaders, Users
    <3>4. /\ IsFiniteSet(P) /\ Cardinality(V) \in Nat /\ Cardinality(P) \in Nat
          /\ Cardinality(V) * Largest \in Nat /\ Cardinality(P) * Largest \in Nat /\ Cardinality(Clients) * Largest \in Nat
      BY UploadersFinite
    <3>5. Cardinality(P) = Cardinality(V) + 1
      <4>1. Cardinality(P \ {c}) = Cardinality(P) - 1
        BY <3>3, <3>4, FS_RemoveElement
      <4> QED
        BY <3>3, <3>4, <4>1
    <3>6. Cardinality(P) * Largest = Cardinality(V) * Largest + Largest
      BY <3>4, <3>5, TimesLargest
    <3>7. exec'[i].unit = exec[e].unit + n
      BY <2>3, <1>8, <1>25
    <3>8. exec[e].unit + Cardinality(P) * Largest <= MaxLoad - 1 + Cardinality(Clients) * Largest
      BY <2>1, <2>3, <3>2
    <3>9. PICK u \in Nat : u = exec[e].unit
      BY <1>6
    <3> HIDE DEF Largest
    <3> QED
      BY <3>1, <3>4, <3>6, <3>7, <3>8, <3>9, <1>5
  <2> QED
    BY <2>2, <2>3
<1> QED
  BY <1>24, <1>26, <1>27, <1>28 DEF ServerInv

LEMMA RespondStep ==
  ASSUME ServerInv, NEW c \in Clients, Respond(c)
  PROVE  ServerInv'
<1>1. ServerTypeOK
  BY DEF ServerInv
<1>2. UNCHANGED <<cache, executor_map_, mutex, tp, sessions, sent, crashed>> /\ reqs[c] # <<>>
  BY DEF Respond, registry
<1>3. PICK e : e = client[c].ex
  OBVIOUS
<1>4. reqs \in [Clients -> Seq(PackSizes)] /\ reqs[c] \in Seq(PackSizes)
  BY <1>1 DEF ServerTypeOK
<1>5. PICK n \in PackSizes : n = Head(reqs[c])
  BY <1>2, <1>4
<1>6. n \in Nat /\ MaxReqs \in Nat /\ sent \in 0 .. MaxReqs
  BY <1>1, LargestPack, InferServerConstants DEF ServerTypeOK
<1>7. client[c].pc \notin {"idle", "grow", "link", "shrink"}
  BY <1>2 DEF ServerInv, Attached
<1>8. e \in DOMAIN exec /\ exec[e] \in Executors /\ exec[e].req \in 0 .. MaxReqs /\ exec[e].unit \in Nat
  BY <1>3, <1>7, ExecutorOf
<1>9. PICK x : x = ReleaseCount(exec[e], n)
  OBVIOUS
<1>10. x.key = exec[e].key /\ x.links = exec[e].links /\ x.req = exec[e].req - 1 /\ x.unit = exec[e].unit - n
  BY <1>8, <1>9 DEF ReleaseCount, Executors
<1>11. exec' = [exec EXCEPT ![e] = x] /\ reqs' = [reqs EXCEPT ![c] = Tail(@)]
  BY <1>3, <1>5, <1>9 DEF Respond
<1>12. PICK z : z = reqs'
  OBVIOUS
<1>13. /\ z \in [Clients -> Seq(PackSizes)]
       /\ z[c] = Tail(reqs[c]) /\ \A d \in Clients : d # c => z[d] = reqs[d]
  BY <1>2, <1>4, <1>11, <1>12
<1>14. Removed(reqs, z, c)
  BY <1>2, <1>4, <1>13, LenBound DEF Removed
<1>15. PICK W \in Notified(e) :
         client' = [d \in Clients |->
            IF d \in W THEN [client[d] EXCEPT !.pc = "woken"]
            ELSE IF d = c /\ client[d].pc = "wait" /\ Len(reqs[d]) = 1 THEN Ready(d)
            ELSE client[d]]
  BY <1>3 DEF Respond
<1>16. \A d \in W : d \in Clients /\ client[d].pc = "asleep"
  BY <1>15 DEF Notified, Sleepers
<1>17. \A d \in Clients : client[d] \in Calls
  BY <1>1, CallsFields
<1>18. \A d \in Clients :
         /\ client'[d] \in Calls /\ client'[d].ex = client[d].ex
         /\ \/ client'[d] = client[d]
            \/ client[d].pc = "asleep" /\ client'[d].pc = "woken" /\ client'[d].n = client[d].n
            \/ client[d].pc = "wait" /\ client'[d].pc = "ready"
  <2> SUFFICES ASSUME NEW d \in Clients
               PROVE  /\ client'[d] \in Calls /\ client'[d].ex = client[d].ex
                      /\ \/ client'[d] = client[d]
                         \/ client[d].pc = "asleep" /\ client'[d].pc = "woken" /\ client'[d].n = client[d].n
                         \/ client[d].pc = "wait" /\ client'[d].pc = "ready"
    OBVIOUS
  <2>1. CASE d \in W
    <3>1. client'[d] = [client[d] EXCEPT !.pc = "woken"] /\ client[d].pc = "asleep"
      BY <2>1, <1>15, <1>16
    <3> QED
      BY <3>1, <1>17 DEF Calls, Linked, WaitsForRoom
  <2>2. CASE d \notin W /\ (d = c /\ client[d].pc = "wait" /\ Len(reqs[d]) = 1)
    <3>1. client'[d] = Ready(d)
      BY <2>2, <1>15
    <3> QED
      BY <3>1, <2>2, <1>1, ReadySets
  <2>3. CASE d \notin W /\ ~(d = c /\ client[d].pc = "wait" /\ Len(reqs[d]) = 1)
    <3>1. client'[d] = client[d]
      BY <2>3, <1>15
    <3> QED
      BY <3>1, <1>17
  <2> QED
    BY <2>1, <2>2, <2>3
<1>19. client' \in [Clients -> Calls]
  BY <1>15, <1>18
<1>20. PICK U \in SUBSET Clients : U = Users(e)
  BY DEF Users
<1>21. c \in U
  BY <1>3, <1>20 DEF Users
<1>22. /\ exec[e].req = Cardinality(RequestsIn(U, z)) + 1
       /\ exec[e].unit = Cardinality(UnitsIn(U, z)) + n
       /\ Cardinality(RequestsIn(U, z)) \in Nat /\ Cardinality(UnitsIn(U, z)) \in Nat
  <2>1. /\ Cardinality(RequestsIn(U, reqs)) = Cardinality(RequestsIn(U, z)) + 1
        /\ Cardinality(UnitsIn(U, reqs)) = Cardinality(UnitsIn(U, z)) + Head(reqs[c])
    BY <1>14, <1>21, RequestAnswered
  <2>2. exec[e].req = Cardinality(RequestsIn(U, reqs)) /\ exec[e].unit = Cardinality(UnitsIn(U, reqs))
    BY <1>8, <1>20 DEF ServerInv, CountsExact
  <2> QED
    BY <2>1, <2>2, <1>5, InFinite
<1>23. /\ x.req = Cardinality(RequestsIn(U, z)) /\ x.unit = Cardinality(UnitsIn(U, z))
       /\ x.req \in 0 .. MaxReqs /\ x.unit \in Nat /\ x.unit <= exec[e].unit
  BY <1>6, <1>8, <1>10, <1>22
<1>24. x \in Executors
  <2>1. exec[e].req - 1 \in 0 .. MaxReqs /\ exec[e].unit - n \in Nat
    BY <1>10, <1>23
  <2> QED
    BY <2>1, <1>8, <1>9 DEF ReleaseCount, Executors
<1>25. /\ ServerTypeOK' /\ Registered' /\ Attached' /\ NoOverlap' /\ ExecutorAlive'
       /\ Threads' /\ HeldCached' /\ ModelFound'
  <2>1. \A d \in Clients : /\ client'[d].ex = client[d].ex
                           /\ \/ client'[d].pc = client[d].pc /\ client'[d].n = client[d].n
                              \/ /\ client[d].pc \in Linked /\ client'[d].pc \in Linked \ {"lock"}
                                 /\ client'[d].pc \in WaitsForRoom => client'[d].n \in PackSizes
                           /\ client[d].pc \in Unlinked /\ reqs[d] = <<>> => reqs'[d] = <<>>
    <3> SUFFICES ASSUME NEW d \in Clients
                 PROVE  /\ client'[d].ex = client[d].ex
                        /\ \/ client'[d].pc = client[d].pc /\ client'[d].n = client[d].n
                           \/ /\ client[d].pc \in Linked /\ client'[d].pc \in Linked \ {"lock"}
                              /\ client'[d].pc \in WaitsForRoom => client'[d].n \in PackSizes
                        /\ client[d].pc \in Unlinked /\ reqs[d] = <<>> => reqs'[d] = <<>>
      OBVIOUS
    <3>1. client[d].pc \in Unlinked /\ reqs[d] = <<>> => reqs'[d] = <<>>
      BY <1>2, <1>12, <1>13
    <3>2. client[d].pc = "asleep" => client[d].n \in PackSizes
      BY DEF ServerInv, Attached, WaitsForRoom
    <3> QED
      BY <3>1, <3>2, <1>18 DEF Linked, WaitsForRoom
  <2> QED
    BY <2>1, <1>2, <1>8, <1>10, <1>11, <1>12, <1>13, <1>19, <1>24, CountersMove
<1>26. DOMAIN exec' = DOMAIN exec /\ exec'[e] = x /\ \A i \in DOMAIN exec : i # e => exec'[i] = exec[i]
  BY <1>1, <1>8, <1>11, <1>24, ExecutorSets
<1>27. CountsExact'
  <2> SUFFICES ASSUME NEW i \in DOMAIN exec
               PROVE  /\ exec'[i].req = Cardinality(RequestsIn(Users(i)', z))
                      /\ exec'[i].unit = Cardinality(UnitsIn(Users(i)', z))
    BY <1>12, <1>26 DEF CountsExact
  <2>1. PICK C \in SUBSET Clients : C = Users(i)
    BY DEF Users
  <2>2. Users(i)' = C
    BY <2>1, <1>18 DEF Users
  <2>3. CASE i = e
    BY <2>1, <2>2, <2>3, <1>20, <1>23, <1>26
  <2>4. CASE i # e
    <3>1. c \notin C
      BY <2>1, <2>4, <1>3 DEF Users
    <3>2. RequestsIn(C, z) = RequestsIn(C, reqs) /\ UnitsIn(C, z) = UnitsIn(C, reqs)
      BY <3>1, <1>14, RequestAnswered
    <3> QED
      BY <2>1, <2>2, <2>4, <3>2, <1>26 DEF ServerInv, CountsExact
  <2> QED
    BY <2>3, <2>4
<1>28. SentCovers'
  <2>1. Waiting' = Waiting
    BY <1>18 DEF Waiting, WaitsForRoom
  <2>2. Clients \in SUBSET Clients
    OBVIOUS
  <2>3. /\ Cardinality(RequestsIn(Clients, reqs)) = Cardinality(RequestsIn(Clients, z)) + 1
        /\ Cardinality(RequestsIn(Clients, z)) \in Nat
    BY <2>2, <1>14, RequestAnswered, InFinite
  <2>4. Cardinality(RequestsIn(Clients, z)) + Cardinality(Waiting) <= sent
    BY <2>3, <1>6, WaitingFinite DEF ServerInv, SentCovers
  <2>5. \A d \in Clients : Len(z[d]) + (IF d \in Waiting THEN 1 ELSE 0) <= sent
    <3> SUFFICES ASSUME NEW d \in Clients PROVE Len(z[d]) + (IF d \in Waiting THEN 1 ELSE 0) <= sent
      OBVIOUS
    <3>1. PICK l \in Nat : l = Len(reqs[d])
      BY <1>4
    <3>2. PICK m \in Nat : m = Len(z[d])
      BY <1>13
    <3>3. m <= l
      <4>1. CASE d # c
        BY <4>1, <3>1, <3>2, <1>13
      <4>2. CASE d = c
        <5>1. Len(Tail(reqs[c])) = Len(reqs[c]) - 1
          BY <1>2, <1>4
        <5> QED
          BY <4>2, <5>1, <3>1, <3>2, <1>13
      <4> QED
        BY <4>1, <4>2
    <3>4. PICK w \in {0, 1} : w = IF d \in Waiting THEN 1 ELSE 0
      OBVIOUS
    <3>5. l + w <= sent
      BY <3>1, <3>4 DEF ServerInv, SentCovers
    <3>6. m + w <= sent
      BY <3>3, <3>5, <1>6
    <3> QED
      BY <3>2, <3>4, <3>6
  <2> QED
    BY <2>1, <2>4, <2>5, <1>2, <1>12 DEF SentCovers
<1>29. LoadReserved'
  <2>1. \A i \in DOMAIN exec : exec[i].unit \in Nat /\ exec[i].unit <= exec[i].unit
    BY <1>1 DEF ServerTypeOK, Executors
  <2>2. \A i \in DOMAIN exec : Uploaders(i)' = Uploaders(i)
    BY <1>18 DEF Uploaders, Users
  <2>3. \A i \in DOMAIN exec : exec'[i].unit \in Nat /\ exec'[i].unit <= exec[i].unit
    BY <2>1, <1>23, <1>26
  <2> QED
    BY <2>2, <2>3, <1>1, <1>26, LoadFrame DEF ServerInv
<1> QED
  BY <1>25, <1>27, <1>28, <1>29 DEF ServerInv

\* CreateSession and DestroySession leave the requests and who waits for room alone.
LEMMA RegistryFrame ==
  ASSUME ServerInv, NEW c \in Clients,
         client' \in [Clients -> Calls], \A d \in Clients : d # c => client'[d] = client[d],
         UNCHANGED <<cache, reqs, sent>>,
         client[c].pc \notin WaitsForRoom, client'[c].pc \notin WaitsForRoom,
         reqs[c] = <<>> \/ client'[c].ex = client[c].ex,
         \A e \in DOMAIN exec' :
           \/ e \in DOMAIN exec /\ exec'[e].req = exec[e].req /\ exec'[e].unit = exec[e].unit
           \/ exec'[e].req = 0 /\ exec'[e].unit = 0 /\ \A d \in Clients : client'[d].ex = e => reqs[d] = <<>>
  PROVE  CountsExact' /\ SentCovers' /\ LoadReserved' /\ HeldCached'
<1>1. UNCHANGED <<model_cache_, models, held, unloaded>>
  BY DEF cache
<1>2. ServerTypeOK /\ CountsExact /\ SentCovers /\ LoadReserved
  BY DEF ServerInv
<1>3. HeldCached'
  BY <1>1 DEF ServerInv, HeldCached
<1>4. CountsExact'
  <2>1. \A d \in Clients : reqs[d] # <<>> => client'[d].ex = client[d].ex
    OBVIOUS
  <2> QED
    BY <2>1, <1>2, CountsFrame
<1>5. SentCovers'
  <2>1. Waiting' \subseteq Waiting
    BY DEF Waiting
  <2> QED
    BY <2>1, <1>2, SentFrame
<1>6. LoadReserved'
  <2>1. \A e : Uploaders(e)' \subseteq Uploaders(e)
    BY DEF Uploaders, Users, WaitsForRoom
  <2>2. MaxLoad \in Nat \ {0} /\ \A e \in DOMAIN exec : exec[e].unit \in Nat
    BY <1>2, InferServerConstants DEF ServerTypeOK, Executors
  <2>3. \A e \in DOMAIN exec' :
          /\ exec'[e].unit \in Nat
          /\ exec'[e].unit < MaxLoad \/ (e \in DOMAIN exec /\ exec'[e].unit <= exec[e].unit)
    BY <2>2
  <2> QED
    BY <2>1, <2>3, <1>2, LoadFrame
<1> QED
  BY <1>3, <1>4, <1>5, <1>6

\* What a client has is not disturbed by another one's step.
AttachedTo(c) ==
  /\ client[c].pc = "idle" <=> client[c].ex = 0
  /\ client[c].ex # 0 => client[c].ex \in DOMAIN exec
  /\ client[c].pc \in {"idle", "grow", "link", "shrink"} => reqs[c] = <<>>
  /\ client[c].pc \in Linked => c \in exec[client[c].ex].links
  /\ client[c].pc \in WaitsForRoom => client[c].n \in PackSizes
  /\ client[c].pc = "delete" <=> mutex = c

LEMMA AttachedParts == (Attached <=> \A c \in Clients : AttachedTo(c)) /\ (Attached' <=> \A c \in Clients : AttachedTo(c)')
BY DEF Attached, AttachedTo

LEMMA OthersAttached ==
  ASSUME ServerInv, NEW c \in Clients, NEW d \in Clients, d # c, client'[d] = client[d], reqs' = reqs,
         DOMAIN exec \subseteq DOMAIN exec',
         \A e \in DOMAIN exec : d \in exec[e].links => d \in exec'[e].links,
         mutex' = d <=> mutex = d
  PROVE  AttachedTo(d)'
<1>1. AttachedTo(d)
  BY AttachedParts DEF ServerInv
<1>2. client[d].pc \in Linked => client[d].ex \in DOMAIN exec
  BY <1>1 DEF AttachedTo, Linked, WaitsForRoom
<1> QED
  BY <1>1, <1>2 DEF AttachedTo

\* CreateSession of a name that has an executor; and one that fails.
LEMMA CreateStep ==
  ASSUME ServerInv, NEW c \in Clients, CreateExecutor(c) \/ CreateFails(c)
  PROVE  ServerInv'
<1>1. ServerTypeOK /\ Attached
  BY DEF ServerInv
<1>2. /\ UNCHANGED <<cache, executor_map_, mutex, tp, exec, reqs, sent, crashed>>
      /\ client[c].pc = "idle" /\ held[c] # None /\ sessions' = sessions + 1 /\ sessions < MaxSessions
  BY DEF CreateExecutor, CreateFails, flow
<1>3. sessions' \in 0 .. MaxSessions
  <2>1. MaxSessions \in Nat /\ sessions \in 0 .. MaxSessions
    BY <1>1, InferServerConstants DEF ServerTypeOK
  <2> QED
    BY <2>1, <1>2
<1>4. UNCHANGED <<model_cache_, models, held, unloaded>>
  BY <1>2 DEF cache
<1>5. CASE CreateFails(c)
  <2>1. client' = client
    BY <1>5 DEF CreateFails
  <2>2. ServerTypeOK'
    BY <1>1, <1>2, <1>3, <1>4, <2>1 DEF ServerTypeOK
  <2>3. Registered' /\ Attached' /\ NoOverlap' /\ ExecutorAlive' /\ Threads' /\ HeldCached' /\ ModelFound'
    BY <1>2, <1>4, <2>1 DEF ServerInv, Registered, Attached, NoOverlap, Creating, Destroying, ExecutorAlive, Alive, Threads,
       HeldCached, ModelFound
  <2>4. CountsExact' /\ SentCovers' /\ LoadReserved'
    BY <1>2, <2>1 DEF ServerInv, CountsExact, SentCovers, LoadReserved, Users, Uploaders, Waiting
  <2> QED
    BY <2>2, <2>3, <2>4 DEF ServerInv
<1>6. CASE CreateExecutor(c)
  <2>1. PICK e : e = executor_map_[held[c][1]]
    OBVIOUS
  <2>2. held[c][1] \in Keys
    BY <1>1, <1>2, HeldType
  <2>3. e # 0 /\ e \in DOMAIN exec /\ executor_map_[exec[e].key] = e /\ e \in 0 .. MaxExecs
    BY <1>1, <1>6, <2>1, <2>2 DEF CreateExecutor, ServerInv, Registered, ServerTypeOK
  <2>4. PICK r : r = [Idle EXCEPT !.pc = "link", !.ex = e]
    OBVIOUS
  <2>5. r \in Calls /\ r.pc = "link" /\ r.ex = e
    BY <2>3, <2>4, CallsFields DEF Calls, Idle, Unlinked
  <2>6. client' = [client EXCEPT ![c] = r]
    BY <1>6, <2>1, <2>4 DEF CreateExecutor
  <2>7. client' \in [Clients -> Calls] /\ client'[c] = r /\ \A d \in Clients : d # c => client'[d] = client[d]
    BY <1>1, <2>5, <2>6, ClientSets
  <2>8. AttachedTo(c)
    BY AttachedParts, <1>1
  <2>9. reqs[c] = <<>> /\ mutex # c
    BY <1>2, <2>8 DEF AttachedTo
  <2>10. ServerTypeOK'
    BY <1>1, <1>2, <1>3, <1>4, <2>7 DEF ServerTypeOK
  <2>11. Attached'
    <3>1. AttachedTo(c)'
      BY <1>2, <2>3, <2>5, <2>7, <2>9 DEF AttachedTo, Linked, WaitsForRoom
    <3>2. \A d \in Clients : d # c => AttachedTo(d)'
      BY <1>2, <2>7, OthersAttached
    <3> QED
      BY <3>1, <3>2, AttachedParts
  <2>12. Registered' /\ ModelFound' /\ Threads'
    BY <1>2, <1>4, <2>7 DEF ServerInv, Registered, ModelFound, Threads
  <2>13. NoOverlap'
    <3>1. Destroying' = Destroying
      BY <1>2, <2>5, <2>7 DEF Destroying
    <3>2. Serialised => Destroying = {}
      BY <1>6 DEF CreateExecutor
    <3> QED
      BY <3>1, <3>2 DEF NoOverlap
  <2>14. ExecutorAlive'
    BY <1>2, <2>3, <2>5, <2>7 DEF ServerInv, ExecutorAlive, Alive
  <2>15. CountsExact' /\ SentCovers' /\ LoadReserved' /\ HeldCached'
    <3>1. client[c].pc \notin WaitsForRoom /\ client'[c].pc \notin WaitsForRoom
      BY <1>2, <2>5, <2>7 DEF WaitsForRoom
    <3> QED
      BY <3>1, <1>2, <2>7, <2>9, RegistryFrame
  <2> QED
    BY <2>10, <2>11, <2>12, <2>13, <2>14, <2>15 DEF ServerInv
<1> QED
  BY <1>5, <1>6

\* CreateSession of a new name: the executor gets the next number.
LEMMA NewExecutorStep ==
  ASSUME ServerInv, NEW c \in Clients, NewExecutor(c)
  PROVE  ServerInv'
<1>1. ServerTypeOK /\ Attached
  BY DEF ServerInv
<1>2. /\ UNCHANGED <<cache, mutex, tp, reqs, sent>>
      /\ client[c].pc = "idle" /\ held[c] # None /\ sessions' = sessions + 1 /\ sessions < MaxSessions
      /\ Cardinality(DOMAIN exec) < MaxExecs
  BY DEF NewExecutor, flow
<1>3. sessions' \in 0 .. MaxSessions
  <2>1. MaxSessions \in Nat /\ sessions \in 0 .. MaxSessions
    BY <1>1, InferServerConstants DEF ServerTypeOK
  <2> QED
    BY <2>1, <1>2
<1>4. UNCHANGED <<model_cache_, models, held, unloaded>>
  BY <1>2 DEF cache
<1>5. PICK k \in Keys : k = held[c][1]
  BY <1>1, <1>2, HeldType
<1>6. executor_map_[k] = 0
  BY <1>5 DEF NewExecutor
<1>7. PICK m \in 0 .. MaxExecs : exec \in [1 .. m -> Executors]
  BY <1>1 DEF ServerTypeOK
<1>8. DOMAIN exec = 1 .. m /\ m \in Nat /\ MaxExecs \in Nat
  BY <1>7, InferServerConstants
<1>9. Cardinality(DOMAIN exec) = m
  <2>1. 1 \in Int /\ m \in Int /\ (m < 1 => m = 0) /\ m - 1 + 1 = m
    BY <1>8
  <2>2. Cardinality(1 .. m) = IF 1 > m THEN 0 ELSE m - 1 + 1
    BY <2>1, FS_Interval
  <2> QED
    BY <2>1, <2>2, <1>8
<1>10. PICK e : e = m + 1
  OBVIOUS
<1>11. e \in 1 .. MaxExecs /\ e \in 0 .. MaxExecs /\ e # 0 /\ e \notin DOMAIN exec /\ DOMAIN exec \cup {e} = 1 .. (m + 1)
       /\ m + 1 \in 0 .. MaxExecs
  BY <1>2, <1>8, <1>9, <1>10
<1>12. AttachedTo(c)
  BY AttachedParts, <1>1
<1>13. reqs[c] = <<>> /\ mutex # c
  BY <1>2, <1>12 DEF AttachedTo
<1>14. CASE k \notin Cached
  <2>1. crashed' = TRUE /\ UNCHANGED <<executor_map_, exec, client>>
    BY <1>5, <1>14 DEF NewExecutor
  <2>2. ServerTypeOK'
    BY <1>1, <1>2, <1>3, <1>4, <2>1 DEF ServerTypeOK
  <2>3. Registered' /\ Attached' /\ NoOverlap' /\ ExecutorAlive' /\ Threads' /\ HeldCached'
    BY <1>2, <1>4, <2>1 DEF ServerInv, Registered, Attached, NoOverlap, Creating, Destroying, ExecutorAlive, Alive, Threads,
       HeldCached
  <2>4. CountsExact' /\ SentCovers' /\ LoadReserved'
    BY <1>2, <2>1 DEF ServerInv, CountsExact, SentCovers, LoadReserved, Users, Uploaders, Waiting
  <2>5. ModelFound'
    <3>1. model_cache_[k] = 0
      BY <1>14 DEF Cached
    <3>2. held[c][2] # 0
      BY <1>1, <1>2, HeldType
    <3> QED
      BY <1>2, <1>4, <1>5, <3>1, <3>2 DEF ServerInv, HeldCached, ModelFound
  <2> QED
    BY <2>2, <2>3, <2>4, <2>5 DEF ServerInv
<1>15. CASE k \in Cached
  <2>1. PICK x : x = [key |-> k, model |-> held[c][2], links |-> {}, req |-> 0, unit |-> 0]
    OBVIOUS
  <2>2. x \in Executors /\ x.key = k /\ x.req = 0 /\ x.unit = 0
    <3>1. held[c][2] \in 1 .. MaxModels /\ 0 \in 0 .. MaxReqs
      BY <1>1, <1>2, HeldType, InferServerConstants
    <3> QED
      BY <2>1, <3>1 DEF Executors
  <2>3. PICK r : r = [Idle EXCEPT !.pc = "grow", !.ex = e]
    OBVIOUS
  <2>4. r \in Calls /\ r.pc = "grow" /\ r.ex = e
    BY <2>3, <1>11, CallsFields DEF Calls, Idle, Unlinked
  <2>5. /\ executor_map_' = [executor_map_ EXCEPT ![k] = e]
        /\ exec' = [i \in DOMAIN exec \cup {e} |-> IF i = e THEN x ELSE exec[i]]
        /\ client' = [client EXCEPT ![c] = r]
        /\ crashed' = crashed
    BY <1>5, <1>9, <1>10, <1>15, <2>1, <2>3 DEF NewExecutor
  <2>6. client' \in [Clients -> Calls] /\ client'[c] = r /\ \A d \in Clients : d # c => client'[d] = client[d]
    BY <1>1, <2>4, <2>5, ClientSets
  <2>7. exec' \in [1 .. (m + 1) -> Executors]
    <3>1. \A i \in DOMAIN exec : exec[i] \in Executors
      BY <1>7
    <3> QED
      BY <3>1, <2>2, <2>5, <1>11
  <2>8. /\ DOMAIN exec' = DOMAIN exec \cup {e} /\ exec'[e] = x
        /\ \A i \in DOMAIN exec : i # e /\ exec'[i] = exec[i]
    BY <2>5, <1>11
  <2>9. /\ executor_map_' \in [Keys -> 0 .. MaxExecs] /\ executor_map_'[k] = e
        /\ \A j \in Keys : j # k => executor_map_'[j] = executor_map_[j]
    BY <1>1, <1>11, <2>5 DEF ServerTypeOK
  <2>10. ServerTypeOK'
    BY <1>1, <1>2, <1>3, <1>4, <1>11, <2>5, <2>6, <2>7, <2>9 DEF ServerTypeOK
  <2>11. Registered'
    <3> SUFFICES ASSUME NEW j \in Keys, executor_map_'[j] # 0
                 PROVE  executor_map_'[j] \in DOMAIN exec' /\ exec'[executor_map_'[j]].key = j
      BY DEF Registered
    <3>1. CASE j = k
      BY <3>1, <2>2, <2>8, <2>9
    <3>2. CASE j # k
      BY <3>2, <2>8, <2>9 DEF ServerInv, Registered
    <3> QED
      BY <3>1, <3>2
  <2>12. Attached'
    <3>1. AttachedTo(c)'
      BY <1>2, <1>11, <1>13, <2>4, <2>6, <2>8 DEF AttachedTo, Linked, WaitsForRoom
    <3>2. \A d \in Clients : d # c => AttachedTo(d)'
      <4>1. DOMAIN exec \subseteq DOMAIN exec' /\ \A i \in DOMAIN exec : exec'[i].links = exec[i].links
        BY <2>8
      <4> QED
        BY <4>1, <1>2, <2>6, OthersAttached
    <3> QED
      BY <3>1, <3>2, AttachedParts
  <2>13. NoOverlap'
    <3>1. Destroying' = Destroying
      BY <1>2, <2>4, <2>6 DEF Destroying
    <3>2. Serialised => Destroying = {}
      BY DEF NewExecutor
    <3> QED
      BY <3>1, <3>2 DEF NoOverlap
  <2>14. ExecutorAlive'
    <3> SUFFICES ASSUME Serialised, NEW d \in Clients, client'[d].pc \notin {"idle", "shrink"}
                 PROVE  executor_map_'[exec'[client'[d].ex].key] = client'[d].ex
      BY DEF ExecutorAlive, Alive
    <3>1. CASE d = c
      BY <3>1, <2>2, <2>4, <2>6, <2>8, <2>9
    <3>2. CASE d # c
      <4>1. client'[d] = client[d] /\ client[d].ex \in DOMAIN exec /\ client[d].ex # 0 /\ exec[client[d].ex].key \in Keys
        BY <3>2, <2>6, <1>8, ExecutorOf
      <4>2. executor_map_[exec[client[d].ex].key] = client[d].ex
        BY <4>1 DEF ServerInv, ExecutorAlive, Alive
      <4> QED
        BY <4>1, <4>2, <1>6, <2>8, <2>9
    <3> QED
      BY <3>1, <3>2
  <2>15. Threads' /\ ModelFound'
    BY <1>4, <2>4, <2>5, <2>6 DEF ServerInv, Threads, ModelFound
  <2>16. CountsExact' /\ SentCovers' /\ LoadReserved' /\ HeldCached'
    <3>1. client[c].pc \notin WaitsForRoom /\ client'[c].pc \notin WaitsForRoom
      BY <1>2, <2>4, <2>6 DEF WaitsForRoom
    <3>2. \A d \in Clients : client'[d].ex = e => reqs[d] = <<>>
      <4>1. \A d \in Clients : d # c => client[d].ex # e
        BY <1>1, <1>11 DEF Attached
      <4> QED
        BY <4>1, <1>13, <2>6
    <3>3. \A i \in DOMAIN exec' :
           \/ i \in DOMAIN exec /\ exec'[i].req = exec[i].req /\ exec'[i].unit = exec[i].unit
           \/ exec'[i].req = 0 /\ exec'[i].unit = 0 /\ \A d \in Clients : client'[d].ex = i => reqs[d] = <<>>
      BY <3>2, <2>2, <2>8
    <3> QED
      BY <3>1, <3>3, <1>2, <1>13, <2>6, RegistryFrame
  <2> QED
    BY <2>10, <2>11, <2>12, <2>13, <2>14, <2>15, <2>16 DEF ServerInv
<1> QED
  BY <1>14, <1>15

LEMMA WorkersType ==
  ASSUME ServerInv, NEW c \in Clients, client[c].pc # "idle"
  PROVE  Workers(client[c].ex) \in Nat /\ Workers(client[c].ex) > 0
<1>1. PICK n \in Nat \ {0} : n = EngineNum[exec[client[c].ex].key]
  BY ExecutorOf, InferServerConstants
<1> QED
  BY <1>1 DEF Workers

\* The pool grows for a new executor, at least to one thread, and shrinks for one
\* that is gone, never by more than are idle.
LEMMA PoolSteps ==
  ASSUME ServerInv, NEW c \in Clients, GrowPool(c) \/ \E idle \in 0 .. tp : ShrinkPool(c, idle)
  PROVE  ServerInv'
<1>1. ServerTypeOK /\ Attached
  BY DEF ServerInv
<1>2. UNCHANGED <<cache, executor_map_, mutex, sessions, exec, reqs, sent, crashed>>
  BY DEF GrowPool, ShrinkPool, flow
<1>3. UNCHANGED <<model_cache_, models, held, unloaded>>
  BY <1>2 DEF cache
<1>4. client[c].pc \in {"grow", "shrink"}
  BY DEF GrowPool, ShrinkPool
<1>5. PICK w \in Nat : w = Workers(client[c].ex) /\ w > 0
  BY <1>4, WorkersType
<1>6. tp \in 0 .. MaxThreads /\ MaxThreads \in Nat /\ MaxThreads > 0
  BY <1>1, InferServerConstants DEF ServerTypeOK
<1>7. tp' \in 0 .. MaxThreads /\ (tp > 0 => tp' > 0) /\ (client[c].pc = "grow" => tp' > 0)
  <2>1. CASE GrowPool(c)
    <3>1. tp' = IF tp + w < MaxThreads THEN tp + w ELSE MaxThreads
      BY <2>1, <1>5 DEF GrowPool
    <3> QED
      BY <3>1, <1>5, <1>6
  <2>2. ASSUME NEW idle \in 0 .. tp, ShrinkPool(c, idle) PROVE tp' \in 0 .. MaxThreads /\ (tp > 0 => tp' > 0)
    <3>1. tp' = IF idle > w THEN tp - w ELSE tp
      BY <2>2, <1>5 DEF ShrinkPool
    <3> QED
      BY <3>1, <1>5, <1>6
  <2>3. GrowPool(c) \/ client[c].pc # "grow"
    BY DEF ShrinkPool
  <2> QED
    BY <2>1, <2>2, <2>3
<1>8. /\ client' \in [Clients -> Calls] /\ \A d \in Clients : d # c => client'[d] = client[d]
      /\ \/ client[c].pc = "grow" /\ client'[c].pc = "link" /\ client'[c].ex = client[c].ex
         \/ client[c].pc = "shrink" /\ client'[c].pc = "idle" /\ client'[c].ex = 0
  <2>1. CASE GrowPool(c)
    <3>1. Goto(c, "link") /\ "link" \in Linked \cup Unlinked /\ client[c].pc = "grow"
      BY <2>1 DEF GrowPool, Unlinked
    <3> QED
      BY <3>1, <1>1, GotoSets
  <2>2. CASE client' = [client EXCEPT ![c] = Idle] /\ client[c].pc = "shrink"
    BY <2>2, <1>1, ClientSets, CallsFields
  <2> QED
    BY <2>1, <2>2 DEF ShrinkPool
<1>9. AttachedTo(c)
  BY AttachedParts, <1>1
<1>10. reqs[c] = <<>> /\ mutex # c /\ client[c].ex # 0 /\ client[c].ex \in DOMAIN exec
  BY <1>4, <1>9 DEF AttachedTo
<1>11. ServerTypeOK'
  BY <1>1, <1>2, <1>3, <1>7, <1>8 DEF ServerTypeOK
<1>12. Attached'
  <2>1. AttachedTo(c)'
    BY <1>2, <1>8, <1>10 DEF AttachedTo, Linked, WaitsForRoom
  <2>2. \A d \in Clients : d # c => AttachedTo(d)'
    BY <1>2, <1>8, OthersAttached
  <2> QED
    BY <2>1, <2>2, AttachedParts
<1>13. Registered' /\ ModelFound'
  BY <1>2, <1>3 DEF ServerInv, Registered, ModelFound
<1>14. NoOverlap'
  <2>1. Creating' \subseteq Creating /\ Destroying' = Destroying
    BY <1>8 DEF Creating, Destroying
  <2> QED
    BY <2>1 DEF ServerInv, NoOverlap
<1>15. ExecutorAlive'
  BY <1>2, <1>8 DEF ServerInv, ExecutorAlive, Alive
<1>16. Threads'
  BY <1>2, <1>7, <1>8 DEF ServerInv, Threads
<1>17. CountsExact' /\ SentCovers' /\ LoadReserved' /\ HeldCached'
  <2>1. client[c].pc \notin WaitsForRoom /\ client'[c].pc \notin WaitsForRoom
    BY <1>8 DEF WaitsForRoom
  <2> QED
    BY <2>1, <1>2, <1>8, <1>10, RegistryFrame
<1> QED
  BY <1>11, <1>12, <1>13, <1>14, <1>15, <1>16, <1>17 DEF ServerInv

\* Link and Unlink change who is linked to one executor.
LEMMA LinkSteps ==
  ASSUME ServerInv, NEW c \in Clients, Link(c) \/ Unlink(c)
  PROVE  ServerInv'
<1>1. ServerTypeOK /\ Attached
  BY DEF ServerInv
<1>2. UNCHANGED <<cache, executor_map_, tp, sessions, reqs, sent, crashed>>
  BY DEF Link, Unlink, flow, registry
<1>3. UNCHANGED <<model_cache_, models, held, unloaded>>
  BY <1>2 DEF cache
<1>4. client[c].pc \in {"link", "lock"}
  BY DEF Link, Unlink
<1>5. PICK e : e = client[c].ex
  OBVIOUS
<1>6. /\ e \in DOMAIN exec /\ exec[e] \in Executors /\ exec[e].links \in SUBSET Clients
  BY <1>4, <1>5, ExecutorOf
<1>7. /\ client' \in [Clients -> Calls] /\ \A d \in Clients : d # c => client'[d] = client[d]
      /\ client'[c].ex = e
      /\ \/ Link(c) /\ client[c].pc = "link" /\ client'[c].pc = "ready"
         \/ Unlink(c) /\ client[c].pc = "lock" /\ client'[c].pc = "delete"
  <2>1. CASE Link(c)
    <3>1. Goto(c, "ready") /\ "ready" \in Linked \cup Unlinked /\ client[c].pc = "link"
      BY <2>1 DEF Link, Linked
    <3> QED
      BY <2>1, <3>1, <1>1, <1>5, GotoSets
  <2>2. CASE Unlink(c)
    <3>1. Goto(c, "delete") /\ "delete" \in Linked \cup Unlinked /\ client[c].pc = "lock"
      BY <2>2 DEF Unlink, Unlinked
    <3> QED
      BY <2>2, <3>1, <1>1, <1>5, GotoSets
  <2> QED
    BY <2>1, <2>2
<1>8. PICK x \in Executors :
        /\ exec' = [exec EXCEPT ![e] = x]
        /\ x.key = exec[e].key /\ x.req = exec[e].req /\ x.unit = exec[e].unit
        /\ \A d \in Clients : d # c => (d \in x.links <=> d \in exec[e].links)
        /\ Link(c) => c \in x.links
  <2>1. CASE Link(c)
    <3>1. exec' = [exec EXCEPT ![e] = [exec[e] EXCEPT !.links = exec[e].links \cup {c}]]
      BY <2>1, <1>5, <1>6 DEF Link
    <3>2. PICK x : x = [exec[e] EXCEPT !.links = exec[e].links \cup {c}]
      OBVIOUS
    <3>3. x \in Executors /\ x.key = exec[e].key /\ x.req = exec[e].req /\ x.unit = exec[e].unit
          /\ x.links = exec[e].links \cup {c}
      BY <3>2, <1>6 DEF Executors
    <3> QED
      BY <3>1, <3>2, <3>3
  <2>2. CASE Unlink(c)
    <3>1. exec' = [exec EXCEPT ![e] = [exec[e] EXCEPT !.links = exec[e].links \ {c}]]
      BY <2>2, <1>5, <1>6 DEF Unlink
    <3>2. PICK x : x = [exec[e] EXCEPT !.links = exec[e].links \ {c}]
      OBVIOUS
    <3>3. x \in Executors /\ x.key = exec[e].key /\ x.req = exec[e].req /\ x.unit = exec[e].unit
          /\ x.links = exec[e].links \ {c}
      BY <3>2, <1>6 DEF Executors
    <3>4. ~Link(c)
      BY <2>2 DEF Link, Unlink
    <3> QED
      BY <3>1, <3>2, <3>3, <3>4
  <2> QED
    BY <2>1, <2>2
<1>9. /\ \E n \in 0 .. MaxExecs : exec' \in [1 .. n -> Executors]
      /\ DOMAIN exec' = DOMAIN exec /\ exec'[e] = x /\ \A i \in DOMAIN exec : i # e => exec'[i] = exec[i]
  BY <1>1, <1>6, <1>8, ExecutorSets
<1>10. \A i \in DOMAIN exec :
         /\ exec'[i].key = exec[i].key /\ exec'[i].req = exec[i].req /\ exec'[i].unit = exec[i].unit
         /\ \A d \in Clients : d # c => (d \in exec'[i].links <=> d \in exec[i].links)
  BY <1>8, <1>9
<1>11. /\ mutex' \in Clients \cup {Nobody}
       /\ mutex' = c <=> client'[c].pc = "delete"
       /\ \A d \in Clients : d # c => (mutex' = d <=> mutex = d)
  <2>1. Nobody \notin Clients /\ mutex \in Clients \cup {Nobody}
    BY <1>1, InferServerConstants DEF ServerTypeOK, Nobody
  <2>2. CASE Link(c)
    <3>1. mutex' = mutex /\ mutex # c /\ client'[c].pc # "delete"
      BY <2>2, <1>1, <1>7 DEF Link, registry, Attached, Unlink
    <3> QED
      BY <3>1, <2>1
  <2>3. CASE Unlink(c)
    <3>1. mutex' = c /\ mutex = Nobody /\ client'[c].pc = "delete"
      BY <2>3, <1>7 DEF Link, Unlink
    <3> QED
      BY <3>1, <2>1
  <2> QED
    BY <2>2, <2>3
<1>12. AttachedTo(c)
  BY AttachedParts, <1>1
<1>13. client[c].ex # 0 /\ (client[c].pc = "link" => reqs[c] = <<>>)
  BY <1>4, <1>12 DEF AttachedTo
<1>14. ServerTypeOK'
  BY <1>1, <1>2, <1>3, <1>7, <1>9, <1>11 DEF ServerTypeOK
<1>15. Attached'
  <2>1. AttachedTo(c)'
    BY <1>2, <1>5, <1>6, <1>7, <1>8, <1>9, <1>11, <1>13 DEF AttachedTo, Linked, WaitsForRoom
  <2>2. \A d \in Clients : d # c => AttachedTo(d)'
    BY <1>2, <1>7, <1>9, <1>10, <1>11, OthersAttached
  <2> QED
    BY <2>1, <2>2, AttachedParts
<1>16. Registered' /\ ModelFound'
  BY <1>2, <1>3, <1>9, <1>10 DEF ServerInv, Registered, ModelFound
<1>17. NoOverlap'
  <2>1. Creating' \subseteq Creating /\ Destroying' \subseteq Destroying
    BY <1>7 DEF Creating, Destroying
  <2> QED
    BY <2>1 DEF ServerInv, NoOverlap
<1>18. ExecutorAlive'
  <2> SUFFICES ASSUME Serialised, NEW d \in Clients, client'[d].pc \notin {"idle", "shrink"}
               PROVE  executor_map_[exec'[client'[d].ex].key] = client'[d].ex
    BY <1>2 DEF ExecutorAlive, Alive
  <2>1. client[d].pc \notin {"idle", "shrink"} /\ client'[d].ex = client[d].ex
    BY <1>4, <1>5, <1>7
  <2>2. executor_map_[exec[client[d].ex].key] = client[d].ex
    BY <2>1 DEF ServerInv, ExecutorAlive, Alive
  <2>3. client[d].ex \in DOMAIN exec
    BY <2>1, ExecutorOf
  <2> QED
    BY <2>1, <2>2, <2>3, <1>10
<1>19. Threads'
  BY <1>2, <1>4, <1>7, <1>9 DEF ServerInv, Threads
<1>20. CountsExact' /\ SentCovers' /\ LoadReserved' /\ HeldCached'
  <2>1. client[c].pc \notin WaitsForRoom /\ client'[c].pc \notin WaitsForRoom
    BY <1>7 DEF WaitsForRoom
  <2>2. \A i \in DOMAIN exec' : i \in DOMAIN exec /\ exec'[i].req = exec[i].req /\ exec'[i].unit = exec[i].unit
    BY <1>9, <1>10
  <2> QED
    BY <2>1, <2>2, <1>2, <1>5, <1>7, RegistryFrame
<1> QED
  BY <1>14, <1>15, <1>16, <1>17, <1>18, <1>19, <1>20 DEF ServerInv

\* The last session of an executor takes it along: nobody else is linked to it,
\* and with CreateSession and DestroySession apart nobody is about to be.
LEMMA DeleteStep ==
  ASSUME ServerInv, NEW c \in Clients, DeleteSession(c)
  PROVE  ServerInv'
<1>1. ServerTypeOK /\ Attached
  BY DEF ServerInv
<1>2. /\ UNCHANGED <<cache, tp, sessions, exec, reqs, sent, crashed>>
      /\ client[c].pc = "delete" /\ reqs[c] = <<>> /\ mutex' = Nobody
  BY DEF DeleteSession, flow
<1>3. UNCHANGED <<model_cache_, models, held, unloaded>>
  BY <1>2 DEF cache
<1>4. PICK e : e = client[c].ex
  OBVIOUS
<1>5. e \in DOMAIN exec /\ exec[e].key \in Keys
  BY <1>2, <1>4, ExecutorOf
<1>6. /\ \A d \in Clients : d # c => mutex # d /\ client[d].pc # "delete"
      /\ \A d \in Clients : mutex' # d
      /\ e # 0
  <2>1. mutex = c
    BY <1>1, <1>2 DEF Attached
  <2>2. Nobody \notin Clients
    BY InferServerConstants DEF Nobody
  <2> QED
    BY <1>1, <1>2, <1>4, <2>1, <2>2 DEF Attached
<1>7. /\ client' \in [Clients -> Calls] /\ \A d \in Clients : d # c => client'[d] = client[d]
      /\ \/ /\ exec[e].links = {} /\ executor_map_' = [executor_map_ EXCEPT ![exec[e].key] = 0]
            /\ client'[c].pc = "shrink" /\ client'[c].ex = e
         \/ executor_map_' = executor_map_ /\ client'[c].pc = "idle" /\ client'[c].ex = 0
  <2>1. CASE exec[e].links = {}
    <3>1. Goto(c, "shrink") /\ "shrink" \in Linked \cup Unlinked
      BY <2>1, <1>4 DEF DeleteSession, Unlinked
    <3>2. executor_map_' = [executor_map_ EXCEPT ![exec[e].key] = 0]
      BY <2>1, <1>4 DEF DeleteSession
    <3> QED
      BY <2>1, <3>1, <3>2, <1>1, <1>4, GotoSets
  <2>2. CASE exec[e].links # {}
    BY <2>2, <1>1, <1>4, ClientSets, CallsFields DEF DeleteSession
  <2> QED
    BY <2>1, <2>2
<1>8. executor_map_' \in [Keys -> 0 .. MaxExecs] /\ \A k \in Keys : executor_map_'[k] # 0 => executor_map_'[k] = executor_map_[k]
  <2>1. 0 \in 0 .. MaxExecs /\ executor_map_ \in [Keys -> 0 .. MaxExecs]
    BY <1>1, InferServerConstants DEF ServerTypeOK
  <2> QED
    BY <2>1, <1>5, <1>7
<1>9. ServerTypeOK'
  BY <1>1, <1>2, <1>3, <1>7, <1>8 DEF ServerTypeOK
<1>10. Registered' /\ ModelFound'
  BY <1>2, <1>3, <1>8 DEF ServerInv, Registered, ModelFound
<1>11. Attached'
  <2>1. AttachedTo(c)'
    BY <1>2, <1>5, <1>6, <1>7 DEF AttachedTo, Linked, WaitsForRoom
  <2>2. \A d \in Clients : d # c => AttachedTo(d)'
    BY <1>2, <1>6, <1>7, OthersAttached
  <2> QED
    BY <2>1, <2>2, AttachedParts
<1>12. NoOverlap'
  <2>1. Creating' \subseteq Creating /\ Destroying' \subseteq Destroying
    BY <1>7 DEF Creating, Destroying
  <2> QED
    BY <2>1 DEF ServerInv, NoOverlap
<1>13. ExecutorAlive'
  <2> SUFFICES ASSUME Serialised, NEW d \in Clients, client'[d].pc \notin {"idle", "shrink"}
               PROVE  executor_map_'[exec[client'[d].ex].key] = client'[d].ex
    BY <1>2 DEF ExecutorAlive, Alive
  <2>1. d # c /\ client'[d] = client[d]
    BY <1>7
  <2>2. executor_map_[exec[client[d].ex].key] = client[d].ex
    BY <2>1 DEF ServerInv, ExecutorAlive, Alive
  <2>3. executor_map_[exec[e].key] = e
    BY <1>2, <1>4 DEF ServerInv, ExecutorAlive, Alive
  <2>4. CASE executor_map_' = executor_map_
    BY <2>1, <2>2, <2>4
  <2>5. CASE exec[e].links = {} /\ executor_map_' = [executor_map_ EXCEPT ![exec[e].key] = 0]
    <3>1. client[d].pc \notin {"grow", "link"}
      <4>1. c \in Destroying
        BY <1>2 DEF Destroying
      <4>2. Creating = {}
        BY <4>1 DEF ServerInv, NoOverlap
      <4> QED
        BY <4>2 DEF Creating
    <3>2. client[d].pc \in Linked
      <4>1. client[d].pc \in Linked \cup Unlinked
        BY <1>1, CallsFields
      <4> QED
        BY <4>1, <3>1, <2>1, <1>6 DEF Unlinked
    <3>3. d \in exec[client[d].ex].links
      BY <3>2, <1>1 DEF Attached
    <3>4. client[d].ex # e
      BY <3>3, <2>5
    <3>5. exec[client[d].ex].key # exec[e].key
      BY <3>4, <2>2, <2>3
    <3>6. exec[client[d].ex].key \in Keys
      BY <2>1, ExecutorOf
    <3> QED
      BY <3>5, <3>6, <2>1, <2>2, <2>5, <1>1 DEF ServerTypeOK
  <2> QED
    BY <2>4, <2>5, <1>7
<1>14. Threads'
  BY <1>2, <1>7 DEF ServerInv, Threads
<1>15. CountsExact' /\ SentCovers' /\ LoadReserved' /\ HeldCached'
  <2>1. client[c].pc \notin WaitsForRoom /\ client'[c].pc \notin WaitsForRoom
    BY <1>2, <1>7 DEF WaitsForRoom
  <2> QED
    BY <2>1, <1>2, <1>7, RegistryFrame
<1> QED
  BY <1>9, <1>10, <1>11, <1>12, <1>13, <1>14, <1>15 DEF ServerInv

LEMMA ServerStep == ServerInv /\ [ServerNext]_serverVars => ServerInv'
<1> SUFFICES ASSUME ServerInv, [ServerNext]_serverVars PROVE ServerInv'
  OBVIOUS
<1>1. CASE UNCHANGED serverVars
  <2>1. UNCHANGED <<model_cache_, models, held, unloaded, executor_map_, mutex, tp, sessions, exec, client, reqs, sent, crashed>>
    BY <1>1 DEF serverVars, cache, registry, flow
  <2>2. UNCHANGED <<registry, exec, client, flow, crashed>>
    BY <1>1 DEF serverVars
  <2>3. ServerTypeOK' /\ HeldCached' /\ ModelFound'
    BY <2>1 DEF ServerInv, ServerTypeOK, HeldCached, ModelFound
  <2> QED
    BY <2>2, <2>3, CacheKeepsRest DEF ServerInv
<1>2. ASSUME NEW c \in Clients, ClientNext(c) PROVE ServerInv'
  <2>1. CASE \E k \in Keys : LoadModel(c, k)
    BY <2>1, LoadModelStep
  <2>2. CASE (\E K \in SUBSET Keys : UnloadModel(c, K)) \/ Drop(c)
    <3>1. \E K \in SUBSET Keys : UnloadModel(c, K) \/ Drop(c)
      BY <2>2
    <3> QED
      BY <3>1, UnloadStep
  <2>3. CASE \E n \in PackSizes, timed \in BOOLEAN : Request(c, n, timed)
    BY <2>3, RequestStep
  <2>4. CASE CallStep(c)
    BY <2>4, PoolSteps, LinkSteps, DeleteStep, WaitSteps, SendStep DEF CallStep
  <2> QED
    BY <1>2, <2>1, <2>2, <2>3, <2>4, CreateStep, NewExecutorStep, WaitSteps DEF ClientNext
<1>3. CASE Answer
  BY <1>3, RespondStep DEF Answer
<1> QED
  BY <1>1, <1>2, <1>3 DEF ServerNext

LEMMA ServerInvImplies == ServerInv => ServerTypeOK /\ ExecutorAlive /\ WorkersRemain /\ ModelFound /\ LoadBounded
<1> SUFFICES ASSUME ServerInv PROVE ServerTypeOK /\ ExecutorAlive /\ WorkersRemain /\ ModelFound /\ LoadBounded
  OBVIOUS
<1>1. WorkersRemain
  BY DEF ServerInv, WorkersRemain, Registered, Threads
<1>2. LoadBounded
  <2> SUFFICES ASSUME NEW e \in DOMAIN exec
               PROVE  exec[e].unit <= MaxLoad - 1 + Cardinality(Clients) * Largest
    BY DEF LoadBounded
  <2>1. PICK u \in Nat : u = exec[e].unit
    BY DEF ServerInv, ServerTypeOK, Executors
  <2>2. PICK U \in SUBSET Clients : U = Uploaders(e)
    BY DEF Uploaders, Users
  <2>3. u + Cardinality(U) * Largest <= MaxLoad - 1 + Cardinality(Clients) * Largest
    BY <2>1, <2>2 DEF ServerInv, LoadReserved
  <2>4. Cardinality(U) * Largest \in Nat /\ Cardinality(Clients) * Largest \in Nat
    BY UploadersFinite
  <2>5. MaxLoad \in Nat
    BY InferServerConstants
  <2> QED
    BY <2>1, <2>3, <2>4, <2>5
<1> QED
  BY <1>1, <1>2 DEF ServerInv

\* Only Load adds a model, and at the limit it first removes one that nobody uses.
LEMMA CacheStep ==
  ServerTypeOK /\ [ServerNext]_serverVars
    => [Cardinality(Cached') > Cardinality(Cached) /\ Cardinality(Cached) >= CacheLimit
          => \A k \in Cached : Used(k)]_serverVars
<1> SUFFICES ASSUME ServerTypeOK, ServerNext, Cardinality(Cached') > Cardinality(Cached), Cardinality(Cached) >= CacheLimit
             PROVE  \A k \in Cached : Used(k)
  OBVIOUS
<1>1. Cached \in SUBSET Keys /\ IsFiniteSet(Cached) /\ Cardinality(Cached) \in Nat
  <2>1. Cached \in SUBSET Keys
    BY DEF Cached
  <2> QED
    BY <2>1, FS_Subset, FS_CardinalityType, InferServerConstants
<1>2. PICK S : S = Cached'
  OBVIOUS
<1>3. CASE S \subseteq Cached
  <2>1. Cardinality(S) <= Cardinality(Cached) /\ Cardinality(S) \in Nat
    <3>1. IsFiniteSet(S) /\ Cardinality(S) <= Cardinality(Cached)
      BY <1>1, <1>3, FS_Subset
    <3> QED
      BY <3>1, FS_CardinalityType
  <2> QED
    BY <1>1, <1>2, <2>1
<1>4. ASSUME model_cache_' = model_cache_ PROVE S \subseteq Cached
  BY <1>2, <1>4 DEF Cached
<1>5. ASSUME NEW c \in Clients, NEW K \in SUBSET Keys, UnloadModel(c, K) PROVE S \subseteq Cached
  BY <1>2, <1>5 DEF Cached, UnloadModel, Erase
<1>6. ASSUME NEW c \in Clients, NEW k \in Keys, LoadModel(c, k), model_cache_' # model_cache_
      PROVE  \A j \in Cached : Used(j)
  <2>1. PICK K \in CheckAndCleanCache : model_cache_' = [Erase(K) EXCEPT ![k] = models + 1]
    BY <1>6 DEF LoadModel
  <2>2. k \notin Cached /\ models + 1 # 0
    BY <1>6, InferServerConstants DEF LoadModel, ServerTypeOK
  <2>3. CacheLimit \in Nat
    BY InferServerConstants
  <2> DEFINE unused == {j \in Cached : ~Used(j)}
  <2>4. CASE unused = {}
    BY <2>4
  <2>5. CASE unused # {}
    <3>1. PICK j \in unused : K = {j}
      BY <2>1, <2>3, <2>5, <1>1 DEF CheckAndCleanCache
    <3>2. \A i \in Keys : model_cache_'[i] # 0 <=> (i = k \/ (i # j /\ model_cache_[i] # 0))
      BY <2>1, <2>2, <3>1 DEF Erase, Cached
    <3>3. S = (Cached \ {j}) \cup {k}
      BY <3>2, <1>2, <1>6 DEF Cached
    <3>4. IsFiniteSet(Cached \ {j}) /\ Cardinality(Cached \ {j}) = Cardinality(Cached) - 1
      BY <3>1, <1>1, FS_RemoveElement
    <3>5. k \notin Cached \ {j}
      BY <2>2
    <3>6. Cardinality(S) = Cardinality(Cached \ {j}) + 1
      BY <3>3, <3>4, <3>5, FS_AddElement
    <3>7. Cardinality(S) = Cardinality(Cached)
      BY <3>4, <3>6, <1>1
    <3> QED
      BY <3>7, <1>1, <1>2
  <2> QED
    BY <2>4, <2>5
<1>7. ASSUME NEW c \in Clients, ClientNext(c) PROVE \A j \in Cached : Used(j)
  <2>1. CASE \E k \in Keys : LoadModel(c, k)
    BY <2>1, <1>3, <1>4, <1>6
  <2>2. CASE \E K \in SUBSET Keys : UnloadModel(c, K)
    BY <2>2, <1>3, <1>5
  <2>3. CASE CallStep(c)
    <3>1. model_cache_' = model_cache_
      BY <2>3 DEF CallStep, GrowPool, Link, Unlink, DeleteSession, ShrinkPool, Sleep, Wake, Timeout, Send, cache
    <3> QED
      BY <3>1, <1>3, <1>4
  <2>4. CASE \E n \in PackSizes, timed \in BOOLEAN : Request(c, n, timed)
    <3>1. model_cache_' = model_cache_
      BY <2>4 DEF Request, cache
    <3> QED
      BY <3>1, <1>3, <1>4
  <2>5. CASE Drop(c) \/ CreateExecutor(c) \/ NewExecutor(c) \/ CreateFails(c) \/ DestroySession(c) \/ TimeUsedUp(c) \/ SyncTimeout(c)
    <3>1. model_cache_' = model_cache_
      BY <2>5 DEF Drop, CreateExecutor, NewExecutor, CreateFails, DestroySession, TimeUsedUp, SyncTimeout, cache
    <3> QED
      BY <3>1, <1>3, <1>4
  <2> QED
    BY <1>7, <2>1, <2>2, <2>3, <2>4, <2>5 DEF ClientNext
<1>8. CASE Answer
  <2>1. model_cache_' = model_cache_
    BY <1>8 DEF Answer, Respond, cache
  <2> QED
    BY <2>1, <1>3, <1>4
<1> QED
  BY <1>7, <1>8 DEF ServerNext

\* For any number of clients, models, executors and requests and any sizes of the pool,
\* the packages and the cache: a session's executor lives as long as the session
\* when CreateSession and DestroySession do not overlap, the pool keeps a thread for
\* the executors, a model that a client holds is found until somebody unloads it, the
\* load of an executor is over its limit only by what its senders had in hand, and the
\* cache grows past its limit only when all its models are used.
THEOREM ServerIsSafe == ServerSpec => ServerSafe
<1>1. ServerInv => ServerTypeOK
  BY DEF ServerInv
<1> QED
  BY <1>1, ServerInitInv, ServerStep, ServerInvImplies, CacheStep, PTL DEF ServerSpec, ServerSafe, CacheLimited
====
