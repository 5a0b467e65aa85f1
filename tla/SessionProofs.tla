--------------------------- MODULE SessionProofs ---------------------------
(***************************************************************************)
(* Proofs about Session for any number of clients, pool threads, requests, *)
(* addresses and items, and about its performance records, Profiler, for   *)
(* any number of requests, tags and removals.                              *)
(***************************************************************************)
EXTENDS Session, Profiler, FiniteSetTheorems, TLAPS

USE DEF session, identity, marks, progress, pipeline, limit, client, pool, ending,
        history

-----------------------------------------------------------------------------
(* Type correctness *)

\* A remainder stays a natural number: both uint32_t counters wrap.
LEMMA ModNat ==
  ASSUME NEW a \in Int
  PROVE  a % CounterMod \in Nat
  BY SessionConstants

LEMMA HeadTail ==
  ASSUME NEW s \in Seq(Ids), s # <<>>
  PROVE  Head(s) \in Ids /\ Tail(s) \in Seq(Ids)
  OBVIOUS

\* The types CheckAndResponse gives the variables it writes.
LEMMA CheckAndResponseType ==
  ASSUME TypeOK, NEW r \in Ids, CheckAndResponse(r)
  PROVE  /\ request_list_' \in Seq(Ids)
         /\ in_response_' \in BOOLEAN
         /\ posted' \in SUBSET Ids
         /\ destroy' \in {"no", "wait", "awake", "dead"}
<1> USE DEF TypeOK, CheckAndResponse, NotifyDestroyer, StartResponse, Front
<1>1. request_list_ # <<>> =>
        Head(request_list_) \in Ids /\ Tail(request_list_) \in Seq(Ids)
  BY HeadTail
<1>2. request_list_' \in Seq(Ids)
  BY <1>1
<1>3. in_response_' \in BOOLEAN
  OBVIOUS
<1>4. posted' \in SUBSET Ids
  BY <1>1
<1>5. destroy' \in {"no", "wait", "awake", "dead"}
  OBVIOUS
<1> QED
  BY <1>2, <1>3, <1>4, <1>5

LEMMA InitType == Init => TypeOK
<1> SUFFICES ASSUME Init PROVE TypeOK
  OBVIOUS
<1>1. 0 \in Ids
  BY SessionConstants DEF Ids
<1>2. (CHOOSE t \in Tags : TRUE) \in Tags
  BY SessionConstants
<1>3. (CHOOSE a \in Addrs : TRUE) \in Addrs
  BY SessionConstants
<1>4. <<>> \in Seq(Ids) /\ 0 \in 0 .. MaxRequests /\ -1 \in Int
  BY SessionConstants
<1> QED
  BY <1>1, <1>2, <1>3, <1>4, SessionConstants, Zenon DEF Init, TypeOK, CallStages

\* What DiscardTask and the end of RequestSync leave alone.
LEMMA DiscardFrame ==
  ASSUME TypeOK, NEW c \in Clients,
         (\E t \in TagsOf[c] : DiscardTask(c, t)) \/ SyncStep(c)
  PROVE  /\ UNCHANGED <<session, identity, progress, future_taken, life, pipeline, limit, mine,
                        wait_set, pool, ending, history>>
         /\ UNCHANGED is_sync_link_
         /\ pc' \in [Clients -> CallStages]
         /\ \A d \in Clients : \/ pc'[d] = pc[d]
                               \/ pc[d] \in {"sync", "discard"} /\ pc'[d] \in {"discard", "idle"}
<1>0. pc \in [Clients -> CallStages] /\ "idle" \in CallStages /\ "discard" \in CallStages
  BY DEF TypeOK, CallStages
<1>1. CASE \E t \in TagsOf[c] : DiscardTask(c, t)
  <2>1. PICK t \in TagsOf[c] : DiscardTask(c, t)
    BY <1>1
  <2>2. UNCHANGED <<pc, is_sync_link_>>
    BY <2>1 DEF DiscardTask, Discard
  <2>3. UNCHANGED <<session, identity, progress, future_taken, life, pipeline, limit, mine,
                    wait_set, pool, ending, history>>
    BY <2>1 DEF DiscardTask
  <2>4. pc' \in [Clients -> CallStages] /\ \A d \in Clients : pc'[d] = pc[d]
    BY <1>0, <2>2
  <2>5. is_sync_link_' = is_sync_link_
    BY <2>2
  <2> QED
    BY <2>3, <2>4, <2>5, Zenon
<1>2. CASE SyncStep(c)
  <2>1. /\ UNCHANGED <<session, identity, progress, future_taken, life, pipeline, limit, mine,
                       wait_set, pool, ending, history>>
        /\ UNCHANGED is_sync_link_
    BY <1>2 DEF SyncStep, SyncDone, SyncExpire, SyncDiscard, Discard
  <2>2. /\ pc[c] \in {"sync", "discard"}
        /\ pc' = [pc EXCEPT ![c] = "idle"] \/ pc' = [pc EXCEPT ![c] = "discard"]
    BY <1>2 DEF SyncStep, SyncDone, SyncExpire, SyncDiscard
  <2>3. pc' \in [Clients -> CallStages]
    BY <1>0, <2>2
  <2>4. \A d \in Clients : \/ pc'[d] = pc[d]
                           \/ pc[d] \in {"sync", "discard"} /\ pc'[d] \in {"discard", "idle"}
    <3> SUFFICES ASSUME NEW d \in Clients, pc'[d] # pc[d]
                 PROVE  pc[d] \in {"sync", "discard"} /\ pc'[d] \in {"discard", "idle"}
      OBVIOUS
    <3>1. d = c
      BY <1>0, <2>2
    <3>2. pc'[c] \in {"discard", "idle"}
      BY <1>0, <2>2
    <3> QED
      BY <2>2, <3>1, <3>2
  <2> QED
    BY <2>1, <2>3, <2>4, Zenon
<1> QED
  BY <1>1, <1>2

LEMMA DiscardType ==
  ASSUME TypeOK, NEW S, NEW cause \in Causes, Discard(S, cause)
  PROVE  is_discarded_' \in [Ids -> BOOLEAN] /\ why' \in [Ids -> Causes \cup {"none"}]
<1>1. is_discarded_' \in [Ids -> BOOLEAN]
  BY Zenon DEF Discard, TypeOK
<1>2. "late" \in Causes
  BY DEF Causes
<1>3. why' \in [Ids -> Causes \cup {"none"}]
  BY <1>2 DEF Discard, TypeOK
<1> QED
  BY <1>1, <1>3

\* WaitTaskDone takes the caller to one of its two waits.
LEMMA WaitBegins ==
  ASSUME TypeOK, NEW c \in Clients, \E t \in TagsOf[c] : WaitTaskDone(c, t)
  PROVE  /\ UNCHANGED <<session, identity, progress, marks, life, pipeline,
                        limit, pool, destroy, history>>
         /\ pc[c] = "idle" /\ pc'[c] \in {"future", "spin"}
         /\ \A d \in Clients : d # c => pc'[d] = pc[d] /\ mine'[d] = mine[d]
<1>1. PICK t \in TagsOf[c] : WaitTaskDone(c, t)
  OBVIOUS
<1>2. UNCHANGED <<session, identity, progress, marks, life, pipeline, limit, pool, destroy, history>>
  BY <1>1 DEF WaitTaskDone
<1>3. /\ pc[c] = "idle"
      /\ pc' = [pc EXCEPT ![c] = "future"] \/ pc' = [pc EXCEPT ![c] = "spin"]
      /\ mine' = mine \/ \E r : mine' = [mine EXCEPT ![c] = r]
  BY <1>1 DEF WaitTaskDone, TakeFuture
<1>4. DOMAIN pc = Clients /\ DOMAIN mine = Clients
  BY DEF TypeOK
<1>5. pc'[c] \in {"future", "spin"} /\ \A d \in Clients : d # c => pc'[d] = pc[d]
  BY <1>3, <1>4
<1>6. \A d \in Clients : d # c => mine'[d] = mine[d]
  BY <1>3, <1>4
<1> QED
  BY <1>2, <1>3, <1>5, <1>6

LEMMA ClientType ==
  ASSUME TypeOK, NEW c \in Clients, ClientStep(c)
  PROVE  TypeOK'
<1> USE SessionConstants
<1>1. ASSUME NEW t \in TagsOf[c], NEW n \in DataNums, NEW a \in Addrs, Send(c, t, n, a)
      PROVE  TypeOK'
  <2>1. request_id_ \in Ids /\ request_id_' \in 0 .. MaxRequests
    BY <1>1 DEF Send, TypeOK, Ids
  <2>2. n \in Nat /\ (n = 0) \in BOOLEAN
    BY <1>1
  <2>3. process_finished_' \in [Ids -> BOOLEAN]
    BY <1>1, <2>2 DEF Send, TypeOK
  <2>4. request_list_' \in Seq(Ids)
    BY <1>1, <2>1 DEF Send, TypeOK
  <2> QED
    BY <1>1, <2>1, <2>2, <2>3, <2>4 DEF Send, TypeOK, CallStages
<1>2. CASE Upload(c)
  <2>1. mine[c] \in Ids /\ data_num_[mine[c]] \in Nat
    BY DEF TypeOK
  <2>2. processing_unit_' \in Nat /\ processing_req_' \in Nat
    <3>1. processing_unit_ + data_num_[mine[c]] \in Int /\ processing_req_ + 1 \in Int
      BY <2>1 DEF TypeOK
    <3> QED
      BY <1>2, <3>1, ModNat, Zenon DEF Upload
  <2> QED
    BY <1>2, <2>1, <2>2 DEF Upload, AfterUpload, TypeOK, CallStages
<1>3. CASE CheckEmpty(c)
  <2>1. mine[c] \in Ids
    BY DEF TypeOK
  <2>2. CheckAndResponse(mine[c])
    BY <1>3 DEF CheckEmpty
  <2> QED
    BY <1>3, <2>1, <2>2, CheckAndResponseType DEF CheckEmpty, TypeOK, CallStages
<1>4. ASSUME NEW t \in TagsOf[c], WaitTaskDone(c, t) PROVE TypeOK'
  <2>1. wait_set' \in [Clients -> SUBSET Ids]
    BY <1>4 DEF WaitTaskDone, Outstanding, TypeOK
  <2>2. \A i \in DOMAIN request_list_ : request_list_[i] \in Ids
    BY DEF TypeOK
  <2>3. /\ aborted' \in BOOLEAN /\ future_taken' \in [Ids -> BOOLEAN]
        /\ mine' \in [Clients -> Ids]
        /\ pc' \in [Clients -> CallStages]
    <3>1. ASSUME NEW i \in DOMAIN request_list_, TakeFuture(c, Listed(i))
          PROVE  <2>3!:
      BY <2>2, <3>1, Zenon DEF TakeFuture, Listed, TypeOK, CallStages
    <3>2. ASSUME pc' = [pc EXCEPT ![c] = "spin"],
                 UNCHANGED <<aborted, future_taken, mine>>
          PROVE  <2>3!:
      BY <3>2 DEF TypeOK, CallStages
    <3> QED
      BY <1>4, <3>1, <3>2 DEF WaitTaskDone
  <2> QED
    BY <1>4, <2>1, <2>3 DEF WaitTaskDone, TypeOK
<1>5. CASE WaitFuture(c)
  BY <1>5 DEF WaitFuture, TypeOK, CallStages
<1>6. CASE WaitSpin(c)
  BY <1>6 DEF WaitSpin, TypeOK, CallStages
<1>7. CASE (\E t \in TagsOf[c] : DiscardTask(c, t)) \/ SyncStep(c)
  <2>1. is_discarded_' \in [Ids -> BOOLEAN] /\ why' \in [Ids -> Causes \cup {"none"}]
    <3>1. ASSUME NEW t \in TagsOf[c], DiscardTask(c, t) PROVE <2>1!:
      BY <3>1, DiscardType DEF DiscardTask, Causes
    <3>2. CASE SyncDiscard(c)
      BY <3>2, DiscardType DEF SyncDiscard, Causes
    <3>3. CASE SyncDone(c) \/ SyncExpire(c)
      BY <3>3 DEF SyncDone, SyncExpire, TypeOK
    <3> QED
      BY <1>7, <3>1, <3>2, <3>3 DEF SyncStep
  <2>2. /\ UNCHANGED <<session, identity, progress, future_taken, life, pipeline, limit, mine,
                       wait_set, pool, ending, history>>
        /\ UNCHANGED is_sync_link_
        /\ pc' \in [Clients -> CallStages]
    BY <1>7, DiscardFrame
  <2> QED
    BY <2>1, <2>2 DEF TypeOK
<1> QED
  BY <1>1, <1>2, <1>3, <1>4, <1>5, <1>6, <1>7 DEF ClientStep

LEMMA PipelineType ==
  ASSUME TypeOK, Accounted, NEW r \in Ids, PipelineStep(r)
  PROVE  TypeOK'
<1>1. ASSUME NEW s \in Statuses, ItemDone(r, s)
      PROVE  TypeOK'
  <2>1. inflight[r] \in Nat /\ wait_num_[r] \in Nat /\ inflight[r] <= wait_num_[r]
    BY DEF TypeOK, Accounted
  <2>2. inflight[r] - 1 \in Nat /\ wait_num_[r] - 1 \in Nat
    BY <1>1, <2>1 DEF ItemDone
  <2>3. inflight' \in [Ids -> Nat] /\ wait_num_' \in [Ids -> Nat]
    BY <1>1, <2>2 DEF ItemDone, TypeOK
  <2>4. status_' \in [Ids -> Statuses]
    BY <1>1 DEF ItemDone, KeepFirstError, TypeOK
  <2>5. process_finished_' \in [Ids -> BOOLEAN] /\ in_notify' \in [Ids -> BOOLEAN]
    BY <1>1 DEF ItemDone, TypeOK
  <2> QED
    BY <1>1, <2>3, <2>4, <2>5 DEF ItemDone, TypeOK
<1>2. CASE DoneNotify(r)
  <2>1. CheckAndResponse(r)
    BY <1>2 DEF DoneNotify
  <2> QED
    BY <1>2, <2>1, CheckAndResponseType DEF DoneNotify, TypeOK
<1> QED
  BY <1>1, <1>2 DEF PipelineStep

LEMMA WorkerType ==
  ASSUME TypeOK, NEW w \in Workers, WorkerStep(w)
  PROVE  TypeOK'
<1>1. ASSUME NEW r \in Ids, WorkerTake(w, r)
      PROVE  TypeOK'
  BY <1>1 DEF WorkerTake, TypeOK
<1>2. CASE WorkerTest(w)
  BY <1>2 DEF WorkerTest, TypeOK
<1>3. CASE WorkerCall(w)
  <2>1. wcur[w] \in Ids /\ wcur[w] \in Int /\ status_[wcur[w]] \in Statuses
    BY DEF TypeOK, Ids
  <2>2. reported' \in [Ids -> Statuses \cup {"none"}]
    BY <1>3, <2>1 DEF WorkerCall, TypeOK
  <2> QED
    BY <1>3, <2>1, <2>2 DEF WorkerCall, TypeOK
<1>4. CASE WorkerRelease(w)
  <2>1. wcur[w] \in Ids /\ data_num_[wcur[w]] \in Nat
    BY DEF TypeOK
  <2>2. processing_unit_' \in Nat /\ processing_req_' \in Nat
    <3>1. processing_unit_ - data_num_[wcur[w]] \in Int /\ processing_req_ - 1 \in Int
      BY <2>1 DEF TypeOK
    <3> QED
      BY <1>4, <3>1, ModNat, Zenon DEF WorkerRelease
  <2> QED
    BY <1>4, <2>2 DEF WorkerRelease, TypeOK
<1>5. CASE WorkerDelete(w)
  BY <1>5 DEF WorkerDelete, TypeOK
<1>6. CASE WorkerNext(w)
  <2>1. request_list_ # <<>> =>
          Head(request_list_) \in Ids /\ Tail(request_list_) \in Seq(Ids)
    BY HeadTail DEF TypeOK
  <2>2. request_list_' \in Seq(Ids) /\ wcur' \in [Workers -> Ids]
    BY <1>6, <2>1 DEF WorkerNext, Front, TypeOK
  <2>3. destroy' \in {"no", "wait", "awake", "dead"} /\ in_response_' \in BOOLEAN
    BY <1>6 DEF WorkerNext, NotifyDestroyer, TypeOK
  <2>4. wpc' \in [Workers -> {"idle", "test", "call", "release", "delete",
                              "next", "store"}]
    BY <1>6 DEF WorkerNext, TypeOK
  <2> QED
    BY <1>6, <2>2, <2>3, <2>4 DEF WorkerNext, TypeOK
<1>7. CASE WorkerStore(w)
  BY <1>7 DEF WorkerStore, TypeOK
<1> QED
  BY <1>1, <1>2, <1>3, <1>4, <1>5, <1>6, <1>7 DEF WorkerStep

LEMMA StepType == TypeOK /\ Accounted /\ [Next]_vars => TypeOK'
<1> SUFFICES ASSUME TypeOK, Accounted, [Next]_vars PROVE TypeOK'
  OBVIOUS
<1>1. CASE BeginDestroy
  BY <1>1 DEF BeginDestroy, TypeOK
<1>2. CASE WakeDestroy
  BY <1>2 DEF WakeDestroy, TypeOK
<1>3. CASE UNCHANGED vars
  BY <1>3 DEF vars, TypeOK
<1> QED
  BY <1>1, <1>2, <1>3, ClientType, PipelineType, WorkerType DEF Next

-----------------------------------------------------------------------------
(* Accounting: TypeOK is not inductive by itself, since --wait_num_ must not *)
(* go below zero.                                                            *)

LEMMA InitAccounted == Init => Accounted
  BY SessionConstants DEF Init, Accounted, Ids

\* Accounted looks at six variables only.
LEMMA AccountedFrame ==
  ASSUME Accounted,
         UNCHANGED <<inflight, wait_num_, request_id_, data_num_, pc, mine>>
  PROVE  Accounted'
  BY DEF Accounted

LEMMA StepAccounted == TypeOK /\ Accounted /\ [Next]_vars => Accounted'
<1> SUFFICES ASSUME TypeOK, Accounted, [Next]_vars PROVE Accounted'
  OBVIOUS
<1>1. ASSUME NEW c \in Clients, ClientStep(c) PROVE Accounted'
  <2>1. ASSUME NEW t \in TagsOf[c], NEW n \in DataNums, NEW a \in Addrs, Send(c, t, n, a)
        PROVE  Accounted'
    <3>1. request_id_ \in Ids /\ n \in Nat /\ request_id_ \in Int
      BY <2>1, SessionConstants DEF Send, TypeOK, Ids
    <3>2. \A r \in Ids : r \in Int
      BY SessionConstants DEF Ids
    <3>3. /\ inflight' = inflight
          /\ request_id_' = request_id_ + 1
          /\ \A r \in Ids : r # request_id_ =>
               wait_num_'[r] = wait_num_[r] /\ data_num_'[r] = data_num_[r]
          /\ wait_num_'[request_id_] = n /\ data_num_'[request_id_] = n
          /\ \A d \in Clients : d # c => pc'[d] = pc[d] /\ mine'[d] = mine[d]
          /\ mine'[c] = request_id_
      BY <2>1, <3>1 DEF Send, TypeOK
    <3>4. inflight[request_id_] = 0
      BY <3>1 DEF Accounted
    <3>5. \A r \in Ids : inflight[r] \in Nat /\ wait_num_[r] \in Nat
      BY DEF TypeOK
    <3>6. \A d \in Clients : mine[d] \in Ids
      BY DEF TypeOK
    <3>7. \A r \in Ids : inflight'[r] <= wait_num_'[r]
      BY <3>1, <3>3, <3>4, <3>5 DEF Accounted
    <3>8. \A r \in Ids : r >= request_id_' => inflight'[r] = 0
      BY <3>1, <3>2, <3>3 DEF Accounted
    <3>9. \A d \in Clients : pc'[d] = "upload" =>
            /\ mine'[d] < request_id_'
            /\ inflight'[mine'[d]] = 0
            /\ wait_num_'[mine'[d]] = data_num_'[mine'[d]]
      <4> SUFFICES ASSUME NEW d \in Clients, pc'[d] = "upload"
                   PROVE  /\ mine'[d] < request_id_'
                          /\ inflight'[mine'[d]] = 0
                          /\ wait_num_'[mine'[d]] = data_num_'[mine'[d]]
        OBVIOUS
      <4>1. CASE d = c
        BY <4>1, <3>1, <3>3, <3>4
      <4>2. CASE d # c
        <5>1. /\ mine'[d] = mine[d] /\ mine[d] \in Ids /\ mine[d] \in Int
              /\ mine[d] < request_id_ /\ inflight[mine[d]] = 0
              /\ wait_num_[mine[d]] = data_num_[mine[d]]
          BY <4>2, <3>2, <3>3, <3>6 DEF Accounted
        <5> QED
          BY <5>1, <3>1, <3>3
      <4> QED
        BY <4>1, <4>2
    <3>10. \A d, e \in Clients :
             pc'[d] = "upload" /\ pc'[e] = "upload" /\ mine'[d] = mine'[e] => d = e
      BY <3>1, <3>2, <3>3, <3>6 DEF Accounted
    <3> QED
      BY <3>7, <3>8, <3>9, <3>10 DEF Accounted
  <2>2. CASE Upload(c)
    BY <2>2 DEF Upload, AfterUpload, TypeOK, Accounted, Ids
  <2>3. CASE CheckEmpty(c)
    BY <2>3 DEF CheckEmpty, TypeOK, Accounted
  <2>4. CASE \E t \in TagsOf[c] : WaitTaskDone(c, t)
    <3>1. \A d \in Clients : pc'[d] = "upload" =>
            pc[d] = "upload" /\ mine'[d] = mine[d]
      BY <2>4, WaitBegins
    <3>2. UNCHANGED <<inflight, wait_num_, request_id_, data_num_>>
      BY <2>4, WaitBegins
    <3> QED
      BY <3>1, <3>2 DEF Accounted
  <2>5. CASE WaitFuture(c)
    BY <2>5 DEF WaitFuture, TypeOK, Accounted
  <2>6. CASE WaitSpin(c)
    BY <2>6 DEF WaitSpin, TypeOK, Accounted
  <2>7. CASE (\E t \in TagsOf[c] : DiscardTask(c, t)) \/ SyncStep(c)
    <3>1. \A d \in Clients : pc'[d] = "upload" => pc[d] = "upload"
      BY <2>7, DiscardFrame
    <3> QED
      BY <2>7, <3>1, DiscardFrame DEF Accounted
  <2> QED
    BY <1>1, <2>1, <2>2, <2>3, <2>4, <2>5, <2>6, <2>7 DEF ClientStep
<1>2. ASSUME NEW r \in Ids, PipelineStep(r) PROVE Accounted'
  <2>1. ASSUME NEW s \in Statuses, ItemDone(r, s) PROVE Accounted'
    BY <2>1 DEF ItemDone, TypeOK, Accounted
  <2>2. CASE DoneNotify(r)
    BY <2>2, AccountedFrame DEF DoneNotify
  <2> QED
    BY <1>2, <2>1, <2>2 DEF PipelineStep
<1>3. ASSUME NEW w \in Workers, WorkerStep(w) PROVE Accounted'
  BY <1>3, AccountedFrame DEF WorkerStep, WorkerTake, WorkerTest, WorkerCall,
     WorkerRelease, WorkerDelete, WorkerNext, WorkerStore
<1>4. CASE BeginDestroy \/ WakeDestroy \/ UNCHANGED vars
  BY <1>4, AccountedFrame DEF BeginDestroy, WakeDestroy, vars
<1> QED
  BY <1>1, <1>2, <1>3, <1>4 DEF Next

\* Every variable of the session, its requests and its counters keeps its type;
\* wait_num_ in particular never passes below zero (the assert in ProcessDone).
THEOREM TypeCorrect == Spec => []TypeOK
<1>1. Init => TypeOK /\ Accounted
  BY InitType, InitAccounted
<1>2. TypeOK /\ Accounted /\ [Next]_vars => (TypeOK /\ Accounted)'
  BY StepType, StepAccounted
<1> QED
  BY <1>1, <1>2, PTL DEF Spec

-----------------------------------------------------------------------------
(* The order of the responses *)

LEMMA TailElems ==
  ASSUME NEW s \in Seq(Ids), s # <<>>
  PROVE  /\ 1 \in DOMAIN s /\ Head(s) = s[1]
         /\ \A i \in DOMAIN Tail(s) :
              i \in Int /\ i >= 1 /\ i + 1 \in DOMAIN s /\ Tail(s)[i] = s[i + 1]
  OBVIOUS

\* Popping the front and handing it to the response task keeps the order.
LEMMA PopOrdered ==
  ASSUME TypeOK, Ordered, request_list_ # <<>>,
         request_list_' = Tail(request_list_),
         UNCHANGED <<request_id_, last_response>>
  PROVE  /\ last_response' < request_id_'
         /\ \A i \in DOMAIN request_list_' :
              /\ request_list_'[i] < request_id_'
              /\ last_response' < request_list_'[i]
              /\ Front < request_list_'[i]
         /\ \A i, j \in DOMAIN request_list_' :
              i < j => request_list_'[i] < request_list_'[j]
         /\ Front < request_id_' /\ last_response' < Front
<1>1. /\ 1 \in DOMAIN request_list_ /\ Front = request_list_[1]
      /\ \A i \in DOMAIN request_list_' :
           /\ i \in Int /\ i >= 1 /\ i + 1 \in DOMAIN request_list_
           /\ request_list_'[i] = request_list_[i + 1]
  BY TailElems DEF TypeOK, Front
<1> QED
  BY <1>1 DEF Ordered

LEMMA CheckAndResponseOrder ==
  ASSUME TypeOK, OrderInv, NEW r \in Ids, CheckAndResponse(r),
         UNCHANGED <<wpc, wcur, request_id_, last_response>>
  PROVE  OrderInv'
<1>1. CASE UNCHANGED <<request_list_, in_response_, posted>>
  BY <1>1 DEF OrderInv, OneResponder, FlagHeld, Ordered, StoreNonEmpty, Active
<1>2. CASE request_list_ # <<>> /\ ~in_response_ /\ StartResponse
  <2>1. posted = {} /\ Active = {} /\ posted' = {Front} /\ Active' = {}
        /\ in_response_' = TRUE
    BY <1>2 DEF OrderInv, FlagHeld, StartResponse, Active
  <2>2. OneResponder' /\ FlagHeld'
    BY <2>1 DEF OneResponder, FlagHeld
  <2>3. StoreNonEmpty'
    BY <2>1 DEF Active, StoreNonEmpty
  <2>4. request_list_' = Tail(request_list_)
    BY <1>2 DEF StartResponse
  <2>5. \A w \in Workers : wpc'[w] \notin {"test", "call"}
    BY <2>1 DEF Active
  <2>6. Ordered'
    BY <1>2, <2>1, <2>4, <2>5, PopOrdered DEF OrderInv, Ordered
  <2> QED
    BY <2>2, <2>3, <2>6 DEF OrderInv
<1> QED
  BY <1>1, <1>2 DEF CheckAndResponse

LEMMA InitOrder == Init => OrderInv
  BY SessionConstants DEF Init, OrderInv, OneResponder, FlagHeld, Ordered, StoreNonEmpty, Active

\* OrderInv looks at seven variables only.
LEMMA OrderFrame ==
  ASSUME OrderInv,
         UNCHANGED <<request_list_, request_id_, in_response_, posted, wpc, wcur,
                     last_response>>
  PROVE  OrderInv'
  BY DEF OrderInv, OneResponder, FlagHeld, Ordered, StoreNonEmpty, Active

LEMMA SendOrder ==
  ASSUME TypeOK, OrderInv, NEW c \in Clients, NEW t \in TagsOf[c], NEW n \in DataNums,
         NEW a \in Addrs, Send(c, t, n, a)
  PROVE  OrderInv'
<1>1. /\ request_list_ \in Seq(Ids) /\ request_id_ \in Ids /\ request_id_ \in Int
      /\ last_response \in Int
      /\ request_list_' = Append(request_list_, request_id_)
      /\ request_id_' = request_id_ + 1
      /\ UNCHANGED <<in_response_, posted, wpc, wcur, last_response>>
  BY SessionConstants DEF Send, TypeOK, Ids
<1>2. \A i \in DOMAIN request_list_' :
        \/ i \in DOMAIN request_list_ /\ request_list_'[i] = request_list_[i]
        \/ i = Len(request_list_) + 1 /\ request_list_'[i] = request_id_
  BY <1>1
<1>3. \A i \in DOMAIN request_list_ : i \in Int /\ i < Len(request_list_) + 1
                                      /\ request_list_[i] \in Int
  <2>1. \A i \in DOMAIN request_list_ : i \in Int /\ i < Len(request_list_) + 1
                                        /\ request_list_[i] \in Ids
    BY <1>1
  <2> QED
    BY <2>1 DEF Ids
<1>4. OneResponder' /\ FlagHeld'
  BY <1>1 DEF OrderInv, OneResponder, FlagHeld, Active
<1>5. StoreNonEmpty'
  BY <1>1 DEF StoreNonEmpty
<1>6. Ordered'
  <2>1. last_response' < request_id_'
    BY <1>1 DEF OrderInv, Ordered
  <2>2. \A i \in DOMAIN request_list_' :
          request_list_'[i] < request_id_' /\ last_response' < request_list_'[i]
    BY <1>1, <1>2, <1>3 DEF OrderInv, Ordered
  <2>3. \A i, j \in DOMAIN request_list_' :
          i < j => request_list_'[i] < request_list_'[j]
    BY <1>1, <1>2, <1>3 DEF OrderInv, Ordered
  <2>4. \A r \in posted : r \in Int
    BY DEF TypeOK, Ids
  <2>5. \A r \in posted' :
          /\ r < request_id_' /\ last_response' < r
          /\ \A i \in DOMAIN request_list_' : r < request_list_'[i]
    BY <1>1, <1>2, <2>4 DEF OrderInv, Ordered
  <2>6. \A w \in Workers : wcur[w] \in Int
    BY DEF TypeOK, Ids
  <2>7. \A w \in Workers : wpc'[w] \in {"test", "call"} =>
          /\ wcur'[w] < request_id_' /\ last_response' < wcur'[w]
          /\ \A i \in DOMAIN request_list_' : wcur'[w] < request_list_'[i]
    BY <1>1, <1>2, <2>6 DEF OrderInv, Ordered
  <2> QED
    BY <2>1, <2>2, <2>3, <2>5, <2>7 DEF Ordered
<1> QED
  BY <1>4, <1>5, <1>6 DEF OrderInv

LEMMA WorkerOrder ==
  ASSUME TypeOK, OrderInv, NEW w \in Workers, WorkerStep(w)
  PROVE  OrderInv'
<1> USE DEF OrderInv
<1>0. wpc \in [Workers -> {"idle", "test", "call", "release", "delete",
                           "next", "store"}]
      /\ wcur \in [Workers -> Ids]
  BY DEF TypeOK
<1>1. ASSUME NEW r \in Ids, WorkerTake(w, r) PROVE OrderInv'
  <2>1. posted = {r} /\ posted' = {} /\ Active = {} /\ Active' = {w}
    BY <1>0, <1>1 DEF WorkerTake, OneResponder, Active
  <2>2. in_response_
    BY <2>1 DEF FlagHeld
  <2>3. OneResponder' /\ FlagHeld'
    BY <1>1, <2>1, <2>2 DEF WorkerTake, OneResponder, FlagHeld
  <2>4. StoreNonEmpty'
    BY <1>0, <1>1 DEF WorkerTake, StoreNonEmpty
  <2>5. Ordered'
    BY <1>0, <1>1 DEF WorkerTake, Ordered
  <2> QED
    BY <2>3, <2>4, <2>5
<1>2. ASSUME wpc[w] # "idle" PROVE Active = {w} /\ posted = {} /\ in_response_
  BY <1>2 DEF OneResponder, FlagHeld, Active
<1>3. CASE WorkerTest(w) \/ WorkerCall(w) \/ WorkerRelease(w) \/ WorkerDelete(w)
  <2>1. Active = {w} /\ posted = {} /\ in_response_
    BY <1>2, <1>3 DEF WorkerTest, WorkerCall, WorkerRelease, WorkerDelete
  <2>2. /\ Active' = {w}
        /\ UNCHANGED <<posted, in_response_, request_list_, request_id_, wcur>>
    BY <1>0, <1>3, <2>1 DEF WorkerTest, WorkerCall, WorkerRelease, WorkerDelete,
                            Active
  <2>3. OneResponder' /\ FlagHeld'
    BY <2>1, <2>2 DEF OneResponder, FlagHeld
  <2>4. StoreNonEmpty'
    BY <1>0, <1>3, <2>2 DEF WorkerTest, WorkerCall, WorkerRelease, WorkerDelete,
                            StoreNonEmpty
  <2>5. Ordered'
    <3>1. \A v \in Workers : v # w => wpc[v] = "idle"
      BY <2>1 DEF Active
    <3>2. CASE ~WorkerCall(w)
      BY <1>0, <1>3, <2>2, <3>2 DEF WorkerTest, WorkerRelease, WorkerDelete, Ordered
    <3>3. CASE WorkerCall(w)
      <4>1. /\ last_response' = wcur[w]
            /\ \A v \in Workers : wpc'[v] \notin {"test", "call"}
        BY <1>0, <3>1, <3>3 DEF WorkerCall
      <4>2. wpc[w] = "call"
        BY <3>3 DEF WorkerCall
      <4> QED
        BY <2>1, <2>2, <4>1, <4>2 DEF Ordered
    <3> QED
      BY <3>2, <3>3
  <2> QED
    BY <2>3, <2>4, <2>5
<1>4. CASE WorkerNext(w)
  <2>1. Active = {w} /\ posted = {} /\ posted' = {} /\ in_response_
        /\ UNCHANGED <<request_id_, last_response>>
    BY <1>2, <1>4 DEF WorkerNext
  <2>2. \A v \in Workers : v # w => wpc'[v] = "idle"
    BY <1>0, <1>4, <2>1 DEF Active, WorkerNext
  <2>3. CASE request_list_ = <<>> \/ ~process_finished_[Front]
    <3>1. /\ wpc'[w] \in {"idle", "store"} /\ wcur' = wcur
          /\ request_list_' = request_list_
          /\ wpc'[w] = "store" => request_list_' # <<>>
          /\ wpc'[w] = "store" => in_response_'
      BY <1>0, <1>4, <2>1, <2>3 DEF WorkerNext
    <3>2. OneResponder' /\ FlagHeld'
      BY <2>1, <2>2, <3>1 DEF OneResponder, FlagHeld, Active
    <3>3. StoreNonEmpty'
      BY <2>2, <3>1 DEF StoreNonEmpty
    <3>4. Ordered'
      BY <2>1, <2>2, <3>1 DEF Ordered
    <3> QED
      BY <3>2, <3>3, <3>4
  <2>4. CASE request_list_ # <<>> /\ process_finished_[Front]
    <3>1. /\ wpc'[w] = "test" /\ wcur'[w] = Front
          /\ request_list_' = Tail(request_list_)
          /\ in_response_'
      BY <1>0, <1>4, <2>1, <2>4 DEF WorkerNext
    <3>2. OneResponder' /\ FlagHeld'
      BY <2>1, <2>2, <3>1 DEF OneResponder, FlagHeld, Active
    <3>3. StoreNonEmpty'
      BY <2>2, <3>1 DEF StoreNonEmpty
    <3>4. Ordered'
      BY <2>1, <2>2, <2>4, <3>1, PopOrdered DEF Ordered
    <3> QED
      BY <3>2, <3>3, <3>4
  <2> QED
    BY <2>3, <2>4
<1>5. CASE WorkerStore(w)
  <2>1. /\ \A v \in Workers : wpc'[v] = "idle"
        /\ posted' = {}
        /\ UNCHANGED <<request_list_, request_id_, last_response>>
    BY <1>0, <1>2, <1>5 DEF WorkerStore, Active
  <2> QED
    BY <2>1 DEF OneResponder, FlagHeld, StoreNonEmpty, Ordered, Active
<1> QED
  BY <1>1, <1>3, <1>4, <1>5 DEF WorkerStep

LEMMA StepOrder == TypeOK /\ OrderInv /\ [Next]_vars => OrderInv'
<1> SUFFICES ASSUME TypeOK, OrderInv, [Next]_vars PROVE OrderInv'
  OBVIOUS
<1>1. ASSUME NEW c \in Clients, ClientStep(c) PROVE OrderInv'
  <2>1. CASE CheckEmpty(c)
    <3>1. mine[c] \in Ids
      BY DEF TypeOK
    <3> QED
      BY <2>1, <3>1, CheckAndResponseOrder DEF CheckEmpty
  <2>2. CASE Upload(c) \/ (\E t \in TagsOf[c] : WaitTaskDone(c, t)) \/ WaitFuture(c) \/ WaitSpin(c)
    BY <2>2, OrderFrame DEF Upload, WaitTaskDone, WaitFuture, WaitSpin
  <2>3. CASE (\E t \in TagsOf[c] : DiscardTask(c, t)) \/ SyncStep(c)
    BY <2>3, OrderFrame, DiscardFrame
  <2> QED
    BY <1>1, <2>1, <2>2, <2>3, SendOrder DEF ClientStep
<1>2. ASSUME NEW r \in Ids, PipelineStep(r) PROVE OrderInv'
  <2>1. CASE DoneNotify(r)
    BY <2>1, CheckAndResponseOrder DEF DoneNotify
  <2>2. ASSUME NEW s \in Statuses, ItemDone(r, s) PROVE OrderInv'
    BY <2>2, OrderFrame DEF ItemDone
  <2> QED
    BY <1>2, <2>1, <2>2 DEF PipelineStep
<1>3. CASE BeginDestroy \/ WakeDestroy \/ UNCHANGED vars
  BY <1>3, OrderFrame DEF BeginDestroy, WakeDestroy, vars
<1> QED
  BY <1>1, <1>2, <1>3, WorkerOrder DEF Next

LEMMA OrderInvariant == Spec => [](TypeOK /\ Accounted /\ OrderInv)
<1>1. Init => TypeOK /\ Accounted /\ OrderInv
  BY InitType, InitAccounted, InitOrder
<1>2. TypeOK /\ Accounted /\ OrderInv /\ [Next]_vars
        => (TypeOK /\ Accounted /\ OrderInv)'
  BY StepType, StepAccounted, StepOrder
<1> QED
  BY <1>1, <1>2, PTL DEF Spec

\* Never two response tasks for a session: in_response_ is an effective lock.
THEOREM ResponderIsUnique == Spec => []OneResponder
<1>1. OrderInv => OneResponder
  BY DEF OrderInv
<1> QED
  BY <1>1, OrderInvariant, PTL

\* The observer hears of requests in the order they were sent, at most once
\* each, for any number of clients, threads and requests, and whether or not
\* addresses are reused.
THEOREM ResponsesAreOrdered == Spec => []ResponseInOrder
<1>1. OrderInv => ResponseInOrder
  BY DEF OrderInv, Ordered, ResponseInOrder
<1> QED
  BY <1>1, OrderInvariant, PTL

-----------------------------------------------------------------------------
(* The destructor's condition variable *)

LEMMA CheckAndResponseAwake ==
  ASSUME TypeOK, OrderInv, DestroyerAwake, NEW r \in Ids, CheckAndResponse(r)
  PROVE  DestroyerAwake'
  BY DEF CheckAndResponse, NotifyDestroyer, StartResponse, DestroyerAwake, AllDone

LEMMA StepAwake ==
  TypeOK /\ OrderInv /\ DestroyerAwake /\ [Next]_vars => DestroyerAwake'
<1> SUFFICES ASSUME TypeOK, OrderInv, DestroyerAwake, [Next]_vars
             PROVE  DestroyerAwake'
  OBVIOUS
<1> USE DEF DestroyerAwake, AllDone
<1>1. ASSUME NEW c \in Clients, ClientStep(c) PROVE DestroyerAwake'
  <2>1. ASSUME NEW t \in TagsOf[c], NEW n \in DataNums, NEW a \in Addrs, Send(c, t, n, a)
        PROVE  DestroyerAwake'
    BY <2>1 DEF Send
  <2>2. CASE CheckEmpty(c)
    <3>1. mine[c] \in Ids
      BY DEF TypeOK
    <3> QED
      BY <2>2, <3>1, CheckAndResponseAwake DEF CheckEmpty
  <2>3. CASE Upload(c) \/ (\E t \in TagsOf[c] : WaitTaskDone(c, t)) \/ WaitFuture(c) \/ WaitSpin(c)
    BY <2>3 DEF Upload, WaitTaskDone, WaitFuture, WaitSpin
  <2>4. CASE (\E t \in TagsOf[c] : DiscardTask(c, t)) \/ SyncStep(c)
    BY <2>4, DiscardFrame
  <2> QED
    BY <1>1, <2>1, <2>2, <2>3, <2>4 DEF ClientStep
<1>2. ASSUME NEW r \in Ids, PipelineStep(r) PROVE DestroyerAwake'
  <2>1. CASE DoneNotify(r)
    BY <2>1, CheckAndResponseAwake DEF DoneNotify
  <2>2. ASSUME NEW s \in Statuses, ItemDone(r, s) PROVE DestroyerAwake'
    BY <2>2 DEF ItemDone
  <2> QED
    BY <1>2, <2>1, <2>2 DEF PipelineStep
<1>3. ASSUME NEW w \in Workers, WorkerStep(w) PROVE DestroyerAwake'
  <2>1. CASE WorkerNext(w)
    <3>1. in_response_
      BY <2>1 DEF WorkerNext, OrderInv, FlagHeld, Active
    <3> QED
      BY <2>1, <3>1 DEF WorkerNext, NotifyDestroyer
  <2>2. CASE WorkerStore(w)
    BY <2>2 DEF WorkerStore, OrderInv, StoreNonEmpty
  <2> QED
    BY <1>3, <2>1, <2>2 DEF WorkerStep, WorkerTake, WorkerTest, WorkerCall,
       WorkerRelease, WorkerDelete
<1>4. CASE BeginDestroy \/ WakeDestroy \/ UNCHANGED vars
  BY <1>4 DEF BeginDestroy, WakeDestroy, vars
<1> QED
  BY <1>1, <1>2, <1>3, <1>4 DEF Next

\* ~Session never sleeps through the last notification of sync_cond_.
THEOREM DestructorIsWoken == Spec => []DestroyerAwake
<1>1. Init => DestroyerAwake
  BY DEF Init, DestroyerAwake
<1> QED
  BY <1>1, StepAwake, OrderInvariant, PTL DEF Spec

-----------------------------------------------------------------------------
(* The life of a request *)

LEMMA TailCovers ==
  ASSUME NEW s \in Seq(Ids), s # <<>>, NEW j \in DOMAIN s, j # 1
  PROVE  j - 1 \in DOMAIN Tail(s) /\ Tail(s)[j - 1] = s[j]
  OBVIOUS

\* What the set of listed requests loses when the front is popped, and what it
\* gains when a request is sent.
LEMMA PopQueued ==
  ASSUME TypeOK, Ordered, request_list_ # <<>>,
         request_list_' = Tail(request_list_)
  PROVE  /\ Front \in Queued /\ Front \in Ids
         /\ Queued' = Queued \ {Front}
         /\ \A q \in Queued' : Front < q
<1>1. /\ 1 \in DOMAIN request_list_ /\ Front = request_list_[1]
      /\ \A i \in DOMAIN request_list_' :
           /\ i \in Int /\ i >= 1 /\ i + 1 \in DOMAIN request_list_
           /\ request_list_'[i] = request_list_[i + 1]
  BY TailElems DEF TypeOK, Front
<1>3. Front \in Queued /\ Front \in Ids
  BY <1>1 DEF Queued, TypeOK
<1>4. \A q \in Queued' : Front < q /\ q \in Queued
  BY <1>1 DEF Queued, Ordered
<1>5. \A q \in Queued : q = Front \/ q \in Queued'
  <2> SUFFICES ASSUME NEW j \in DOMAIN request_list_, j # 1
               PROVE  request_list_[j] \in Queued'
    BY <1>1 DEF Queued
  <2>1. j - 1 \in DOMAIN request_list_' /\ request_list_'[j - 1] = request_list_[j]
    BY TailCovers DEF TypeOK
  <2> QED
    BY <2>1 DEF Queued
<1>6. Front \notin Queued'
  <2>1. Front \in Int
    BY <1>3 DEF Ids
  <2> QED
    BY <1>4, <2>1
<1> QED
  BY <1>3, <1>4, <1>5, <1>6

LEMMA SendQueued ==
  ASSUME TypeOK, Ordered, NEW c \in Clients, NEW t \in TagsOf[c], NEW n \in DataNums, NEW a \in Addrs,
         Send(c, t, n, a)
  PROVE  /\ request_id_ \in Ids /\ request_id_ \in Int /\ request_id_' = request_id_ + 1
         /\ Queued' = Queued \cup {request_id_}
         /\ \A q \in Queued : q < request_id_
<1>1. /\ request_list_ \in Seq(Ids) /\ request_id_ \in Ids /\ request_id_ \in Int
      /\ request_list_' = Append(request_list_, request_id_)
      /\ request_id_' = request_id_ + 1
  BY SessionConstants DEF Send, TypeOK, Ids
<1>2. /\ DOMAIN request_list_' = DOMAIN request_list_ \cup {Len(request_list_) + 1}
      /\ request_list_'[Len(request_list_) + 1] = request_id_
      /\ \A i \in DOMAIN request_list_ : request_list_'[i] = request_list_[i]
  BY <1>1
<1>3. Queued' = Queued \cup {request_id_}
  BY <1>2, Zenon DEF Queued
<1> QED
  BY <1>1, <1>3 DEF Queued, Ordered

\* The listed requests are ids, and so are the popped one and the worker's.
LEMMA QueuedIds ==
  ASSUME TypeOK
  PROVE  /\ Queued \in SUBSET Ids
         /\ \A r \in Ids : r \in Int
         /\ posted \in SUBSET Ids
         /\ wcur \in [Workers -> Ids] /\ mine \in [Clients -> Ids]
<1>1. Queued \in SUBSET Ids
  BY DEF TypeOK, Queued
<1>2. \A r \in Ids : r \in Int
  BY SessionConstants DEF Ids
<1> QED
  BY <1>1, <1>2 DEF TypeOK

LEMMA InitLife == Init => LifeInv
<1> SUFFICES ASSUME Init PROVE LifeInv
  OBVIOUS
<1>1. Queued = {} /\ posted = {} /\ \A r \in Ids : r >= request_id_
  BY SessionConstants DEF Init, Queued, Ids
<1> QED
  BY <1>1 DEF Init, LifeInv, Lifetimes, Waiting, Answered, FutureOwned, Serving,
     DroppedIffDiscarded

\* LifeInv looks at these variables only.
LEMMA LifeFrame ==
  ASSUME LifeInv,
         UNCHANGED <<request_list_, request_id_, tag_, life, posted, wpc, wcur, pc,
                     mine, wait_set, is_discarded_, why, future_taken, reported>>
  PROVE  LifeInv'
  BY DEF LifeInv, Lifetimes, Waiting, Answered, FutureOwned, Serving, Queued, Held,
     DroppedIffDiscarded

LEMMA CheckAndResponseLife ==
  ASSUME TypeOK, OrderInv, LifeInv, NEW r \in Ids, CheckAndResponse(r),
         UNCHANGED <<request_id_, tag_, life, wpc, wcur, mine, wait_set,
                     is_discarded_, why, future_taken, reported>>,
         \A c \in Clients : pc'[c] = pc[c] \/ (pc[c] = "check" /\ pc'[c] = "idle")
  PROVE  LifeInv'
<1>0. Queued \in SUBSET Ids /\ \A q \in Ids : q \in Int
  BY QueuedIds
<1>1. CASE UNCHANGED <<request_list_, posted>>
  <2>1. Queued' = Queued
    BY <1>1 DEF Queued
  <2> QED
    BY <1>1, <2>1 DEF LifeInv, Lifetimes, Waiting, Answered, FutureOwned, Serving,
       Held, DroppedIffDiscarded
<1>2. CASE request_list_ # <<>> /\ ~in_response_ /\ StartResponse
  <2>1. /\ Front \in Queued /\ Front \in Ids /\ Queued' = Queued \ {Front}
        /\ \A q \in Queued' : Front < q
        /\ posted = {} /\ posted' = {Front}
    BY <1>2, PopQueued DEF StartResponse, OrderInv, FlagHeld
  <2>2. Lifetimes'
    BY <1>0, <2>1 DEF LifeInv, Lifetimes, Held, Serving
  <2>3. Waiting' /\ FutureOwned' /\ Answered'
    BY <1>0, <2>1 DEF LifeInv, Waiting, FutureOwned, Answered, DroppedIffDiscarded
  <2> QED
    BY <2>2, <2>3 DEF LifeInv
<1> QED
  BY <1>1, <1>2 DEF CheckAndResponse

LEMMA SendLife ==
  ASSUME TypeOK, OrderInv, LifeInv, NEW c \in Clients, NEW t \in TagsOf[c], NEW n \in DataNums,
         NEW a \in Addrs, Send(c, t, n, a)
  PROVE  LifeInv'
<1>0. Queued \in SUBSET Ids /\ \A q \in Ids : q \in Int
  BY QueuedIds
<1>1. /\ request_id_ \in Ids /\ request_id_ \in Int /\ request_id_' = request_id_ + 1
      /\ Queued' = Queued \cup {request_id_}
      /\ \A q \in Queued : q < request_id_
  BY SendQueued DEF OrderInv
<1>2. /\ UNCHANGED <<posted, wpc, wcur, wait_set, is_discarded_, why, future_taken, reported>>
      /\ life \in [Ids -> {"none", "live", "freed"}]
      /\ life' = [life EXCEPT ![request_id_] = "live"]
      /\ mine \in [Clients -> Ids] /\ wcur \in [Workers -> Ids]
      /\ wait_set \in [Clients -> SUBSET Ids] /\ posted \in SUBSET Ids
  BY DEF Send, TypeOK
<1>3. /\ \A d \in Clients : d # c => pc'[d] = pc[d] /\ mine'[d] = mine[d]
      /\ pc[c] = "idle" /\ pc'[c] = "upload"
      /\ \A r \in Ids : r # request_id_ => tag_'[r] = tag_[r]
  BY DEF Send, TypeOK
<1>4. life[request_id_] = "none"
  BY <1>1 DEF LifeInv, Lifetimes
<1>5. Lifetimes'
  <2>1. \A r \in Ids : life'[r] = "none" <=> r >= request_id_'
    BY <1>0, <1>1, <1>2, <1>4 DEF LifeInv, Lifetimes
  <2>2. \A r \in Queued' \cup posted' : life'[r] = "live"
    BY <1>0, <1>1, <1>2, <1>4 DEF LifeInv, Lifetimes
  <2>3. \A r \in posted' \cup {s \in Ids : life[s] = "freed"}, q \in Queued' : r < q
    BY <1>0, <1>1, <1>2, <1>4 DEF LifeInv, Lifetimes
  <2>4. \A w \in Workers : Serving(w)' =>
          life'[wcur'[w]] = "live" /\ \A q \in Queued' : wcur'[w] < q
    <3> SUFFICES ASSUME NEW w \in Workers, Serving(w)
                 PROVE  life'[wcur[w]] = "live" /\ \A q \in Queued' : wcur[w] < q
      BY <1>2 DEF Serving
    <3>1. /\ wcur[w] \in Ids /\ wcur[w] \in Int /\ life[wcur[w]] = "live"
          /\ \A q \in Queued : wcur[w] < q
      BY <1>0, <1>2 DEF LifeInv, Lifetimes
    <3>2. wcur[w] < request_id_
      BY <1>1, <3>1 DEF LifeInv, Lifetimes
    <3> QED
      BY <1>1, <1>2, <3>1, <3>2
  <2>5. \A r \in Ids : life'[r] = "live" => Held(r)'
    BY <1>0, <1>1, <1>2, <1>4 DEF LifeInv, Lifetimes, Held, Serving
  <2> QED
    BY <1>2, <2>1, <2>2, <2>3, <2>4, <2>5 DEF Lifetimes
<1>6. Waiting'
  <2> SUFFICES ASSUME NEW d \in Clients
               PROVE  /\ pc'[d] \in {"future", "spin"} => \A r \in wait_set[d] : r < request_id_ + 1
                      /\ pc'[d] = "future" => \A r \in wait_set[d] : r <= mine'[d]
                      /\ pc'[d] = "spin" => \A r \in wait_set[d] : r \notin Queued'
    BY <1>1, <1>2 DEF Waiting
  <2>1. CASE d = c
    BY <1>3, <2>1
  <2>2. CASE d # c
    <3>1. /\ pc'[d] = pc[d] /\ mine'[d] = mine[d]
          /\ \A r \in wait_set[d] : r \in Ids /\ r \in Int
      BY <1>0, <1>3, <2>2 DEF TypeOK
    <3>2. /\ pc[d] \in {"future", "spin"} => \A r \in wait_set[d] : r < request_id_
          /\ pc[d] = "future" => \A r \in wait_set[d] : r <= mine[d]
          /\ pc[d] = "spin" => \A r \in wait_set[d] : r \notin Queued
      BY DEF LifeInv, Waiting
    <3>3. pc'[d] \in {"future", "spin"} => \A r \in wait_set[d] : r < request_id_ + 1
      BY <1>1, <3>1, <3>2
    <3>4. pc'[d] = "future" => \A r \in wait_set[d] : r <= mine'[d]
      BY <3>1, <3>2
    <3>5. pc'[d] = "spin" => \A r \in wait_set[d] : r \notin Queued'
      BY <1>1, <3>1, <3>2
    <3> QED
      BY <3>3, <3>4, <3>5
  <2> QED
    BY <2>1, <2>2
<1>7. Answered'
  BY <1>0, <1>1, <1>2, <1>4 DEF LifeInv, Answered, DroppedIffDiscarded
<1>8. FutureOwned'
  <2>1. \A d \in Clients : pc'[d] = "future" =>
          mine'[d] < request_id_'
    <3> SUFFICES ASSUME NEW d \in Clients, pc'[d] = "future"
                 PROVE  mine'[d] < request_id_'
      OBVIOUS
    <3>1. /\ pc[d] = "future" /\ mine'[d] = mine[d] /\ mine[d] \in Ids
          /\ mine[d] \in Int
      BY <1>0, <1>2, <1>3
    <3> QED
      BY <1>1, <1>3, <3>1 DEF LifeInv, FutureOwned
  <2>2. \A r \in Ids : life'[r] = "none" => ~future_taken'[r]
    BY <1>1, <1>2, <1>4 DEF LifeInv, FutureOwned
  <2>3. \A r \in Ids : future_taken'[r] /\ life'[r] = "live" =>
          \E d \in Clients : pc'[d] = "future" /\ mine'[d] = r
    <3> SUFFICES ASSUME NEW r \in Ids, future_taken[r], life'[r] = "live"
                 PROVE  \E d \in Clients : pc'[d] = "future" /\ mine'[d] = r
      BY <1>2
    <3>1. life[r] = "live"
      BY <1>2, <1>4 DEF LifeInv, FutureOwned
    <3>2. PICK d \in Clients : pc[d] = "future" /\ mine[d] = r
      BY <3>1 DEF LifeInv, FutureOwned
    <3> QED
      BY <1>3, <3>2
  <2> QED
    BY <2>1, <2>2, <2>3 DEF FutureOwned
<1> QED
  BY <1>5, <1>6, <1>7, <1>8 DEF LifeInv

LEMMA WaitTaskDoneLife ==
  ASSUME TypeOK, OrderInv, LifeInv, NEW c \in Clients, NEW t \in TagsOf[c], WaitTaskDone(c, t)
  PROVE  LifeInv'
<1>0. /\ Queued \in SUBSET Ids /\ \A q \in Ids : q \in Int
      /\ wait_set \in [Clients -> SUBSET Ids] /\ mine \in [Clients -> Ids]
      /\ posted \in SUBSET Ids /\ wcur \in [Workers -> Ids]
  BY QueuedIds DEF TypeOK
<1>1. /\ UNCHANGED <<request_list_, request_id_, tag_, life, posted, wpc, wcur,
                     is_discarded_, why, reported>>
      /\ pc[c] = "idle" /\ pc'[c] \in {"future", "spin"}
      /\ \A d \in Clients : d # c =>
           pc'[d] = pc[d] /\ mine'[d] = mine[d] /\ wait_set'[d] = wait_set[d]
      /\ wait_set'[c] = Outstanding(t)
  BY DEF WaitTaskDone, TakeFuture, TypeOK
<1>2. Queued' = Queued
  BY <1>1 DEF Queued
<1>3. Lifetimes'
  BY <1>1, <1>2 DEF LifeInv, Lifetimes, Held, Serving
<1>4. Answered'
  BY <1>1, <1>2 DEF LifeInv, Answered, DroppedIffDiscarded
<1>5. \A r \in Outstanding(t) :
        /\ r \in Ids /\ r \in Int /\ r < request_id_ /\ life[r] = "live"
        /\ tag_[r] = t /\ Held(r)
  BY <1>0 DEF Outstanding, LifeInv, Lifetimes
<1>6. CASE \A i \in DOMAIN request_list_ : tag_[Listed(i)] # t
  <2>1. /\ pc'[c] = "spin" /\ UNCHANGED <<future_taken, mine>>
        /\ \A d \in Clients : pc'[d] = "future" <=> pc[d] = "future"
    BY <1>1, <1>6 DEF WaitTaskDone, LastTagged, TypeOK
  <2>2. \A r \in Outstanding(t) : r \notin Queued
    BY <1>5, <1>6 DEF Queued, Listed
  <2>3. Waiting'
    BY <1>1, <1>2, <1>5, <2>1, <2>2 DEF LifeInv, Waiting
  <2>4. FutureOwned'
    BY <1>1, <2>1 DEF LifeInv, FutureOwned
  <2> QED
    BY <1>3, <1>4, <2>3, <2>4 DEF LifeInv
<1>7. ASSUME NEW i \in DOMAIN request_list_, LastTagged(i, t),
             TakeFuture(c, Listed(i))
      PROVE  LifeInv'
  <2>1. /\ pc'[c] = "future" /\ mine'[c] = Listed(i) /\ Listed(i) \in Queued
        /\ future_taken' = [future_taken EXCEPT ![Listed(i)] = TRUE]
        /\ Listed(i) \in Ids /\ Listed(i) \in Int
        /\ tag_[Listed(i)] = t
    BY <1>0, <1>7 DEF TakeFuture, Listed, Queued, LastTagged, TypeOK
  <2>2. life[Listed(i)] = "live" /\ Listed(i) < request_id_
    BY <2>1, <1>0 DEF LifeInv, Lifetimes, TypeOK
  <2>3. \A r \in Outstanding(t) : r <= Listed(i)
    <3> SUFFICES ASSUME NEW r \in Outstanding(t) PROVE r <= Listed(i)
      OBVIOUS
    <3>1. r \in Int /\ tag_[r] = t /\ Held(r)
      BY <1>5
    <3>2. CASE r \in Queued
      <4>1. PICK j \in DOMAIN request_list_ : r = request_list_[j]
        BY <3>2 DEF Queued
      <4>2. ~(j > i)
        BY <1>7, <3>1, <4>1 DEF LastTagged, Listed
      <4>3. i \in Int /\ j \in Int
        <5>1. request_list_ \in Seq(Ids)
          BY DEF TypeOK
        <5> QED
          BY <5>1
      <4>4. j = i \/ j < i
        BY <4>2, <4>3
      <4> QED
        BY <2>1, <3>1, <4>1, <4>4 DEF OrderInv, Ordered, Listed
    <3>3. CASE r \in posted \/ \E w \in Workers : Serving(w) /\ wcur[w] = r
      <4>1. r < Listed(i)
        BY <2>1, <3>3 DEF LifeInv, Lifetimes
      <4> QED
        BY <2>1, <3>1, <4>1
    <3> QED
      BY <3>1, <3>2, <3>3 DEF Held
  <2>4. Waiting'
    BY <1>1, <1>2, <1>5, <2>1, <2>3 DEF LifeInv, Waiting
  <2>5. FutureOwned'
    <3>1. \A r \in Ids : life'[r] = "none" => ~future_taken'[r]
      BY <1>1, <2>1, <2>2 DEF LifeInv, FutureOwned, TypeOK
    <3>2. \A r \in Ids : future_taken'[r] /\ life'[r] = "live" =>
            \E d \in Clients : pc'[d] = "future" /\ mine'[d] = r
      <4> SUFFICES ASSUME NEW r \in Ids, future_taken'[r], life[r] = "live"
                   PROVE  \E d \in Clients : pc'[d] = "future" /\ mine'[d] = r
        BY <1>1
      <4>1. CASE r = Listed(i)
        BY <2>1, <4>1
      <4>2. CASE r # Listed(i)
        <5>1. future_taken[r]
          BY <2>1, <4>2 DEF TypeOK
        <5>2. PICK d \in Clients : pc[d] = "future" /\ mine[d] = r
          BY <5>1 DEF LifeInv, FutureOwned
        <5> QED
          BY <1>1, <5>2
      <4> QED
        BY <4>1, <4>2
    <3>3. \A d \in Clients : pc'[d] = "future" =>
            mine'[d] < request_id_'
      BY <1>1, <2>1, <2>2 DEF LifeInv, FutureOwned
    <3> QED
      BY <3>1, <3>2, <3>3 DEF FutureOwned
  <2> QED
    BY <1>3, <1>4, <2>4, <2>5 DEF LifeInv
<1> QED
  BY <1>6, <1>7 DEF WaitTaskDone

\* Discard of live requests: one that the response task has tested is answered or
\* dropped as the test said, the others will be dropped.
LEMMA DiscardAnswered ==
  ASSUME TypeOK, OrderInv, LifeInv, NEW S, \A r \in S : life[r] = "live",
         NEW cause \in {"asked", "struck"}, Discard(S, cause),
         UNCHANGED <<request_list_, posted, life, wpc, wcur, reported>>
  PROVE  Answered'
<1>0. /\ Queued' = Queued /\ Queued \in SUBSET Ids /\ posted \in SUBSET Ids
      /\ wcur \in [Workers -> Ids] /\ \A q \in Ids : q \in Int
  BY QueuedIds DEF Queued
<1>1. \A r \in Ids : /\ is_discarded_'[r] <=> is_discarded_[r] \/ r \in S
                     /\ r \notin S \/ is_discarded_[r] => why'[r] = why[r]
                     /\ r \in S /\ ~is_discarded_[r] /\ PassedTest(r) => why'[r] = "late"
                     /\ r \in S /\ ~is_discarded_[r] /\ ~PassedTest(r) => why'[r] = cause
  BY DEF Discard
<1>2. \A r \in Ids : is_discarded_'[r] <=> why'[r] # "none"
  BY <1>1 DEF LifeInv, Answered
<1>3. \A r \in Ids : life[r] # "live" => why'[r] = why[r]
  BY <1>1
<1>4. ASSUME NEW r \in Queued \cup posted PROVE r \in Ids /\ ~PassedTest(r)
  <2>1. \A w \in Workers : Serving(w) => wcur[w] # r
    <3>1. CASE r \in Queued
      BY <1>0, <3>1 DEF LifeInv, Lifetimes
    <3>2. CASE r \in posted
      BY <3>2 DEF OrderInv, OneResponder, Active, Serving
    <3> QED
      BY <3>1, <3>2
  <2> QED
    BY <1>0, <2>1 DEF PassedTest, Serving
<1>5. \A r \in Queued \cup posted : reported[r] = "none" /\ why'[r] # "late"
  BY <1>1, <1>4 DEF LifeInv, Answered
<1>6. \A w \in Workers :
        /\ wpc[w] \in {"test", "call"} => reported[wcur[w]] = "none"
        /\ wpc[w] = "test" => why'[wcur[w]] # "late"
        /\ wpc[w] = "call" => why'[wcur[w]] \in {"none", "late"}
        /\ wpc[w] \in {"release", "delete"} =>
             (reported[wcur[w]] = "none" <=> why'[wcur[w]] \in {"asked", "struck"})
  <2> SUFFICES ASSUME NEW w \in Workers, wpc[w] # "idle" 
               PROVE  /\ wpc[w] \in {"test", "call"} => reported[wcur[w]] = "none"
                      /\ wpc[w] = "test" => why'[wcur[w]] # "late"
                      /\ wpc[w] = "call" => why'[wcur[w]] \in {"none", "late"}
                      /\ wpc[w] \in {"release", "delete"} =>
                           (reported[wcur[w]] = "none" <=> why'[wcur[w]] \in {"asked", "struck"})
    OBVIOUS
  <2>1. \A v \in Workers : wpc[v] # "idle" => v = w
    BY DEF OrderInv, OneResponder, Active
  <2>2. PassedTest(wcur[w]) <=> wpc[w] \in {"call", "release", "delete"}
    BY <2>1 DEF PassedTest
  <2>3. wcur[w] \in Ids
    BY <1>0
  <2> QED
    BY <1>1, <2>2, <2>3 DEF LifeInv, Answered
<1> QED
  BY <1>0, <1>2, <1>3, <1>5, <1>6 DEF LifeInv, Answered, DroppedIffDiscarded

LEMMA ClientLife ==
  ASSUME TypeOK, OrderInv, LifeInv, NEW c \in Clients, ClientStep(c)
  PROVE  LifeInv'
<1>0. /\ Queued \in SUBSET Ids /\ \A q \in Ids : q \in Int
      /\ wait_set \in [Clients -> SUBSET Ids] /\ mine \in [Clients -> Ids]
  BY QueuedIds DEF TypeOK
<1>1. CASE Upload(c)
  <2>1. /\ UNCHANGED <<request_list_, request_id_, tag_, life, posted, wpc, wcur,
                       mine, wait_set, is_discarded_, why, future_taken, reported>>
        /\ pc[c] = "upload"
        /\ \A d \in Clients : d # c => pc'[d] = pc[d]
        /\ pc'[c] \in {"check", "sync", "idle"}
    BY <1>1 DEF Upload, AfterUpload, TypeOK
  <2>2. \A d \in Clients : pc'[d] \in {"future", "spin"} \/ pc[d] \in {"future", "spin"}
                            => pc'[d] = pc[d]
    BY <2>1
  <2>3. Queued' = Queued
    BY <2>1 DEF Queued
  <2> QED
    BY <2>1, <2>2, <2>3 DEF LifeInv, Lifetimes, Waiting, Answered, FutureOwned,
       Serving, Held, DroppedIffDiscarded
<1>2. CASE CheckEmpty(c)
  <2>1. /\ UNCHANGED <<request_id_, tag_, life, wpc, wcur, mine, wait_set,
                       is_discarded_, why, future_taken, reported>>
        /\ \A d \in Clients : pc'[d] = pc[d] \/ (pc[d] = "check" /\ pc'[d] = "idle")
    BY <1>2 DEF CheckEmpty, TypeOK
  <2> QED
    BY <1>0, <1>2, <2>1, CheckAndResponseLife DEF CheckEmpty
<1>3. CASE WaitFuture(c) \/ WaitSpin(c)
  <2>1. /\ UNCHANGED <<request_list_, request_id_, tag_, life, posted, wpc, wcur,
                       mine, is_discarded_, why, future_taken, reported>>
        /\ \A d \in Clients : d # c => pc'[d] = pc[d] /\ wait_set'[d] = wait_set[d]
        /\ \/ /\ pc[c] = "future" /\ pc'[c] = "spin" /\ life[mine[c]] = "freed"
              /\ wait_set'[c] = wait_set[c]
           \/ pc[c] = "spin" /\ pc'[c] = "idle"
    BY <1>3 DEF WaitFuture, WaitSpin, TypeOK
  <2>2. Queued' = Queued
    BY <2>1 DEF Queued
  <2>3. Lifetimes'
    BY <2>1, <2>2 DEF LifeInv, Lifetimes, Held, Serving
  <2>4. Answered'
    BY <2>1, <2>2 DEF LifeInv, Answered, DroppedIffDiscarded
  <2>5. Waiting'
    <3>1. ASSUME pc[c] = "future", life[mine[c]] = "freed", NEW r \in wait_set[c]
          PROVE  r \notin Queued
      <4>1. r \in Int /\ mine[c] \in Int /\ mine[c] \in Ids /\ r <= mine[c]
        BY <1>0, <3>1 DEF LifeInv, Waiting
      <4>2. \A q \in Queued : mine[c] < q /\ q \in Int
        BY <1>0, <3>1, <4>1 DEF LifeInv, Lifetimes
      <4> QED
        BY <4>1, <4>2
    <3> QED
      BY <2>1, <2>2, <3>1 DEF LifeInv, Waiting
  <2>6. FutureOwned'
    <3>1. ASSUME NEW r \in Ids, future_taken[r], life[r] = "live"
          PROVE  \E d \in Clients : pc'[d] = "future" /\ mine'[d] = r
      <4>1. PICK d \in Clients : pc[d] = "future" /\ mine[d] = r
        BY <3>1 DEF LifeInv, FutureOwned
      <4> QED
        BY <2>1, <3>1, <4>1
    <3> QED
      BY <2>1, <3>1 DEF LifeInv, FutureOwned
  <2> QED
    BY <2>3, <2>4, <2>5, <2>6 DEF LifeInv
<1>4. CASE (\E t \in TagsOf[c] : DiscardTask(c, t)) \/ SyncStep(c)
  <2>1. Queued' = Queued
    BY <1>4, DiscardFrame DEF Queued
  <2>2. \A d \in Clients : pc'[d] \in {"future", "spin"} \/ pc[d] \in {"future", "spin"}
                            => pc'[d] = pc[d]
    BY <1>4, DiscardFrame
  <2>3. Lifetimes' /\ Waiting' /\ FutureOwned'
    BY <1>4, <2>1, <2>2, DiscardFrame DEF LifeInv, Lifetimes, Held, Serving, Waiting, FutureOwned
  <2>4. Answered'
    <3>1. ASSUME NEW t \in TagsOf[c], DiscardTask(c, t) PROVE Answered'
      <4>1. \A r \in Queued : life[r] = "live"
        BY DEF LifeInv, Lifetimes
      <4> QED
        BY <3>1, <4>1, <1>4, DiscardFrame, DiscardAnswered DEF DiscardTask, Queued, Listed
    <3>2. CASE SyncDiscard(c)
      BY <3>2, <1>4, DiscardFrame, DiscardAnswered DEF SyncDiscard
    <3>3. CASE SyncDone(c) \/ SyncExpire(c)
      <4>1. UNCHANGED <<is_discarded_, why>>
        BY <3>3 DEF SyncDone, SyncExpire
      <4> QED
        BY <4>1, <1>4, <2>1, DiscardFrame DEF LifeInv, Answered, DroppedIffDiscarded
    <3> QED
      BY <1>4, <3>1, <3>2, <3>3 DEF SyncStep
  <2> QED
    BY <2>3, <2>4 DEF LifeInv
<1> QED
  BY <1>1, <1>2, <1>3, <1>4, SendLife, WaitTaskDoneLife DEF ClientStep

LEMMA WorkerLife ==
  ASSUME TypeOK, OrderInv, LifeInv, NEW w \in Workers, WorkerStep(w)
  PROVE  LifeInv'
<1>0. /\ Queued \in SUBSET Ids /\ \A q \in Ids : q \in Int
      /\ posted \in SUBSET Ids /\ wcur \in [Workers -> Ids]
      /\ wpc \in [Workers -> {"idle", "test", "call", "release", "delete",
                              "next", "store"}]
  BY QueuedIds DEF TypeOK
<1>1. wpc[w] # "idle" => posted = {} /\ \A v \in Workers : v # w => wpc[v] = "idle"
  BY DEF OrderInv, OneResponder, Active
<1>2. UNCHANGED <<request_id_, tag_, pc, mine, wait_set, is_discarded_, why, future_taken>>
  BY DEF WorkerStep, WorkerTake, WorkerTest, WorkerCall, WorkerRelease,
     WorkerDelete, WorkerNext, WorkerStore
<1>3. ASSUME NEW r \in Ids, WorkerTake(w, r) PROVE LifeInv'
  <2>1. /\ UNCHANGED <<request_list_, life, reported>>
        /\ posted = {r} /\ posted' = {} /\ \A v \in Workers : wpc[v] = "idle"
        /\ wpc' = [wpc EXCEPT ![w] = "test"] /\ wcur' = [wcur EXCEPT ![w] = r]
    BY <1>3 DEF WorkerTake, OrderInv, OneResponder, Active
  <2>2. Queued' = Queued
    BY <2>1 DEF Queued
  <2>3. /\ wpc'[w] = "test" /\ wcur'[w] = r
        /\ \A v \in Workers : v # w => wpc'[v] = "idle"
    BY <1>0, <2>1
  <2>4. Lifetimes'
    BY <2>1, <2>2, <2>3, <1>2 DEF LifeInv, Lifetimes, Held, Serving
  <2>5. Answered'
    BY <2>1, <2>2, <2>3, <1>2 DEF LifeInv, Answered, DroppedIffDiscarded
  <2>6. Waiting' /\ FutureOwned'
    BY <1>2, <2>1, <2>2 DEF LifeInv, Waiting, FutureOwned
  <2> QED
    BY <2>4, <2>5, <2>6 DEF LifeInv
<1>4. CASE WorkerTest(w) \/ WorkerCall(w) \/ WorkerRelease(w)
  <2>1. /\ UNCHANGED <<request_list_, life, wcur, posted>>
        /\ posted = {} /\ \A v \in Workers : v # w => wpc'[v] = "idle"
        /\ Serving(w) /\ Serving(w)'
        /\ \A v \in Workers : v # w => wpc[v] = "idle"
    BY <1>0, <1>1, <1>4 DEF WorkerTest, WorkerCall, WorkerRelease, Serving
  <2>2. Queued' = Queued
    BY <2>1 DEF Queued
  <2>3. Lifetimes'
    BY <1>2, <2>1, <2>2 DEF LifeInv, Lifetimes, Held, Serving
  <2>4. Answered'
    <3>1. /\ wcur[w] \in Ids /\ life[wcur[w]] = "live" /\ wcur[w] \notin Queued
      BY <1>0, <2>1 DEF LifeInv, Lifetimes
    <3>2. CASE WorkerTest(w) \/ WorkerRelease(w)
      <4>1. reported' = reported
        BY <3>2 DEF WorkerTest, WorkerRelease
      <4>2. \/ wpc[w] = "test" /\ wpc'[w] = "call" /\ ~is_discarded_[wcur[w]]
            \/ wpc[w] = "test" /\ wpc'[w] = "release" /\ is_discarded_[wcur[w]]
            \/ wpc[w] = "release" /\ wpc'[w] = "delete"
        BY <1>0, <3>2 DEF WorkerTest, WorkerRelease
      <4>3. /\ is_discarded_[wcur[w]] <=> why[wcur[w]] # "none"
            /\ wpc[w] = "test" => why[wcur[w]] # "late" /\ reported[wcur[w]] = "none"
            /\ wpc[w] \in {"release", "delete"} =>
                 (reported[wcur[w]] = "none" <=> why[wcur[w]] \in {"asked", "struck"})
        BY <3>1 DEF LifeInv, Answered
      <4>4. why[wcur[w]] \in {"asked", "late", "struck", "none"}
        BY <3>1 DEF TypeOK, Causes
      <4>5. \A v \in Workers :
              /\ wpc'[v] \in {"test", "call"} => reported[wcur[v]] = "none"
              /\ wpc'[v] = "test" => why[wcur[v]] # "late"
              /\ wpc'[v] = "call" => why[wcur[v]] \in {"none", "late"}
              /\ wpc'[v] \in {"release", "delete"} =>
                   (reported[wcur[v]] = "none" <=> why[wcur[v]] \in {"asked", "struck"})
        BY <2>1, <4>2, <4>3, <4>4
      <4> QED
        BY <1>2, <2>1, <2>2, <4>1, <4>5 DEF LifeInv, Answered, DroppedIffDiscarded
    <3>3. CASE WorkerCall(w)
      <4>1. /\ reported' = [reported EXCEPT ![wcur[w]] = status_[wcur[w]]]
            /\ wpc[w] = "call" /\ wpc'[w] = "release"
        BY <1>0, <3>3 DEF WorkerCall
      <4>2. status_[wcur[w]] # "none"
        BY <3>1, SessionConstants DEF TypeOK
      <4>3. /\ reported'[wcur[w]] # "none"
            /\ \A r \in Ids : r # wcur[w] => reported'[r] = reported[r]
        BY <3>1, <4>1, <4>2 DEF TypeOK
      <4> QED
        BY <1>0, <1>2, <2>1, <2>2, <3>1, <4>1, <4>3
           DEF LifeInv, Answered, DroppedIffDiscarded
    <3> QED
      BY <1>4, <3>2, <3>3
  <2>5. Waiting' /\ FutureOwned'
    BY <1>2, <2>1, <2>2 DEF LifeInv, Waiting, FutureOwned
  <2> QED
    BY <2>3, <2>4, <2>5 DEF LifeInv
<1>5. CASE WorkerDelete(w)
  <2>1. /\ UNCHANGED <<request_list_, wcur, posted, reported>>
        /\ wpc[w] = "delete" /\ posted = {}
        /\ \A v \in Workers : v # w => wpc[v] = "idle"
        /\ \A v \in Workers : ~Serving(v)'
        /\ life' = [life EXCEPT ![wcur[w]] = "freed"]
    BY <1>0, <1>1, <1>5 DEF WorkerDelete, Serving
  <2>2. Queued' = Queued
    BY <2>1 DEF Queued
  <2>3. /\ wcur[w] \in Ids /\ life[wcur[w]] = "live"
        /\ \A q \in Queued : wcur[w] < q
        /\ wcur[w] \notin Queued
        /\ life \in [Ids -> {"none", "live", "freed"}]
    BY <1>0, <2>1 DEF LifeInv, Lifetimes, Serving, TypeOK
  <2>4. Lifetimes'
    <3>1. \A r \in Ids : life[r] = "live" /\ r # wcur[w] => r \in Queued
      BY <2>1 DEF LifeInv, Lifetimes, Held, Serving
    <3> QED
      BY <1>2, <1>0, <2>1, <2>2, <2>3, <3>1 DEF LifeInv, Lifetimes, Held
  <2>5. Answered'
    BY <1>0, <1>2, <2>1, <2>2, <2>3
       DEF LifeInv, Answered, DroppedIffDiscarded, Serving
  <2>6. Waiting' /\ FutureOwned'
    <3>1. \A r \in Ids : (life'[r] = "live" => life[r] = "live")
                          /\ (life'[r] = "none" => life[r] = "none")
      BY <2>1, <2>3
    <3> QED
      BY <1>2, <2>2, <3>1 DEF LifeInv, Waiting, FutureOwned
  <2> QED
    BY <2>4, <2>5, <2>6 DEF LifeInv
<1>6. CASE WorkerNext(w) \/ WorkerStore(w)
  <2>1. /\ UNCHANGED <<life, posted, reported>>
        /\ posted = {} /\ wpc[w] \in {"next", "store"}
        /\ \A v \in Workers : v # w => wpc[v] = "idle" /\ wpc'[v] = "idle"
    BY <1>0, <1>1, <1>6 DEF WorkerNext, WorkerStore
  <2>2. CASE request_list_' = request_list_ /\ wpc'[w] \in {"idle", "store"}
    <3>1. Queued' = Queued
      BY <2>2 DEF Queued
    <3>2. \A v \in Workers : ~Serving(v) /\ ~Serving(v)'
      BY <2>1, <2>2 DEF Serving
    <3>3. Lifetimes'
      BY <1>2, <2>1, <3>1, <3>2 DEF LifeInv, Lifetimes, Held
    <3>4. Answered'
      BY <1>2, <2>1, <3>1, <3>2 DEF LifeInv, Answered, DroppedIffDiscarded, Serving
    <3>5. Waiting' /\ FutureOwned'
      BY <1>2, <2>1, <3>1 DEF LifeInv, Waiting, FutureOwned
    <3> QED
      BY <3>3, <3>4, <3>5 DEF LifeInv
  <2>3. CASE /\ request_list_ # <<>> /\ request_list_' = Tail(request_list_)
             /\ wpc'[w] = "test" /\ wcur'[w] = Front
    <3>1. /\ Front \in Queued /\ Front \in Ids /\ Queued' = Queued \ {Front}
          /\ \A q \in Queued' : Front < q
      BY <2>3, PopQueued DEF OrderInv
    <3>2. Lifetimes'
      BY <1>2, <2>1, <2>3, <3>1 DEF LifeInv, Lifetimes, Held, Serving
    <3>3. Answered'
      BY <1>2, <2>1, <2>3, <3>1 DEF LifeInv, Answered, DroppedIffDiscarded
    <3>4. Waiting' /\ FutureOwned'
      BY <1>2, <2>1, <3>1 DEF LifeInv, Waiting, FutureOwned
    <3> QED
      BY <3>2, <3>3, <3>4 DEF LifeInv
  <2> QED
    BY <1>0, <1>6, <2>2, <2>3 DEF WorkerNext, WorkerStore
<1> QED
  BY <1>3, <1>4, <1>5, <1>6 DEF WorkerStep

LEMMA StepLife == TypeOK /\ OrderInv /\ LifeInv /\ [Next]_vars => LifeInv'
<1> SUFFICES ASSUME TypeOK, OrderInv, LifeInv, [Next]_vars PROVE LifeInv'
  OBVIOUS
<1>1. ASSUME NEW r \in Ids, PipelineStep(r) PROVE LifeInv'
  <2>1. ASSUME NEW s \in Statuses, ItemDone(r, s) PROVE LifeInv'
    BY <2>1, LifeFrame DEF ItemDone
  <2>2. CASE DoneNotify(r)
    BY <2>2, CheckAndResponseLife DEF DoneNotify
  <2> QED
    BY <1>1, <2>1, <2>2 DEF PipelineStep
<1>2. CASE BeginDestroy \/ WakeDestroy \/ UNCHANGED vars
  BY <1>2, LifeFrame DEF BeginDestroy, WakeDestroy, vars
<1> QED
  BY <1>1, <1>2, ClientLife, WorkerLife DEF Next

LEMMA LifeInvariant == Spec => [](TypeOK /\ OrderInv /\ LifeInv)
<1>1. TypeOK /\ OrderInv /\ LifeInv /\ [Next]_vars => LifeInv'
  BY StepLife
<1> QED
  BY <1>1, InitLife, OrderInvariant, PTL DEF Spec

\* WaitTaskDone covers every request of its tag that was sent before the call,
\* for any number of clients, threads and requests: the one that has already left
\* request_list_ is covered by the spin on in_response_.
THEOREM WaitCoversAll == Spec => WaitCovers
<1>1. TypeOK /\ OrderInv /\ LifeInv /\ [Next]_vars =>
        [\A c \in Clients : pc[c] = "spin" /\ pc'[c] = "idle" =>
           \A r \in wait_set[c] : life[r] = "freed"]_vars
  <2> SUFFICES ASSUME TypeOK, OrderInv, LifeInv, Next, NEW c \in Clients,
                      pc[c] = "spin", pc'[c] = "idle", NEW r \in wait_set[c]
               PROVE  life[r] = "freed"
    OBVIOUS
  <2>1. ~in_response_
    <3>1. ASSUME NEW d \in Clients, ClientStep(d) PROVE ~in_response_
      <4>1. ASSUME NEW t \in TagsOf[d], NEW n \in DataNums, NEW a \in Addrs, Send(d, t, n, a)
            PROVE  FALSE
        BY <4>1 DEF Send, TypeOK
      <4>2. CASE Upload(d) \/ CheckEmpty(d) \/ WaitFuture(d)
        BY <4>2 DEF Upload, CheckEmpty, WaitFuture, TypeOK
      <4>5. CASE (\E t \in TagsOf[d] : DiscardTask(d, t)) \/ SyncStep(d)
        BY <4>5, DiscardFrame
      <4>3. CASE \E t \in TagsOf[d] : WaitTaskDone(d, t)
        BY <4>3 DEF WaitTaskDone, TakeFuture, TypeOK
      <4>4. CASE WaitSpin(d)
        BY <4>4 DEF WaitSpin
      <4> QED
        BY <3>1, <4>1, <4>2, <4>3, <4>4, <4>5 DEF ClientStep
    <3>2. ASSUME NEW i \in Ids, PipelineStep(i) PROVE pc' = pc
      <4>1. ASSUME NEW s \in Statuses, ItemDone(i, s) PROVE pc' = pc
        BY <4>1 DEF ItemDone
      <4>2. CASE DoneNotify(i)
        BY <4>2 DEF DoneNotify
      <4> QED
        BY <3>2, <4>1, <4>2 DEF PipelineStep
    <3>3. ASSUME NEW w \in Workers, WorkerStep(w) PROVE pc' = pc
      BY <3>3 DEF WorkerStep, WorkerTake, WorkerTest, WorkerCall, WorkerRelease,
         WorkerDelete, WorkerNext, WorkerStore
    <3>4. CASE BeginDestroy \/ WakeDestroy
      BY <3>4 DEF BeginDestroy, WakeDestroy
    <3> QED
      BY <3>1, <3>2, <3>3, <3>4 DEF Next
  <2>2. r \in Ids /\ r < request_id_ /\ r \notin Queued
    BY DEF LifeInv, Waiting, TypeOK
  <2>3. ~Held(r)
    BY <2>1, <2>2 DEF Held, OrderInv, FlagHeld, Active, Serving
  <2> QED
    BY <2>2, <2>3, QueuedIds DEF LifeInv, Lifetimes, TypeOK
<1> QED
  BY <1>1, LifeInvariant, PTL DEF Spec, WaitCovers

-----------------------------------------------------------------------------
(* No request is answered before it is finished, and none is used after it is *)
(* freed                                                                      *)

LEMMA InitSafe == NoStaleCaller /\ Init => SafeInv
  BY DEF Init, SafeInv, Finished, CallerFresh, Serving

\* A request whose items are still in the pipeline is alive and unfinished.
LEMMA InflightLive ==
  ASSUME TypeOK, Accounted, LifeInv, Finished, NEW r \in Ids, inflight[r] > 0
  PROVE  life[r] = "live" /\ ~process_finished_[r] /\ wait_num_[r] > 0
<1>1. /\ inflight[r] \in Nat /\ wait_num_[r] \in Nat /\ r \in Int
      /\ life[r] \in {"none", "live", "freed"} /\ request_id_ \in Int
  BY QueuedIds DEF TypeOK
<1>2. wait_num_[r] > 0 /\ ~(r >= request_id_)
  BY <1>1 DEF Accounted
<1>3. ~process_finished_[r]
  BY <1>1, <1>2 DEF Finished
<1> QED
  BY <1>1, <1>2, <1>3 DEF LifeInv, Lifetimes, Finished

\* The pointer comparison of CheckAndResponse says what it is meant to say when
\* no other live request has the address of the caller.
LEMMA CheckAndResponseSafe ==
  ASSUME TypeOK, OrderInv, LifeInv, SafeInv, NEW r \in Ids, CheckAndResponse(r),
         process_finished_[r],
         \A s \in Ids : life[s] = "live" /\ addr[s] = addr[r] => s = r,
         UNCHANGED <<request_id_, data_num_, wait_num_, process_finished_, life,
                     addr, wpc, wcur, mine>>,
         \A s \in Ids : in_notify'[s] => in_notify[s],
         \A c \in Clients : pc'[c] = pc[c] \/ pc'[c] = "idle"
  PROVE  SafeInv'
<1>1. \A s \in posted' : process_finished_[s]
  <2>1. CASE UNCHANGED posted
    BY <2>1 DEF SafeInv, Finished
  <2>2. CASE request_list_ # <<>> /\ FrontReady(r) /\ StartResponse
    <3>1. Front \in Queued /\ Front \in Ids
      BY <2>2, PopQueued DEF OrderInv, StartResponse
    <3>2. life[Front] = "live"
      BY <3>1 DEF LifeInv, Lifetimes
    <3>3. process_finished_[Front]
      BY <2>2, <3>1, <3>2 DEF FrontReady
    <3> QED
      BY <2>2, <3>3 DEF StartResponse, SafeInv, Finished
  <2> QED
    BY <2>1, <2>2 DEF CheckAndResponse
<1>2. Finished'
  BY <1>1 DEF SafeInv, Finished, Serving
<1>3. CallerFresh'
  BY DEF SafeInv, CallerFresh
<1> QED
  BY <1>2, <1>3 DEF SafeInv, NoStaleCaller

\* SafeInv looks at these variables only.
LEMMA SafeFrame ==
  ASSUME SafeInv,
         UNCHANGED <<request_id_, data_num_, wait_num_, process_finished_, life,
                     addr, in_notify, posted, wpc, wcur, mine, pc>>
  PROVE  SafeInv'
  BY DEF SafeInv, Finished, CallerFresh, Serving, NoStaleCaller

LEMMA SendSafe ==
  ASSUME TypeOK, OrderInv, LifeInv, SafeInv, NEW c \in Clients,
         NEW t \in TagsOf[c], NEW n \in DataNums, NEW a \in Addrs, Send(c, t, n, a)
  PROVE  SafeInv'
<1>1. /\ request_id_ \in Ids /\ request_id_ \in Int /\ request_id_' = request_id_ + 1
      /\ life[request_id_] = "none"
      /\ \A r \in Ids : r \in Int
  BY SendQueued, QueuedIds DEF OrderInv, LifeInv, Lifetimes
<1>2. /\ UNCHANGED <<posted, wpc, wcur, in_notify>>
      /\ \A r \in Ids : r # request_id_ =>
           /\ wait_num_'[r] = wait_num_[r] /\ data_num_'[r] = data_num_[r]
           /\ process_finished_'[r] = process_finished_[r]
           /\ life'[r] = life[r] /\ addr'[r] = addr[r]
  BY DEF Send, TypeOK
<1>3. /\ wait_num_'[request_id_] = n /\ data_num_'[request_id_] = n
      /\ process_finished_'[request_id_] <=> n = 0
      /\ life'[request_id_] = "live" /\ addr'[request_id_] = a
      /\ pc[c] = "idle" /\ pc'[c] = "upload" /\ mine'[c] = request_id_
      /\ \A d \in Clients : d # c => pc'[d] = pc[d] /\ mine'[d] = mine[d]
      /\ \A r \in Ids : life[r] = "live" => addr[r] # a
      /\ mine \in [Clients -> Ids] /\ wcur \in [Workers -> Ids] /\ posted \in SUBSET Ids
  BY <1>1 DEF Send, Free, TypeOK
<1>4. Finished'
  <2>1. \A r \in Ids : process_finished_'[r] => wait_num_'[r] = 0
    BY <1>2, <1>3 DEF SafeInv, Finished
  <2>2. \A r \in Ids : in_notify'[r] => process_finished_'[r] /\ life'[r] = "live"
    BY <1>1, <1>2, <1>3 DEF SafeInv, Finished
  <2>3. \A r \in Ids : life'[r] = "freed" => process_finished_'[r]
    BY <1>1, <1>2, <1>3 DEF SafeInv, Finished
  <2>4. \A r \in posted' : process_finished_'[r]
    <3>1. request_id_ \notin posted
      BY <1>1 DEF LifeInv, Lifetimes
    <3> QED
      BY <1>2, <1>3, <3>1 DEF SafeInv, Finished
  <2>5. \A w \in Workers : Serving(w)' => process_finished_'[wcur'[w]]
    <3>1. \A w \in Workers : Serving(w) => wcur[w] # request_id_ /\ wcur[w] \in Ids
      BY <1>1, <1>3 DEF LifeInv, Lifetimes
    <3> QED
      BY <1>2, <1>3, <3>1 DEF SafeInv, Finished, Serving
  <2> QED
    BY <2>1, <2>2, <2>3, <2>4, <2>5 DEF Finished
<1>5. CallerFresh'
  <2>1. \A r, s \in Ids :
          life'[r] = "live" /\ life'[s] = "live" /\ addr'[r] = addr'[s] => r = s
    BY <1>1, <1>2, <1>3 DEF SafeInv, CallerFresh
  <2>2. ASSUME NEW d \in Clients, d # c, pc'[d] \in {"upload", "check"}
        PROVE  /\ mine'[d] < request_id_' /\ data_num_'[mine'[d]] \in DataNums
               /\ pc'[d] = "check" => data_num_'[mine'[d]] = 0
               /\ data_num_'[mine'[d]] # 0
    <3>1. /\ pc[d] \in {"upload", "check"} /\ mine'[d] = mine[d] /\ mine[d] \in Ids
          /\ mine[d] \in Int
      BY <1>1, <1>3, <2>2
    <3>2. /\ mine[d] < request_id_ /\ data_num_[mine[d]] \in DataNums
          /\ pc[d] = "check" => data_num_[mine[d]] = 0
      BY <3>1 DEF SafeInv, CallerFresh
    <3>3. 0 \notin DataNums
      BY <2>2 DEF SafeInv, NoStaleCaller
    <3> QED
      BY <1>1, <1>2, <1>3, <2>2, <3>1, <3>2, <3>3
  <2>3. /\ mine'[c] < request_id_' /\ data_num_'[mine'[c]] \in DataNums
        /\ data_num_'[mine'[c]] = 0 => process_finished_'[mine'[c]]
        /\ \A r \in Ids : life'[r] = "live" /\ addr'[r] = addr'[mine'[c]]
                             => r = mine'[c]
    BY <1>1, <1>2, <1>3
  <2>4. \A d \in Clients : pc'[d] \in {"upload", "check"} =>
          /\ mine'[d] < request_id_' /\ data_num_'[mine'[d]] \in DataNums
          /\ pc'[d] = "check" => data_num_'[mine'[d]] = 0
          /\ data_num_'[mine'[d]] = 0 =>
               /\ process_finished_'[mine'[d]]
               /\ \A r \in Ids : life'[r] = "live" /\ addr'[r] = addr'[mine'[d]]
                                    => r = mine'[d]
    BY <1>3, <2>2, <2>3
  <2> QED
    BY <2>1, <2>4 DEF CallerFresh
<1> QED
  BY <1>4, <1>5 DEF SafeInv, NoStaleCaller

LEMMA ClientSafe ==
  ASSUME TypeOK, Accounted, OrderInv, LifeInv, SafeInv, NEW c \in Clients, ClientStep(c)
  PROVE  SafeInv'
<1>1. CASE Upload(c)
  <2>1. /\ UNCHANGED <<request_id_, data_num_, wait_num_, process_finished_, life,
                       addr, in_notify, posted, wpc, wcur, mine>>
        /\ pc[c] = "upload"
        /\ pc'[c] = IF data_num_[mine[c]] = 0 THEN "check" ELSE pc'[c]
        /\ pc'[c] # "upload" /\ (pc'[c] = "check" => data_num_[mine[c]] = 0)
        /\ \A d \in Clients : d # c => pc'[d] = pc[d]
    BY <1>1 DEF Upload, AfterUpload, TypeOK
  <2>2. Finished'
    BY <2>1 DEF SafeInv, Finished, Serving
  <2>3. CallerFresh'
    BY <2>1 DEF SafeInv, CallerFresh
  <2> QED
    BY <2>2, <2>3 DEF SafeInv, NoStaleCaller
<1>2. CASE CheckEmpty(c)
  <2>1. /\ UNCHANGED <<request_id_, data_num_, wait_num_, process_finished_, life,
                       addr, in_notify, wpc, wcur, mine>>
        /\ pc[c] = "check" /\ CheckAndResponse(mine[c]) /\ mine[c] \in Ids
        /\ \A d \in Clients : pc'[d] = pc[d] \/ pc'[d] = "idle"
    BY <1>2 DEF CheckEmpty, TypeOK
  <2>2. /\ process_finished_[mine[c]]
        /\ \A s \in Ids : life[s] = "live" /\ addr[s] = addr[mine[c]] => s = mine[c]
    BY <2>1 DEF SafeInv, CallerFresh
  <2> QED
    BY <2>1, <2>2, CheckAndResponseSafe
<1>3. CASE (\E t \in TagsOf[c] : WaitTaskDone(c, t)) \/ WaitFuture(c) \/ WaitSpin(c)
  <2>1. /\ UNCHANGED <<request_id_, data_num_, wait_num_, process_finished_, life,
                       addr, in_notify, posted, wpc, wcur>>
        /\ \A d \in Clients : pc'[d] \in {"upload", "check"} =>
             pc'[d] = pc[d] /\ mine'[d] = mine[d]
    <3>1. CASE \E t \in TagsOf[c] : WaitTaskDone(c, t)
      BY <3>1, WaitBegins
    <3>2. CASE WaitFuture(c) \/ WaitSpin(c)
      BY <3>2 DEF WaitFuture, WaitSpin, TypeOK
    <3> QED
      BY <1>3, <3>1, <3>2
  <2>2. Finished'
    BY <2>1 DEF SafeInv, Finished, Serving
  <2>3. CallerFresh'
    BY <2>1 DEF SafeInv, CallerFresh
  <2> QED
    BY <2>2, <2>3 DEF SafeInv, NoStaleCaller
<1>4. CASE (\E t \in TagsOf[c] : DiscardTask(c, t)) \/ SyncStep(c)
  <2>1. \A d \in Clients : pc'[d] \in {"upload", "check"} => pc[d] = pc'[d]
    BY <1>4, DiscardFrame
  <2> QED
    BY <1>4, <2>1, DiscardFrame DEF SafeInv, Finished, CallerFresh, Serving, NoStaleCaller
<1> QED
  BY <1>1, <1>2, <1>3, <1>4, SendSafe DEF ClientStep

LEMMA PipelineSafe ==
  ASSUME TypeOK, Accounted, OrderInv, LifeInv, SafeInv, NEW r \in Ids, PipelineStep(r)
  PROVE  SafeInv'
<1>1. ASSUME NEW s \in Statuses, ItemDone(r, s) PROVE SafeInv'
  <2>1. life[r] = "live" /\ ~process_finished_[r] /\ wait_num_[r] > 0
    BY <1>1, InflightLive DEF ItemDone, SafeInv
  <2>2. /\ UNCHANGED <<request_id_, data_num_, life, addr, posted, wpc, wcur, mine, pc>>
        /\ \A i \in Ids : i # r =>
             /\ wait_num_'[i] = wait_num_[i]
             /\ process_finished_'[i] = process_finished_[i]
             /\ in_notify'[i] = in_notify[i]
        /\ wait_num_'[r] = wait_num_[r] - 1
        /\ wait_num_[r] \in Nat
    BY <1>1 DEF ItemDone, TypeOK
  <2>3. /\ process_finished_'[r] <=> wait_num_[r] = 1
        /\ in_notify'[r] <=> wait_num_[r] = 1
    BY <1>1, <2>1 DEF ItemDone, TypeOK
  <2>4. \A i \in Ids : process_finished_[i] => process_finished_'[i]
    BY <2>1, <2>2
  <2>5. /\ mine \in [Clients -> Ids] /\ wcur \in [Workers -> Ids]
        /\ posted \in SUBSET Ids
    BY DEF TypeOK
  <2>6. Finished'
    <3>1. /\ \A i \in Ids : process_finished_'[i] => wait_num_'[i] = 0
          /\ \A i \in Ids : in_notify'[i] => process_finished_'[i] /\ life'[i] = "live"
      BY <2>1, <2>2, <2>3 DEF SafeInv, Finished
    <3> QED
      BY <2>2, <2>4, <2>5, <3>1 DEF SafeInv, Finished, Serving
  <2>7. CallerFresh'
    BY <2>2, <2>4, <2>5 DEF SafeInv, CallerFresh
  <2> QED
    BY <2>6, <2>7 DEF SafeInv, NoStaleCaller
<1>2. CASE DoneNotify(r)
  <2>1. /\ UNCHANGED <<request_id_, data_num_, wait_num_, process_finished_, life,
                       addr, wpc, wcur, mine, pc>>
        /\ in_notify[r] /\ CheckAndResponse(r)
        /\ \A s \in Ids : in_notify'[s] => in_notify[s]
    BY <1>2 DEF DoneNotify, TypeOK
  <2>2. /\ process_finished_[r]
        /\ \A s \in Ids : life[s] = "live" /\ addr[s] = addr[r] => s = r
    BY <2>1 DEF SafeInv, Finished, CallerFresh
  <2> QED
    BY <2>1, <2>2, CheckAndResponseSafe
<1> QED
  BY <1>1, <1>2 DEF PipelineStep

LEMMA WorkerSafe ==
  ASSUME TypeOK, OrderInv, LifeInv, SafeInv, NEW w \in Workers, WorkerStep(w)
  PROVE  SafeInv'
<1>0. /\ UNCHANGED <<request_id_, data_num_, wait_num_, process_finished_, addr,
                     in_notify, mine, pc>>
      /\ wcur \in [Workers -> Ids]
      /\ wpc \in [Workers -> {"idle", "test", "call", "release", "delete",
                              "next", "store"}]
      /\ life \in [Ids -> {"none", "live", "freed"}]
  BY DEF TypeOK, WorkerStep, WorkerTake, WorkerTest, WorkerCall, WorkerRelease,
     WorkerDelete, WorkerNext, WorkerStore
<1>1. ASSUME NEW r \in Ids, WorkerTake(w, r) PROVE SafeInv'
  <2>1. Finished'
    BY <1>0, <1>1 DEF WorkerTake, SafeInv, Finished, Serving
  <2>2. CallerFresh'
    BY <1>0, <1>1 DEF WorkerTake, SafeInv, CallerFresh
  <2> QED
    BY <2>1, <2>2 DEF SafeInv, NoStaleCaller
<1>2. CASE WorkerTest(w) \/ WorkerCall(w) \/ WorkerRelease(w) \/ WorkerStore(w)
  <2>1. /\ UNCHANGED <<life, posted, wcur>>
        /\ \A v \in Workers : Serving(v)' => Serving(v)
    BY <1>0, <1>2 DEF WorkerTest, WorkerCall, WorkerRelease, WorkerStore, Serving
  <2>2. Finished'
    BY <1>0, <2>1 DEF SafeInv, Finished
  <2>3. CallerFresh'
    BY <1>0, <2>1 DEF SafeInv, CallerFresh
  <2> QED
    BY <2>2, <2>3 DEF SafeInv, NoStaleCaller
<1>3. CASE WorkerDelete(w)
  <2>1. /\ UNCHANGED <<posted, wcur>> /\ Serving(w) /\ ~in_notify[wcur[w]]
        /\ \A v \in Workers : Serving(v)' => Serving(v)
        /\ life'[wcur[w]] = "freed"
        /\ \A r \in Ids : r # wcur[w] => life'[r] = life[r]
    BY <1>0, <1>3 DEF WorkerDelete, Serving
  <2>2. Finished'
    BY <1>0, <2>1 DEF SafeInv, Finished
  <2>3. \A r \in Ids : life'[r] = "live" => life[r] = "live"
    BY <1>0, <2>1
  <2>4. CallerFresh'
    BY <1>0, <2>3 DEF SafeInv, CallerFresh
  <2> QED
    BY <2>2, <2>4 DEF SafeInv, NoStaleCaller
<1>4. CASE WorkerNext(w)
  <2>1. /\ UNCHANGED <<life, posted>>
        /\ \A v \in Workers : v # w => wpc'[v] = wpc[v] /\ wcur'[v] = wcur[v]
        /\ \/ wpc'[w] \in {"idle", "store"}
           \/ wpc'[w] = "test" /\ wcur'[w] = Front /\ process_finished_[Front]
    BY <1>0, <1>4 DEF WorkerNext
  <2>2. Finished'
    BY <1>0, <2>1 DEF SafeInv, Finished, Serving
  <2>3. CallerFresh'
    BY <1>0, <2>1 DEF SafeInv, CallerFresh
  <2> QED
    BY <2>2, <2>3 DEF SafeInv, NoStaleCaller
<1> QED
  BY <1>1, <1>2, <1>3, <1>4 DEF WorkerStep

LEMMA StepSafe ==
  TypeOK /\ Accounted /\ OrderInv /\ LifeInv /\ SafeInv /\ [Next]_vars => SafeInv'
<1> SUFFICES ASSUME TypeOK, Accounted, OrderInv, LifeInv, SafeInv, [Next]_vars
             PROVE  SafeInv'
  OBVIOUS
<1>1. CASE BeginDestroy \/ WakeDestroy \/ UNCHANGED vars
  BY <1>1, SafeFrame DEF BeginDestroy, WakeDestroy, vars
<1> QED
  BY <1>1, ClientSafe, PipelineSafe, WorkerSafe DEF Next

LEMMA SafeInvariant ==
  NoStaleCaller /\ Spec => [](TypeOK /\ Accounted /\ OrderInv /\ LifeInv /\ SafeInv)
  BY InitSafe, StepSafe, OrderInvariant, LifeInvariant, PTL DEF Spec

LEMMA UseAfterFree ==
  TypeOK /\ Accounted /\ LifeInv /\ SafeInv => NoUseAfterFree
<1> SUFFICES ASSUME TypeOK, Accounted, LifeInv, SafeInv PROVE NoUseAfterFree
  OBVIOUS
<1>1. \A r \in Ids : inflight[r] > 0 \/ in_notify[r] => life[r] = "live"
  BY InflightLive DEF SafeInv, Finished
<1>2. \A w \in Workers : Serving(w) => life[wcur[w]] = "live"
  BY DEF LifeInv, Lifetimes
<1>3. \A i \in DOMAIN request_list_ : life[request_list_[i]] = "live"
  BY DEF LifeInv, Lifetimes, Queued
<1>4. \A c \in Clients : StaleDiscard(c) => reported[mine[c]] # "none" \/ why[mine[c]] \in {"asked", "struck"}
  BY DEF StaleDiscard, LifeInv, Answered, DroppedIffDiscarded, TypeOK
<1> QED
  BY <1>1, <1>2, <1>3, <1>4 DEF NoUseAfterFree

\* When AllDone holds nobody is left that could reach the session.
LEMMA StepDead ==
  TypeOK /\ OrderInv /\ LifeInv /\ SafeInv /\ DeadSessionUnreachable /\ [Next]_vars
    => DeadSessionUnreachable'
<1> SUFFICES ASSUME TypeOK, OrderInv, LifeInv, SafeInv, DeadSessionUnreachable,
                    [Next]_vars, destroy' = "dead"
             PROVE  /\ posted' = {} /\ Active' = {}
                    /\ \A r \in Ids : life'[r] # "live" /\ ~in_notify'[r]
  BY DEF DeadSessionUnreachable
<1>1. CASE UNCHANGED vars
  BY <1>1 DEF vars, DeadSessionUnreachable, Active
<1>2. CASE BeginDestroy \/ WakeDestroy
  <2>1. /\ AllDone /\ UNCHANGED <<posted, wpc, life, in_notify>>
    BY <1>2 DEF BeginDestroy, WakeDestroy, Alive
  <2>2. posted = {} /\ Active = {} /\ Queued = {}
    BY <2>1 DEF AllDone, OrderInv, FlagHeld, Queued
  <2>3. \A r \in Ids : ~Held(r)
    BY <2>2 DEF Held, Active, Serving
  <2>4. \A r \in Ids : life[r] # "live" /\ ~in_notify[r]
    BY <2>3 DEF LifeInv, Lifetimes, SafeInv, Finished
  <2> QED
    BY <2>1, <2>2, <2>4 DEF Active
<1>3. ASSUME Next, ~BeginDestroy, ~WakeDestroy PROVE FALSE
  <2>1. destroy # "dead"
    BY <1>3 DEF Next, ClientStep, PipelineStep, WorkerStep, Alive, Send, Upload,
       CheckEmpty, WaitTaskDone, WaitFuture, WaitSpin, DiscardTask, SyncStep, SyncDone,
       SyncExpire, SyncDiscard, ItemDone,
       DoneNotify, WorkerTake, WorkerTest, WorkerCall, WorkerRelease, WorkerDelete,
       WorkerNext, WorkerStore
  <2>2. \A r \in Ids : CheckAndResponse(r) => destroy' # "dead"
    BY <2>1 DEF CheckAndResponse, NotifyDestroyer
  <2>3. ASSUME NEW c \in Clients, ClientStep(c) PROVE FALSE
    <3>1. ASSUME NEW t \in TagsOf[c], NEW n \in DataNums, NEW a \in Addrs, Send(c, t, n, a) PROVE FALSE
      BY <2>1, <3>1 DEF Send
    <3>2. CASE CheckEmpty(c)
      BY <2>2, <3>2 DEF CheckEmpty, TypeOK
    <3>3. CASE Upload(c) \/ (\E t \in TagsOf[c] : WaitTaskDone(c, t)) \/ WaitFuture(c) \/ WaitSpin(c)
      BY <2>1, <3>3 DEF Upload, WaitTaskDone, WaitFuture, WaitSpin
    <3>4. CASE (\E t \in TagsOf[c] : DiscardTask(c, t)) \/ SyncStep(c)
      BY <2>1, <3>4, DiscardFrame
    <3> QED
      BY <2>3, <3>1, <3>2, <3>3, <3>4 DEF ClientStep
  <2>4. ASSUME NEW r \in Ids, PipelineStep(r) PROVE FALSE
    <3>1. ASSUME NEW s \in Statuses, ItemDone(r, s) PROVE FALSE
      BY <2>1, <3>1 DEF ItemDone
    <3> QED
      BY <2>2, <2>4, <3>1 DEF PipelineStep, DoneNotify
  <2>5. ASSUME NEW w \in Workers, WorkerStep(w) PROVE FALSE
    BY <2>1, <2>5 DEF WorkerStep, WorkerTake, WorkerTest, WorkerCall, WorkerRelease,
       WorkerDelete, WorkerNext, WorkerStore, NotifyDestroyer
  <2> QED
    BY <1>3, <2>3, <2>4, <2>5 DEF Next
<1> QED
  BY <1>1, <1>2, <1>3

\* The caller of a RequestSync stays in the call until its request is answered or
\* discarded.
LEMMA StepOwned ==
  TypeOK /\ Accounted /\ LifeInv /\ SyncOwned /\ [Next]_vars => SyncOwned'
<1> SUFFICES ASSUME TypeOK, Accounted, LifeInv, SyncOwned, [Next]_vars PROVE SyncOwned'
  OBVIOUS
<1>0. mine \in [Clients -> Ids] /\ (\A r \in Ids : r \in Int) /\ wcur \in [Workers -> Ids]
  BY QueuedIds
\* Most steps change nothing that SyncOwned looks at but let a request go.
<1>1. ASSUME UNCHANGED <<is_sync_link_, why, mine, data_num_>>,
             \A r \in Ids : life'[r] = "live" /\ reported'[r] = "none" => life[r] = "live" /\ reported[r] = "none",
             \A c \in Clients : /\ pc[c] \in {"upload", "sync", "discard"} => pc'[c] \in {"upload", "sync", "discard"}
                                /\ pc'[c] = "upload" => pc[c] = "upload"
      PROVE  SyncOwned'
  <2>1. \A r \in Ids : Attended(r) => Attended(r)'
    <3> SUFFICES ASSUME NEW r \in Ids, NEW d \in Clients, mine[d] = r,
                        pc[d] \in {"upload", "sync", "discard"}
                 PROVE  \E e \in Clients : mine'[e] = r /\ pc'[e] \in {"upload", "sync", "discard"}
      BY Zenon DEF Attended
    <3>1. mine'[d] = r /\ pc'[d] \in {"upload", "sync", "discard"}
      BY <1>1
    <3> QED
      BY <3>1
  <2>2. \A r \in Ids : is_sync_link_ /\ life'[r] = "live" /\ reported'[r] = "none" =>
          why[r] # "none" \/ Attended(r)'
    BY <1>1, <2>1 DEF SyncOwned
  <2>3. \A d \in Clients : is_sync_link_ /\ pc'[d] = "upload" => data_num_[mine[d]] > 0
    BY <1>1 DEF SyncOwned
  <2> QED
    BY <1>1, <2>2, <2>3 DEF SyncOwned
<1>2. ASSUME NEW c \in Clients, ClientStep(c) PROVE SyncOwned'
  <2>1. ASSUME NEW t \in TagsOf[c], NEW n \in DataNums, NEW a \in Addrs, Send(c, t, n, a)
        PROVE  SyncOwned'
    <3>1. /\ request_id_ \in Ids /\ request_id_ \in Int
          /\ UNCHANGED <<is_sync_link_, why, reported>>
          /\ pc[c] = "idle" /\ pc'[c] = "upload" /\ mine'[c] = request_id_
          /\ \A d \in Clients : d # c => pc'[d] = pc[d] /\ mine'[d] = mine[d]
          /\ \A r \in Ids : r # request_id_ => life'[r] = life[r] /\ data_num_'[r] = data_num_[r]
          /\ data_num_'[request_id_] = n /\ (is_sync_link_ => n > 0)
      BY <2>1, SessionConstants DEF Send, TypeOK, Ids
    <3>2. \A r \in Ids : life'[r] = "live" /\ reported[r] = "none" /\ is_sync_link_ => why[r] # "none" \/ Attended(r)'
      <4> SUFFICES ASSUME NEW r \in Ids, life'[r] = "live", reported[r] = "none", is_sync_link_, why[r] = "none"
                   PROVE  Attended(r)'
        OBVIOUS
      <4>1. CASE r = request_id_
        BY <3>1, <4>1 DEF Attended
      <4>2. CASE r # request_id_
        <5>1. PICK d \in Clients : mine[d] = r /\ pc[d] \in {"upload", "sync", "discard"}
          BY <3>1, <4>2 DEF SyncOwned, Attended
        <5> QED
          BY <3>1, <5>1 DEF Attended
      <4> QED
        BY <4>1, <4>2
    <3>3. \A d \in Clients : is_sync_link_ /\ pc'[d] = "upload" => data_num_'[mine'[d]] > 0
      <4> SUFFICES ASSUME NEW d \in Clients, is_sync_link_, pc'[d] = "upload" PROVE data_num_'[mine'[d]] > 0
        OBVIOUS
      <4>1. CASE d = c
        BY <3>1, <4>1
      <4>2. CASE d # c
        <5>1. mine[d] < request_id_ /\ mine[d] \in Ids /\ mine[d] \in Int /\ data_num_[mine[d]] > 0
          BY <1>0, <3>1, <4>2 DEF Accounted, SyncOwned
        <5> QED
          BY <3>1, <4>2, <5>1
      <4> QED
        BY <4>1, <4>2
    <3> QED
      BY <3>1, <3>2, <3>3 DEF SyncOwned
  <2>2. CASE Upload(c)
    <3>1. /\ UNCHANGED <<is_sync_link_, why, mine, data_num_, life, reported>> /\ pc[c] = "upload"
          /\ pc'[c] = AfterUpload(c) /\ \A d \in Clients : d # c => pc'[d] = pc[d]
      BY <2>2 DEF Upload, TypeOK
    <3>2. is_sync_link_ => pc'[c] = "sync"
      BY <3>1 DEF AfterUpload, SyncOwned
    <3>3. pc'[c] # "upload"
      BY <3>1 DEF AfterUpload
    <3> QED
      BY <1>0, <3>1, <3>2, <3>3 DEF SyncOwned, Attended
  <2>3. CASE CheckEmpty(c) \/ WaitFuture(c) \/ WaitSpin(c)
    <3>1. UNCHANGED <<is_sync_link_, why, mine, data_num_, life, reported>>
      BY <2>3 DEF CheckEmpty, WaitFuture, WaitSpin
    <3>2. \A d \in Clients : pc[d] = pc'[d] \/ (pc[d] \in {"check", "future", "spin"} /\ pc'[d] \in {"idle", "spin"})
      BY <2>3 DEF CheckEmpty, WaitFuture, WaitSpin, TypeOK
    <3> QED
      BY <1>1, <3>1, <3>2
  <2>4. CASE \E t \in TagsOf[c] : WaitTaskDone(c, t)
    <3>1. /\ UNCHANGED <<is_sync_link_, why, data_num_, life, reported>>
          /\ pc[c] = "idle" /\ pc'[c] \in {"future", "spin"}
          /\ \A d \in Clients : d # c => pc'[d] = pc[d] /\ mine'[d] = mine[d]
      BY <2>4 DEF WaitTaskDone, TakeFuture, TypeOK
    <3>2. \A r \in Ids : Attended(r) => Attended(r)'
      BY <3>1 DEF Attended
    <3> QED
      BY <1>0, <3>1, <3>2 DEF SyncOwned
  <2>5. CASE \E t \in TagsOf[c] : DiscardTask(c, t)
    <3>1. UNCHANGED <<is_sync_link_, mine, data_num_, life, reported, pc>>
      BY <2>5 DEF DiscardTask, Discard
    <3>2. \A r \in Ids : why[r] # "none" => why'[r] # "none"
      BY <2>5 DEF DiscardTask, Discard
    <3> QED
      BY <1>0, <3>1, <3>2 DEF SyncOwned, Attended
  <2>6. CASE SyncDone(c) \/ SyncDiscard(c)
    <3>1. /\ UNCHANGED <<is_sync_link_, mine, data_num_, life, reported>>
          /\ pc[c] \in {"sync", "discard"} /\ pc'[c] = "idle"
          /\ \A d \in Clients : d # c => pc'[d] = pc[d]
      BY <2>6 DEF SyncDone, SyncDiscard, Discard, TypeOK
    <3>2. \A r \in Ids : why[r] # "none" => why'[r] # "none"
      BY <2>6 DEF SyncDone, SyncDiscard, Discard
    <3>3. life[mine[c]] = "live" => reported[mine[c]] # "none" \/ why'[mine[c]] # "none"
      <4>1. CASE SyncDone(c)
        BY <4>1 DEF SyncDone
      <4>2. CASE SyncDiscard(c)
        <5> SUFFICES ASSUME life[mine[c]] = "live", why'[mine[c]] = "none" PROVE FALSE
          OBVIOUS
        <5>1. is_discarded_[mine[c]] => why[mine[c]] # "none"
          BY <1>0 DEF LifeInv, Answered
        <5> QED
          BY <1>0, <4>2, <5>1 DEF SyncDiscard, Discard
      <4> QED
        BY <2>6, <4>1, <4>2
    <3> QED
      BY <1>0, <3>1, <3>2, <3>3 DEF SyncOwned, Attended
  <2>7. CASE SyncExpire(c)
    <3>1. /\ UNCHANGED <<is_sync_link_, why, mine, data_num_, life, reported>>
          /\ pc'[c] = "discard" /\ pc[c] = "sync" /\ \A d \in Clients : d # c => pc'[d] = pc[d]
      BY <2>7 DEF SyncExpire, TypeOK
    <3> QED
      BY <1>1, <3>1
  <2> QED
    BY <1>2, <2>1, <2>2, <2>3, <2>4, <2>5, <2>6, <2>7 DEF ClientStep, SyncStep
<1>3. ASSUME NEW r \in Ids, PipelineStep(r) PROVE SyncOwned'
  <2>1. UNCHANGED <<is_sync_link_, why, mine, data_num_, life, reported, pc>>
    BY <1>3 DEF PipelineStep, ItemDone, DoneNotify
  <2> QED
    BY <1>1, <2>1
<1>4. ASSUME NEW w \in Workers, WorkerStep(w) PROVE SyncOwned'
  <2>1. UNCHANGED <<is_sync_link_, why, mine, data_num_, pc>>
    BY <1>4 DEF WorkerStep, WorkerTake, WorkerTest, WorkerCall, WorkerRelease, WorkerDelete,
       WorkerNext, WorkerStore
  <2>2. \A r \in Ids : life'[r] = "live" => life[r] = "live"
    BY <1>4 DEF WorkerStep, WorkerTake, WorkerTest, WorkerCall, WorkerRelease, WorkerDelete,
       WorkerNext, WorkerStore, TypeOK
  <2>3. \A r \in Ids : reported'[r] = "none" => reported[r] = "none"
    <3>1. CASE WorkerCall(w)
      <4>1. status_[wcur[w]] # "none"
        BY <1>0, SessionConstants DEF TypeOK
      <4> QED
        BY <1>0, <3>1, <4>1 DEF WorkerCall, TypeOK
    <3>2. CASE ~WorkerCall(w)
      BY <1>4, <3>2 DEF WorkerStep, WorkerTake, WorkerTest, WorkerRelease, WorkerDelete,
         WorkerNext, WorkerStore
    <3> QED
      BY <3>1, <3>2
  <2> QED
    BY <1>1, <2>1, <2>2, <2>3
<1>5. CASE BeginDestroy \/ WakeDestroy \/ UNCHANGED vars
  <2>1. UNCHANGED <<is_sync_link_, why, mine, data_num_, life, reported, pc>>
    BY <1>5 DEF BeginDestroy, WakeDestroy, vars
  <2> QED
    BY <1>1, <2>1
<1> QED
  BY <1>2, <1>3, <1>4, <1>5 DEF Next

LEMMA InitOwned == Init => SyncOwned
  BY DEF Init, SyncOwned

\* A request that is being answered has its caller in RequestSync, past Upload.
LEMMA FrameLives ==
  TypeOK /\ Accounted /\ LifeInv /\ SafeInv /\ SyncOwned => ObserverFrame
<1> SUFFICES ASSUME TypeOK, Accounted, LifeInv, SafeInv, SyncOwned, is_sync_link_,
                    NEW w \in Workers, wpc[w] = "call", why[wcur[w]] # "late"
             PROVE  \E c \in Clients : mine[c] = wcur[w] /\ pc[c] \in {"sync", "discard"}
  BY DEF ObserverFrame
<1>1. wcur[w] \in Ids /\ Serving(w) /\ wait_num_[wcur[w]] \in Nat
  BY DEF TypeOK, Serving
<1>2. life[wcur[w]] = "live" /\ reported[wcur[w]] = "none" /\ why[wcur[w]] = "none"
  BY <1>1 DEF LifeInv, Lifetimes, Answered
<1>3. PICK c \in Clients : mine[c] = wcur[w] /\ pc[c] \in {"upload", "sync", "discard"}
  BY <1>1, <1>2 DEF SyncOwned, Attended
<1>4. wait_num_[wcur[w]] = 0
  BY <1>1 DEF SafeInv, Finished
<1>5. pc[c] # "upload"
  BY <1>3, <1>4 DEF Accounted, SyncOwned
<1> QED
  BY <1>3, <1>5

\* No thread of the pipeline and no response task reaches a RequestControl after its
\* destructor, the observer of a RequestSync finds its caller, and nobody reaches
\* the session after ~Session, provided that no pointer of an empty package can go
\* stale; what RequestSync's own Discard does when it comes too late is all that is
\* left to the FIXME of the source.
THEOREM SessionMemorySafe == NoStaleCaller /\ Spec => []MemorySafe
<1>1. Init => DeadSessionUnreachable
  BY DEF Init, DeadSessionUnreachable
<1> QED
  BY <1>1, StepDead, UseAfterFree, InitOwned, StepOwned, FrameLives, SafeInvariant, PTL DEF Spec, MemorySafe

\* The second caller of get_future() finds the first one still waiting.
LEMMA StepAborted ==
  TypeOK /\ LifeInv /\ AbortedByTwoWaiters /\ [Next]_vars => AbortedByTwoWaiters'
<1> SUFFICES ASSUME TypeOK, LifeInv, AbortedByTwoWaiters, [Next]_vars, aborted'
             PROVE  \E c, d \in Clients : /\ c # d /\ mine'[c] = mine'[d]
                                          /\ pc'[c] = "future" /\ pc'[d] = "future"
  BY DEF AbortedByTwoWaiters
<1>1. CASE UNCHANGED vars
  BY <1>1 DEF vars, AbortedByTwoWaiters
<1>2. ASSUME Next, \A c \in Clients : \A t \in TagsOf[c] : ~WaitTaskDone(c, t) PROVE FALSE
  <2>1. ~aborted
    BY <1>2 DEF Next, ClientStep, PipelineStep, WorkerStep, Alive, Send, Upload,
       CheckEmpty, WaitFuture, WaitSpin, DiscardTask, SyncStep, SyncDone,
       SyncExpire, SyncDiscard, ItemDone, DoneNotify, WorkerTake, WorkerTest, WorkerCall,
       WorkerRelease, WorkerDelete, WorkerNext, WorkerStore, BeginDestroy, WakeDestroy
  <2>2. ASSUME NEW c \in Clients, ClientStep(c) PROVE FALSE
    <3>1. ASSUME NEW t \in TagsOf[c], NEW n \in DataNums, NEW a \in Addrs, Send(c, t, n, a) PROVE FALSE
      BY <2>1, <3>1 DEF Send
    <3>2. CASE Upload(c) \/ CheckEmpty(c) \/ WaitFuture(c) \/ WaitSpin(c)
      BY <2>1, <3>2 DEF Upload, CheckEmpty, WaitFuture, WaitSpin
    <3>3. CASE (\E t \in TagsOf[c] : DiscardTask(c, t)) \/ SyncStep(c)
      BY <2>1, <3>3, DiscardFrame
    <3> QED
      BY <1>2, <2>2, <3>1, <3>2, <3>3 DEF ClientStep
  <2>3. ASSUME NEW r \in Ids, PipelineStep(r) PROVE FALSE
    <3>1. ASSUME NEW s \in Statuses, ItemDone(r, s) PROVE FALSE
      BY <2>1, <3>1 DEF ItemDone
    <3> QED
      BY <2>1, <2>3, <3>1 DEF PipelineStep, DoneNotify
  <2>4. ASSUME NEW w \in Workers, WorkerStep(w) PROVE FALSE
    BY <2>1, <2>4 DEF WorkerStep, WorkerTake, WorkerTest, WorkerCall,
       WorkerRelease, WorkerDelete, WorkerNext, WorkerStore
  <2>5. CASE BeginDestroy \/ WakeDestroy
    BY <2>1, <2>5 DEF BeginDestroy, WakeDestroy
  <2> QED
    BY <1>2, <2>2, <2>3, <2>4, <2>5 DEF Next
<1>3. ASSUME NEW c \in Clients, NEW t \in TagsOf[c], WaitTaskDone(c, t)
      PROVE  \E d, e \in Clients : /\ d # e /\ mine'[d] = mine'[e]
                                   /\ pc'[d] = "future" /\ pc'[e] = "future"
  <2>1. ~aborted /\ pc[c] = "idle"
    BY <1>3 DEF WaitTaskDone, Alive
  <2>2. PICK i \in DOMAIN request_list_ : LastTagged(i, t) /\ TakeFuture(c, Listed(i))
    BY <1>3, <2>1 DEF WaitTaskDone
  <2>3. Listed(i) \in Queued /\ Listed(i) \in Ids
    BY <2>2 DEF Listed, Queued, TypeOK
  <2>4. life[Listed(i)] = "live" /\ future_taken[Listed(i)]
    BY <2>2, <2>3 DEF LifeInv, Lifetimes, TakeFuture
  <2>5. PICK d \in Clients : pc[d] = "future" /\ mine[d] = Listed(i)
    BY <2>3, <2>4 DEF LifeInv, FutureOwned
  <2>6. /\ d # c /\ pc'[d] = "future" /\ mine'[d] = Listed(i)
        /\ pc'[c] = "future" /\ mine'[c] = Listed(i)
    BY <2>1, <2>2, <2>5 DEF TakeFuture, TypeOK
  <2> QED
    BY <2>6
<1> QED
  BY <1>1, <1>2, <1>3

\* The observer is called when the last item is done and not before, a request
\* goes unanswered exactly when it was discarded before the response task tested
\* it, and only two callers that wait for the same request make a promise give out
\* a second future, when stale pointers of empty packages are ruled out.
THEOREM AnswersAreExact == NoStaleCaller /\ Spec => []AnswersExact
<1>1. TypeOK /\ LifeInv /\ SafeInv => FinishedBeforeResponse /\ DroppedIffDiscarded
  <2> SUFFICES ASSUME LifeInv, SafeInv, TypeOK
               PROVE  FinishedBeforeResponse /\ DroppedIffDiscarded
    OBVIOUS
  <2> QED
    BY DEF LifeInv, Answered, SafeInv, Finished, FinishedBeforeResponse, TypeOK
<1>2. Init => AbortedByTwoWaiters
  BY DEF Init, AbortedByTwoWaiters
<1> QED
  BY <1>1, <1>2, StepAborted, SafeInvariant, PTL DEF Spec, AnswersExact

-----------------------------------------------------------------------------
(* The load counters, which wrap *)

LEMMA ModUnique ==
  ASSUME NEW m \in Nat \ {0}, NEW p \in Int, NEW q \in Int, NEW a \in 0 .. (m - 1), NEW b \in 0 .. (m - 1),
         m * p + a = m * q + b
  PROVE  a = b
<1>1. PICK d \in Int : d = p - q
  OBVIOUS
<1>2. m * d = m * p - m * q /\ m * p \in Int /\ m * q \in Int
  BY <1>1
<1>3. m * d = b - a /\ m * d \in Int
  BY <1>2
<1>4. CASE d >= 1
  <2>1. PICK e \in Nat : d = e + 1
    <3>1. d - 1 \in Nat /\ d = (d - 1) + 1
      BY <1>4
    <3> QED
      BY <3>1
  <2>2. m * d = m * e + m /\ m * e \in Nat
    BY <2>1
  <2> QED
    BY <1>3, <2>2
<1>5. CASE d <= -1
  <2>1. PICK e \in Nat : d = -e - 1
    <3>1. -d - 1 \in Nat /\ d = -(-d - 1) - 1
      BY <1>5
    <3> QED
      BY <3>1
  <2>2. m * d = -(m * e) - m /\ m * e \in Nat
    BY <2>1
  <2> QED
    BY <1>3, <2>2
<1>6. CASE d = 0
  <2>1. m * d = 0
    BY <1>6
  <2> QED
    BY <1>3, <2>1
<1> QED
  BY <1>4, <1>5, <1>6

LEMMA DivMod ==
  ASSUME NEW m \in Nat \ {0}, NEW a \in Int
  PROVE  \E q \in Int : a = m * q + (a % m)
<1>1. a \div m \in Int
  OBVIOUS
<1>2. a = m * (a \div m) + (a % m)
  OBVIOUS
<1> QED
  BY <1>1, <1>2

LEMMA ModAdd ==
  ASSUME NEW a \in Int, NEW n \in Int
  PROVE  ((a % CounterMod) + n) % CounterMod = (a + n) % CounterMod
<1>1. PICK m \in Nat \ {0} : m = CounterMod
  BY SessionConstants
<1>2. PICK b \in 0 .. (m - 1) : b = a % m
  OBVIOUS
<1>3. PICK q \in Int : a = m * q + b
  BY <1>2, DivMod
<1>4. b + n \in Int /\ a + n \in Int
  BY <1>2
<1>5. PICK x \in 0 .. (m - 1) : x = (b + n) % m
  BY <1>4
<1>6. PICK p \in Int : b + n = m * p + x
  BY <1>4, <1>5, DivMod
<1>7. PICK y \in 0 .. (m - 1) : y = (a + n) % m
  BY <1>4
<1>8. PICK r \in Int : a + n = m * r + y
  BY <1>4, <1>7, DivMod
<1>9. m * (p + q) = m * p + m * q /\ m * p \in Int /\ m * q \in Int /\ m * r \in Int /\ p + q \in Int
  OBVIOUS
<1>10. m * (p + q) + x = m * r + y
  BY <1>3, <1>6, <1>8, <1>9
<1>11. x = y
  BY <1>9, <1>10, ModUnique
<1> QED
  BY <1>1, <1>2, <1>5, <1>7, <1>11

LEMMA ItemsAdded ==
  ASSUME NEW S, NEW num, NEW r, r \notin S, num[r] \in Nat, IsFiniteSet(ItemsOf(S, num))
  PROVE  /\ IsFiniteSet(ItemsOf(S \cup {r}, num))
         /\ Cardinality(ItemsOf(S \cup {r}, num)) = Cardinality(ItemsOf(S, num)) + num[r]
<1>1. PICK n \in Nat : n = num[r]
  OBVIOUS
<1> DEFINE N == {r} \X (1 .. n)
<1>2. ItemsOf(S \cup {r}, num) = ItemsOf(S, num) \cup N
  BY <1>1 DEF ItemsOf
<1>3. ItemsOf(S, num) \cap N = {}
  BY DEF ItemsOf
<1>4. IsFiniteSet(N) /\ Cardinality(N) = n
  <2>1. 1 \in Int /\ n \in Int /\ (1 > n => n = 0) /\ n - 1 + 1 = n
    OBVIOUS
  <2>2. IsFiniteSet(1 .. n) /\ Cardinality(1 .. n) = n
    BY <2>1, FS_Interval
  <2>3. IsFiniteSet({r}) /\ Cardinality({r}) = 1
    BY FS_Singleton
  <2>4. ASSUME NEW A, NEW B, IsFiniteSet(A), IsFiniteSet(B),
               Cardinality(A) = 1, Cardinality(B) = n
        PROVE  IsFiniteSet(A \X B) /\ Cardinality(A \X B) = 1 * n
    <3>1. Cardinality(A \X B) = Cardinality(A) * Cardinality(B)
      BY <2>4, FS_Product, Zenon
    <3>2. IsFiniteSet(A \X B)
      BY <2>4, FS_Product, Zenon
    <3> QED
      BY <2>4, <3>1, <3>2, Zenon
  <2>5. IsFiniteSet(N) /\ Cardinality(N) = 1 * n
    BY <2>2, <2>3, <2>4, Zenon
  <2>6. 1 * n = n
    OBVIOUS
  <2> QED
    BY <2>5, <2>6, Zenon
<1> HIDE DEF N
<1>5. /\ IsFiniteSet(ItemsOf(S, num) \cup N)
      /\ Cardinality(ItemsOf(S, num) \cup N)
           = Cardinality(ItemsOf(S, num)) + Cardinality(N) - Cardinality(ItemsOf(S, num) \cap N)
  BY <1>4, FS_Union
<1>6. Cardinality(ItemsOf(S, num) \cap N) = 0 /\ Cardinality(ItemsOf(S, num)) \in Nat
  BY <1>3, FS_EmptySet, FS_CardinalityType
<1>7. PICK k \in Nat : k = Cardinality(ItemsOf(S, num))
  BY <1>6
<1>8. Cardinality(ItemsOf(S, num) \cup N) = k + n - 0
  BY <1>4, <1>5, <1>6, <1>7
<1>9. k + n - 0 = k + n
  OBVIOUS
<1> QED
  BY <1>1, <1>2, <1>5, <1>7, <1>8, <1>9

LEMMA CountedFinite ==
  /\ IsFiniteSet(Uploaded) /\ Cardinality(Uploaded) \in Nat
  /\ IsFiniteSet(Released) /\ Cardinality(Released) \in Nat
<1>1. IsFiniteSet(Ids)
  <2>1. 0 \in Int /\ MaxRequests - 1 \in Int
    BY SessionConstants
  <2> QED
    BY <2>1, FS_Interval DEF Ids
<1>2. Uploaded \in SUBSET Ids /\ Released \in SUBSET Ids
  BY DEF Uploaded, Released
<1> QED
  BY <1>1, <1>2, FS_Subset, FS_CardinalityType

LEMMA BalancedFrame ==
  ASSUME Balanced, Uploaded' = Uploaded, Released' = Released,
         UNCHANGED <<processing_unit_, processing_req_>>,
         \A r \in Uploaded \cup Released : data_num_'[r] = data_num_[r]
  PROVE  Balanced'
<1>1. ItemsOf(Uploaded, data_num_)' = ItemsOf(Uploaded, data_num_)
  BY DEF ItemsOf
<1>2. ItemsOf(Released, data_num_)' = ItemsOf(Released, data_num_)
  BY DEF ItemsOf
<1> QED
  BY <1>1, <1>2 DEF Balanced

\* Upload counts its request, which was not counted yet.
LEMMA UploadBalanced ==
  ASSUME TypeOK, Accounted, Balanced, NEW c \in Clients, Upload(c)
  PROVE  Balanced'
<1>1. PICK r \in Ids : r = mine[c]
  BY DEF TypeOK
<1>2. pc[c] = "upload" /\ r < request_id_
  BY <1>1 DEF Upload, Accounted
<1>3. /\ UNCHANGED <<request_id_, mine, data_num_, life, wpc, wcur>>
      /\ pc' \in [Clients -> CallStages]
      /\ pc'[c] # "upload" /\ \A d \in Clients : d # c => pc'[d] = pc[d]
  BY DEF Upload, AfterUpload, TypeOK, CallStages
<1>4. PICK U : U = Uploaded'
  OBVIOUS
<1>5. U = Uploaded \cup {r} /\ r \notin Uploaded
  <2>1. \A d \in Clients : pc'[d] = "upload" => pc[d] = "upload" /\ mine[d] # r
    BY <1>1, <1>2, <1>3 DEF Accounted
  <2>2. r \notin Uploaded
    BY <1>1, <1>2 DEF Uploaded
  <2>3. \A i \in Ids : i # r => (i \in U <=> i \in Uploaded)
    BY <1>1, <1>3, <1>4 DEF Uploaded
  <2>4. r \in U
    BY <2>1, <1>2, <1>3, <1>4 DEF Uploaded
  <2>5. U \subseteq Ids /\ Uploaded \subseteq Ids
    BY <1>4 DEF Uploaded
  <2> QED
    BY <2>2, <2>3, <2>4, <2>5
<1>6. Released' = Released
  BY <1>3 DEF Released
<1>7. PICK n \in Nat : n = data_num_[r]
  BY DEF TypeOK
<1>8. Cardinality(U) = Cardinality(Uploaded) + 1
  BY <1>5, CountedFinite, FS_AddElement
<1>9. /\ IsFiniteSet(ItemsOf(U, data_num_))
      /\ Cardinality(ItemsOf(U, data_num_)) = Cardinality(ItemsOf(Uploaded, data_num_)) + n
  <2>1. PICK S, num : S = Uploaded /\ num = data_num_
    OBVIOUS
  <2>2. r \notin S /\ num[r] \in Nat /\ IsFiniteSet(ItemsOf(S, num))
    BY <2>1, <1>5, <1>7 DEF Balanced
  <2>3. /\ IsFiniteSet(ItemsOf(S \cup {r}, num))
        /\ Cardinality(ItemsOf(S \cup {r}, num)) = Cardinality(ItemsOf(S, num)) + num[r]
    BY <2>2, ItemsAdded
  <2> QED
    BY <2>1, <2>3, <1>5, <1>7
<1>10. PICK a \in Int, b \in Int :
         /\ a = Cardinality(Uploaded) - Cardinality(Released)
         /\ b = Cardinality(ItemsOf(Uploaded, data_num_)) - Cardinality(ItemsOf(Released, data_num_))
  <2>1. Cardinality(ItemsOf(Uploaded, data_num_)) \in Nat /\ Cardinality(ItemsOf(Released, data_num_)) \in Nat
    BY FS_CardinalityType DEF Balanced
  <2> QED
    BY <2>1, CountedFinite
<1>11. processing_req_' = ((a % CounterMod) + 1) % CounterMod /\ processing_unit_' = ((b % CounterMod) + n) % CounterMod
  BY <1>1, <1>7, <1>10 DEF Upload, Balanced
<1>12. processing_req_' = (a + 1) % CounterMod /\ processing_unit_' = (b + n) % CounterMod
  BY <1>11, ModAdd
<1>13. a + 1 = Cardinality(U) - Cardinality(Released)
  BY <1>8, <1>10, CountedFinite
<1>14. b + n = Cardinality(ItemsOf(U, data_num_)) - Cardinality(ItemsOf(Released, data_num_))
  <2>1. Cardinality(ItemsOf(Uploaded, data_num_)) \in Nat /\ Cardinality(ItemsOf(Released, data_num_)) \in Nat
    BY FS_CardinalityType DEF Balanced
  <2> QED
    BY <2>1, <1>9, <1>10
<1> QED
  BY <1>3, <1>4, <1>6, <1>9, <1>12, <1>13, <1>14 DEF Balanced

\* ReleaseCount counts the request of the one response task back.
LEMMA ReleaseBalanced ==
  ASSUME TypeOK, OrderInv, LifeInv, Balanced, NEW w \in Workers, WorkerRelease(w)
  PROVE  Balanced'
<1>1. PICK r \in Ids : r = wcur[w]
  BY DEF TypeOK
<1>2. wpc[w] = "release" /\ life[r] = "live"
  BY <1>1 DEF WorkerRelease, LifeInv, Lifetimes, Serving
<1>3. /\ UNCHANGED <<request_id_, mine, data_num_, life, pc, wcur>>
      /\ wpc'[w] = "delete" /\ \A v \in Workers : v # w => wpc'[v] = wpc[v]
  BY DEF WorkerRelease, TypeOK
<1>4. PICK R : R = Released'
  OBVIOUS
<1>5. R = Released \cup {r} /\ r \notin Released
  <2>1. \A v \in Workers : v # w => wpc[v] = "idle"
    BY <1>2 DEF OrderInv, OneResponder, Active
  <2>2. r \notin Released
    BY <2>1, <1>2 DEF Released
  <2>3. \A i \in Ids : i \in R <=> (i \in Released \/ i = r)
    BY <2>1, <1>1, <1>2, <1>3, <1>4 DEF Released
  <2>4. R \subseteq Ids /\ Released \subseteq Ids
    BY <1>4 DEF Released
  <2> QED
    BY <2>2, <2>3, <2>4
<1>6. Uploaded' = Uploaded
  BY <1>3 DEF Uploaded
<1>7. PICK n \in Nat : n = data_num_[r]
  BY DEF TypeOK
<1>8. Cardinality(R) = Cardinality(Released) + 1
  BY <1>5, CountedFinite, FS_AddElement
<1>9. /\ IsFiniteSet(ItemsOf(R, data_num_))
      /\ Cardinality(ItemsOf(R, data_num_)) = Cardinality(ItemsOf(Released, data_num_)) + n
  <2>1. PICK S, num : S = Released /\ num = data_num_
    OBVIOUS
  <2>2. r \notin S /\ num[r] \in Nat /\ IsFiniteSet(ItemsOf(S, num))
    BY <2>1, <1>5, <1>7 DEF Balanced
  <2>3. /\ IsFiniteSet(ItemsOf(S \cup {r}, num))
        /\ Cardinality(ItemsOf(S \cup {r}, num)) = Cardinality(ItemsOf(S, num)) + num[r]
    BY <2>2, ItemsAdded
  <2> QED
    BY <2>1, <2>3, <1>5, <1>7
<1>15. Cardinality(ItemsOf(Uploaded, data_num_)) \in Nat /\ Cardinality(ItemsOf(Released, data_num_)) \in Nat
  BY FS_CardinalityType DEF Balanced
<1>10. PICK a \in Int, b \in Int :
         /\ a = Cardinality(Uploaded) - Cardinality(Released)
         /\ b = Cardinality(ItemsOf(Uploaded, data_num_)) - Cardinality(ItemsOf(Released, data_num_))
  BY <1>15, CountedFinite
<1>16. a % CounterMod \in Int /\ b % CounterMod \in Int /\ -1 \in Int /\ -n \in Int
  BY ModNat
<1>17. processing_req_ = a % CounterMod /\ processing_unit_ = b % CounterMod
  BY <1>10 DEF Balanced
<1>11. processing_req_' = ((a % CounterMod) + (-1)) % CounterMod /\ processing_unit_' = ((b % CounterMod) + (-n)) % CounterMod
  <2>1. processing_req_' = (processing_req_ - 1) % CounterMod /\ processing_unit_' = (processing_unit_ - n) % CounterMod
    BY <1>1, <1>7 DEF WorkerRelease
  <2>2. (a % CounterMod) - 1 = (a % CounterMod) + (-1) /\ (b % CounterMod) - n = (b % CounterMod) + (-n)
    BY <1>16
  <2> QED
    BY <2>1, <2>2, <1>17
<1>12. processing_req_' = (a + (-1)) % CounterMod /\ processing_unit_' = (b + (-n)) % CounterMod
  BY <1>11, <1>16, ModAdd
<1>13. a + (-1) = Cardinality(Uploaded) - Cardinality(R)
  BY <1>8, <1>10, CountedFinite
<1>14. b + (-n) = Cardinality(ItemsOf(Uploaded, data_num_)) - Cardinality(ItemsOf(R, data_num_))
  BY <1>15, <1>9, <1>10
<1> QED
  BY <1>3, <1>4, <1>6, <1>9, <1>12, <1>13, <1>14 DEF Balanced

\* Send lists a request that is in neither count.
LEMMA SendBalanced ==
  ASSUME TypeOK, LifeInv, Balanced, NEW c \in Clients, NEW t \in TagsOf[c], NEW n \in DataNums, NEW a \in Addrs, Send(c, t, n, a)
  PROVE  Balanced'
<1>1. PICK k \in Ids : k = request_id_
  BY SessionConstants DEF Send, TypeOK, Ids
<1>2. life[k] = "none"
  BY <1>1 DEF LifeInv, Lifetimes, Ids
<1>3. /\ request_id_' = k + 1 /\ UNCHANGED <<wpc, wcur, processing_unit_, processing_req_>>
      /\ pc[c] = "idle" /\ pc'[c] = "upload" /\ mine'[c] = k
      /\ \A d \in Clients : d # c => pc'[d] = pc[d] /\ mine'[d] = mine[d]
      /\ life'[k] = "live" /\ \A r \in Ids : r # k => life'[r] = life[r] /\ data_num_'[r] = data_num_[r]
  BY <1>1 DEF Send, TypeOK, limit, pool
<1>4. Uploaded' = Uploaded
  <2>1. ASSUME NEW r \in Ids PROVE r \in Uploaded' <=> r \in Uploaded
    <3>1. CASE r = k
      BY <3>1, <1>1, <1>3 DEF Uploaded, Ids
    <3>2. CASE r # k
      <4>1. r < k + 1 <=> r < k
        BY <3>2 DEF Ids
      <4>2. (\A d \in Clients : pc'[d] = "upload" => mine'[d] # r) <=> (\A d \in Clients : pc[d] = "upload" => mine[d] # r)
        BY <3>2, <1>3
      <4> QED
        BY <4>1, <4>2, <1>1, <1>3 DEF Uploaded
    <3> QED
      BY <3>1, <3>2
  <2>2. Uploaded \subseteq Ids /\ Uploaded' \subseteq Ids
    BY DEF Uploaded
  <2> QED
    BY <2>1, <2>2
<1>5. Released' = Released
  BY <1>2, <1>3 DEF Released
<1>6. \A r \in Uploaded \cup Released : r \in Ids /\ r # k
  BY <1>1, <1>2 DEF Uploaded, Released, LifeInv, Lifetimes, Serving, Ids
<1> QED
  BY <1>3, <1>4, <1>5, <1>6, BalancedFrame

\* The other steps of a client leave the one that uploads alone.
LEMMA ClientBalanced ==
  ASSUME TypeOK, Balanced, NEW c \in Clients,
         \/ CheckEmpty(c) \/ (\E t \in TagsOf[c] : WaitTaskDone(c, t)) \/ WaitFuture(c) \/ WaitSpin(c)
         \/ (\E t \in TagsOf[c] : DiscardTask(c, t)) \/ SyncStep(c)
  PROVE  Balanced'
<1>1. UNCHANGED <<request_id_, life, wpc, wcur, data_num_, processing_unit_, processing_req_>>
  BY DiscardFrame DEF CheckEmpty, WaitTaskDone, WaitFuture, WaitSpin
<1>2. \A d \in Clients : /\ pc[d] = "upload" <=> pc'[d] = "upload"
                         /\ pc[d] = "upload" => mine'[d] = mine[d]
  <2>1. CASE CheckEmpty(c) \/ WaitFuture(c) \/ WaitSpin(c)
    BY <2>1 DEF CheckEmpty, WaitFuture, WaitSpin, TypeOK
  <2>2. CASE \E t \in TagsOf[c] : WaitTaskDone(c, t)
    BY <2>2, WaitBegins
  <2>3. CASE (\E t \in TagsOf[c] : DiscardTask(c, t)) \/ SyncStep(c)
    BY <2>3, DiscardFrame
  <2> QED
    BY <2>1, <2>2, <2>3
<1>3. Uploaded' = Uploaded
  BY <1>1, <1>2 DEF Uploaded
<1>4. Released' = Released
  BY <1>1 DEF Released
<1> QED
  BY <1>1, <1>3, <1>4, BalancedFrame

\* A request that is deleted was already counted back.
LEMMA WorkerBalanced ==
  ASSUME TypeOK, OrderInv, Balanced, NEW w \in Workers,
         \/ \E r \in Ids : WorkerTake(w, r)
         \/ WorkerTest(w) \/ WorkerCall(w) \/ WorkerDelete(w) \/ WorkerNext(w) \/ WorkerStore(w)
  PROVE  Balanced'
<1>1. UNCHANGED <<request_id_, pc, mine, data_num_, processing_unit_, processing_req_>>
  BY DEF WorkerTake, WorkerTest, WorkerCall, WorkerDelete, WorkerNext, WorkerStore, session, identity, limit, client
<1>2. Uploaded' = Uploaded
  BY <1>1 DEF Uploaded
<1>3. Released' = Released
  <2>1. CASE WorkerDelete(w)
    <3>1. PICK r \in Ids : r = wcur[w]
      BY DEF TypeOK
    <3>2. /\ wpc[w] = "delete" /\ wpc'[w] = "next" /\ wcur' = wcur
          /\ \A v \in Workers : v # w => wpc'[v] = wpc[v]
          /\ life'[r] = "freed" /\ \A i \in Ids : i # r => life'[i] = life[i]
      BY <2>1, <3>1 DEF WorkerDelete, TypeOK
    <3> QED
      BY <3>1, <3>2 DEF Released
  <2>2. CASE \/ \E r \in Ids : WorkerTake(w, r)
             \/ WorkerTest(w) \/ WorkerCall(w) \/ WorkerNext(w) \/ WorkerStore(w)
    <3>1. life' = life
      BY <2>2 DEF WorkerTake, WorkerTest, WorkerCall, WorkerNext, WorkerStore
    <3>2. \A v \in Workers : /\ wpc[v] = "delete" <=> wpc'[v] = "delete"
                             /\ wpc[v] = "delete" => wcur'[v] = wcur[v]
      BY <2>2 DEF WorkerTake, WorkerTest, WorkerCall, WorkerNext, WorkerStore, TypeOK
    <3> QED
      BY <3>1, <3>2 DEF Released
  <2> QED
    BY <2>1, <2>2
<1> QED
  BY <1>1, <1>2, <1>3, BalancedFrame

LEMMA StepBalanced ==
  TypeOK /\ Accounted /\ OrderInv /\ LifeInv /\ Balanced /\ [Next]_vars => Balanced'
<1> SUFFICES ASSUME TypeOK, Accounted, OrderInv, LifeInv, Balanced, [Next]_vars
             PROVE  Balanced'
  OBVIOUS
<1>1. ASSUME NEW c \in Clients, ClientStep(c) PROVE Balanced'
  BY <1>1, SendBalanced, UploadBalanced, ClientBalanced DEF ClientStep
<1>2. ASSUME NEW w \in Workers, WorkerStep(w) PROVE Balanced'
  BY <1>2, ReleaseBalanced, WorkerBalanced DEF WorkerStep
<1>3. CASE (\E r \in Ids : PipelineStep(r)) \/ BeginDestroy \/ WakeDestroy \/ UNCHANGED vars
  <2>1. UNCHANGED <<request_id_, pc, mine, life, wpc, wcur, data_num_, processing_unit_, processing_req_>>
    BY <1>3 DEF PipelineStep, ItemDone, DoneNotify, BeginDestroy, WakeDestroy, vars, session, identity, limit, client, pool
  <2>2. Uploaded' = Uploaded /\ Released' = Released
    BY <2>1 DEF Uploaded, Released
  <2> QED
    BY <2>1, <2>2, BalancedFrame
<1> QED
  BY <1>1, <1>2, <1>3 DEF Next

LEMMA InitBalanced == Init => Balanced
<1> SUFFICES ASSUME Init PROVE Balanced
  OBVIOUS
<1>1. Uploaded = {} /\ Released = {}
  BY DEF Init, Uploaded, Released, Ids
<1>2. ItemsOf({}, data_num_) = {}
  BY DEF ItemsOf
<1>3. IsFiniteSet({}) /\ Cardinality({}) = 0
  BY FS_EmptySet
<1>4. (0 - 0) % CounterMod = 0
  BY SessionConstants
<1>5. processing_req_ = 0 /\ processing_unit_ = 0
  BY DEF Init
<1> QED
  BY <1>1, <1>2, <1>3, <1>4, <1>5 DEF Balanced

\* When no request is left the same ones were counted and counted back.
LEMMA BalancedAtRest == TypeOK /\ LifeInv /\ Balanced => CountersReturnToZero
<1> SUFFICES ASSUME TypeOK, LifeInv, Balanced, \A r \in Ids : life[r] # "live",
                    \A c \in Clients : pc[c] # "upload"
             PROVE  processing_unit_ = 0 /\ processing_req_ = 0
  BY DEF CountersReturnToZero
<1>1. Uploaded = Released
  <2>1. ASSUME NEW r \in Ids PROVE life[r] = "freed" <=> r < request_id_
    <3>1. life[r] \in {"none", "live", "freed"} /\ life[r] # "live"
      BY DEF TypeOK
    <3>2. r \in Int /\ request_id_ \in Int
      BY DEF TypeOK, Ids
    <3>3. r >= request_id_ <=> ~(r < request_id_)
      BY <3>2
    <3> QED
      BY <3>1, <3>3 DEF LifeInv, Lifetimes
  <2>2. \A w \in Workers : wpc[w] # "delete"
    BY DEF LifeInv, Lifetimes, TypeOK, Serving
  <2> QED
    BY <2>1, <2>2 DEF Uploaded, Released
<1>2. PICK x \in Nat, y \in Nat : x = Cardinality(Uploaded) /\ y = Cardinality(ItemsOf(Uploaded, data_num_))
  <2>1. Cardinality(ItemsOf(Uploaded, data_num_)) \in Nat
    BY FS_CardinalityType DEF Balanced
  <2> QED
    BY <2>1, CountedFinite
<1>3. (x - x) % CounterMod = 0 /\ (y - y) % CounterMod = 0
  BY SessionConstants
<1> QED
  BY <1>1, <1>2, <1>3 DEF Balanced

\* Upload and ReleaseCount balance for any number of clients and requests, with no
\* assumption on who sends what: the two uint32_t counters are back at zero when no
\* request is left, though the response task of an empty package may release its
\* count before Upload has added it and both counters may have wrapped in between.
THEOREM CountersAreExact == Spec => []CountersReturnToZero
  BY InitBalanced, StepBalanced, BalancedAtRest, OrderInvariant, LifeInvariant, PTL DEF Spec

\* Packages without data are as safe as the others: nobody touches a freed request
\* and the load counters come back to zero, when stale pointers are ruled out.
THEOREM EmptyPackagesAreSafe == NoStaleCaller /\ Spec => []EmptyPackagesSafe
  BY CountersAreExact, UseAfterFree, SafeInvariant, PTL DEF EmptyPackagesSafe

-----------------------------------------------------------------------------
(* Profiler: the records of a session *)

\* The requests under way: none in an epoch to come.
LEMMA FlightFacts ==
  ASSUME ProfilerTyped
  PROVE  /\ NotFlying.units = 0 /\ \A f \in Flights : f # NotFlying
         /\ \A r \in ProfReqs : flying[r] # NotFlying => flying[r] \in Flights /\ flying[r].tag \in ProfTags /\ flying[r].epoch \in Nat
                                                         /\ flying[r].units \in Nat /\ flying[r].units > 0
         /\ \A t \in ProfTags : epoch[t] \in Nat /\ truth[t] \in Truths /\ tainted[t] \in BOOLEAN
         /\ \A t \in Present : profilers_[t] \in ProfilerStates /\ t \in ProfTags
<1>1. NotFlying.units = 0 /\ \A f \in Flights : f.units # 0
  BY ProfilerConstants DEF NotFlying, Flights
<1>2. \A r \in ProfReqs : flying[r] # NotFlying => flying[r] \in Flights
  BY DEF ProfilerTyped
<1>3. \A f \in Flights : f.tag \in ProfTags /\ f.epoch \in Nat /\ f.units \in Nat /\ f.units > 0
  <2>1. \A u \in ProfUnits : u \in Nat /\ u > 0
    BY ProfilerConstants
  <2> QED
    BY <2>1 DEF Flights
<1> QED
  BY <1>1, <1>2, <1>3 DEF ProfilerTyped

LEMMA ProfilerFields ==
  /\ \A p \in ProfilerStates :
       /\ p.processing_cnt_ \in Nat /\ p.start_time_ \in Int /\ p.total_ \in Int /\ p.request_cnt_ \in Nat
       /\ p.unit_cnt_ \in Nat /\ p.last_update_ \in Int /\ p.period_request_cnt_ \in Nat /\ p.period_unit_cnt_ \in Nat
       /\ p.rt \in Rates
  /\ \A x \in Truths : x.busy \in Int /\ x.requests \in Nat /\ x.units \in Nat /\ x.shown \in Nat
  /\ \A l \in Latencies : l.unit_cnt \in Nat /\ l.total \in Nat /\ l.max \in Nat /\ l.min \in Nat
  BY DEF ProfilerStates, Truths, Latencies

LEMMA NewRecords ==
  ASSUME now \in Nat
  PROVE  /\ NewProfiler \in ProfilerStates /\ NewTruth \in Truths
         /\ NewProfiler.processing_cnt_ = 0 /\ NewProfiler.total_ = 0 /\ NewProfiler.request_cnt_ = 0
         /\ NewProfiler.unit_cnt_ = 0 /\ NewProfiler.period_request_cnt_ = 0
         /\ NewTruth.busy = 0 /\ NewTruth.requests = 0 /\ NewTruth.units = 0 /\ NewTruth.shown = 0
<1>1. [req |-> 0, unit |-> 0, period |-> 1] \in Rates
  BY DEF Rates
<1> QED
  BY <1>1 DEF NewProfiler, NewTruth, ProfilerStates, Truths

\* A request begins in a profiler, and ends in it.
LEMMA StartedFacts ==
  ASSUME NEW p \in ProfilerStates, now \in Nat
  PROVE  /\ Started(p) \in ProfilerStates
         /\ Started(p).processing_cnt_ = p.processing_cnt_ + 1
         /\ BusyTime(Started(p)) = BusyTime(p)
         /\ Started(p).request_cnt_ = p.request_cnt_ /\ Started(p).unit_cnt_ = p.unit_cnt_
         /\ Started(p).period_request_cnt_ = p.period_request_cnt_
<1> DEFINE q == Started(p)
<1>1. /\ q.processing_cnt_ = p.processing_cnt_ + 1 /\ q.total_ = p.total_
      /\ q.start_time_ = (IF p.processing_cnt_ = 0 THEN now ELSE p.start_time_)
      /\ q.request_cnt_ = p.request_cnt_ /\ q.unit_cnt_ = p.unit_cnt_ /\ q.period_request_cnt_ = p.period_request_cnt_
  BY DEF Started, ProfilerStates
<1>a. q \in ProfilerStates
  <2>1. p.processing_cnt_ + 1 \in Nat /\ (IF p.processing_cnt_ = 0 THEN now ELSE p.start_time_) \in Int
    BY DEF ProfilerStates
  <2> QED
    BY <2>1 DEF Started, ProfilerStates
<1>2. p.processing_cnt_ \in Nat /\ p.total_ \in Int /\ p.start_time_ \in Int
  BY DEF ProfilerStates
<1> HIDE DEF q
<1>3. BusyTime(q) = BusyTime(p)
  BY <1>1, <1>2 DEF BusyTime
<1> QED
  BY <1>1, <1>a, <1>3 DEF q

LEMMA EndedFacts ==
  ASSUME NEW p \in ProfilerStates, NEW n \in Nat, now \in Nat, p.processing_cnt_ # 0
  PROVE  /\ Ended(p, n) \in ProfilerStates
         /\ Ended(p, n).processing_cnt_ = p.processing_cnt_ - 1
         /\ BusyTime(Ended(p, n)) = BusyTime(p)
         /\ Ended(p, n).request_cnt_ = p.request_cnt_ + 1 /\ Ended(p, n).unit_cnt_ = p.unit_cnt_ + n
         /\ Ended(p, n).period_request_cnt_ = p.period_request_cnt_ + 1
<1> DEFINE q == Ended(p, n)
<1>1. /\ p.processing_cnt_ \in Nat /\ p.total_ \in Int /\ p.start_time_ \in Int /\ p.request_cnt_ \in Nat
      /\ p.unit_cnt_ \in Nat /\ p.period_request_cnt_ \in Nat /\ p.period_unit_cnt_ \in Nat
  BY DEF ProfilerStates
<1>2. /\ q.processing_cnt_ = p.processing_cnt_ - 1
      /\ q.total_ = (IF p.processing_cnt_ = 1 THEN p.total_ + (now - p.start_time_) ELSE p.total_)
      /\ q.start_time_ = p.start_time_
      /\ q.request_cnt_ = p.request_cnt_ + 1 /\ q.unit_cnt_ = p.unit_cnt_ + n
      /\ q.period_request_cnt_ = p.period_request_cnt_ + 1
  BY DEF Ended, ProfilerStates
<1>3. q \in ProfilerStates
  <2>1. p.processing_cnt_ - 1 \in Nat /\ p.request_cnt_ + 1 \in Nat /\ p.unit_cnt_ + n \in Nat
        /\ p.period_request_cnt_ + 1 \in Nat /\ p.period_unit_cnt_ + n \in Nat
        /\ (IF p.processing_cnt_ = 1 THEN p.total_ + (now - p.start_time_) ELSE p.total_) \in Int
    BY <1>1
  <2> QED
    BY <2>1 DEF Ended, ProfilerStates
<1> HIDE DEF q
<1>4. BusyTime(q) = BusyTime(p)
  BY <1>1, <1>2 DEF BusyTime
<1> QED
  BY <1>2, <1>3, <1>4 DEF q

LEMMA RecordedFacts ==
  ASSUME NEW l \in Latencies, NEW n \in Nat, n > 0, NEW latency \in Nat,
         Between(l), NEW m, m = Recorded(l, n, latency * n)
  PROVE  m \in Latencies /\ Between(m)
<1>1. PICK a \in Nat, b \in Nat, c \in Nat, d \in Nat : l.unit_cnt = a /\ l.total = b /\ l.max = c /\ l.min = d
  BY ProfilerFields
<1>a. d * a <= b /\ b <= c * a
  BY <1>1 DEF Between
<1>2. (latency * n) \div n = latency /\ latency * n \in Nat
  OBVIOUS
<1>3. PICK e \in Nat, f \in Nat : e = Greater(c, latency) /\ f = Smaller(d, latency)
  BY DEF Greater, Smaller
<1>4. e >= c /\ e >= latency /\ f <= d /\ f <= latency
  BY <1>3 DEF Greater, Smaller
<1>5. m = [unit_cnt |-> a + n, total |-> b + latency * n, max |-> e, min |-> f]
  BY <1>1, <1>2, <1>3 DEF Recorded
<1>6. m \in Latencies /\ m.unit_cnt = a + n /\ m.total = b + latency * n /\ m.max = e /\ m.min = f
  BY <1>2, <1>5 DEF Latencies
<1>7. f * (a + n) <= b + latency * n
  <2>1. f * (a + n) = f * a + f * n
    OBVIOUS
  <2>2. f * a <= d * a
    BY <1>4
  <2>3. f * n <= latency * n
    BY <1>4
  <2>4. d * a <= b
    BY <1>a
  <2>5. PICK u \in Int, v \in Int, w \in Int, x \in Int : u = f * a /\ v = f * n /\ w = d * a /\ x = latency * n
    OBVIOUS
  <2> QED
    BY <2>1, <2>2, <2>3, <2>4, <2>5
<1>8. b + latency * n <= e * (a + n)
  <2>1. e * (a + n) = e * a + e * n
    OBVIOUS
  <2>2. c * a <= e * a
    BY <1>4
  <2>3. latency * n <= e * n
    BY <1>4
  <2>4. b <= c * a
    BY <1>a
  <2>5. PICK u \in Int, v \in Int, w \in Int, x \in Int : u = e * a /\ v = e * n /\ w = c * a /\ x = latency * n
    OBVIOUS
  <2> QED
    BY <2>1, <2>2, <2>3, <2>4, <2>5
<1> QED
  BY <1>6, <1>7, <1>8 DEF Between

\* What a profiler of a tag should say, and what it says.
Agrees(p, x, dirty, flights) ==
  /\ p.request_cnt_ = x.requests /\ p.unit_cnt_ = x.units
  /\ x.shown + p.period_request_cnt_ = x.requests
  /\ ~dirty => p.processing_cnt_ = Cardinality(flights) /\ BusyTime(p) = x.busy

LEMMA StartStep ==
  ASSUME ProfilerInv, NEW r \in ProfReqs, NEW t \in ProfTags, NEW n \in ProfUnits, RequestStart(r, t, n)
  PROVE  ProfilerInv'
<1> USE DEF ProfilerInv
<1>1. /\ ~fatal /\ r \in unused
      /\ profilers_' = [u \in Present \cup {t} |->
                          IF u = t THEN Started(IF t \in Present THEN profilers_[t] ELSE NewProfiler) ELSE profilers_[u]]
      /\ unused' = unused \ {r}
      /\ flying' = [flying EXCEPT ![r] = [tag |-> t, units |-> n, epoch |-> epoch[t]]]
      /\ UNCHANGED <<now, fatal, epoch, truth, tainted>>
  BY DEF RequestStart, SetProfiler
<1>2. PICK f \in Flights : f = [tag |-> t, units |-> n, epoch |-> epoch[t]] /\ f.tag = t /\ f.epoch = epoch[t] /\ f # NotFlying
  <2>1. epoch[t] \in Nat
    BY FlightFacts
  <2>2. PICK f : f = [tag |-> t, units |-> n, epoch |-> epoch[t]]
    OBVIOUS
  <2>3. f \in Flights /\ f.tag = t /\ f.epoch = epoch[t]
    BY <2>1, <2>2 DEF Flights
  <2>4. f # NotFlying
    BY <2>3, FlightFacts
  <2> QED
    BY <2>2, <2>3, <2>4
<1>3. now \in Nat
  BY DEF ProfilerTyped
<1>4. PICK p \in ProfilerStates : p = (IF t \in Present THEN profilers_[t] ELSE NewProfiler)
  BY <1>3, FlightFacts, NewRecords
<1>5. PICK q \in ProfilerStates :
         /\ q = Started(p) /\ q.processing_cnt_ = p.processing_cnt_ + 1 /\ BusyTime(q) = BusyTime(p)
         /\ q.request_cnt_ = p.request_cnt_ /\ q.unit_cnt_ = p.unit_cnt_ /\ q.period_request_cnt_ = p.period_request_cnt_
  BY <1>3, StartedFacts
<1>6. /\ Present' = Present \cup {t} /\ profilers_'[t] = q
      /\ \A u \in Present : u # t => profilers_'[u] = profilers_[u]
  BY <1>1, <1>4, <1>5 DEF Present
<1>7. ProfilerTyped'
  <2>1. profilers_' \in [Present' -> ProfilerStates]
    <3>1. \A u \in Present \cup {t} : (IF u = t THEN q ELSE profilers_[u]) \in ProfilerStates
      BY FlightFacts
    <3>2. profilers_' = [u \in Present \cup {t} |-> IF u = t THEN q ELSE profilers_[u]]
      BY <1>1, <1>4, <1>5
    <3> QED
      BY <1>6, <3>1, <3>2
  <2>2. flying' \in [ProfReqs -> Flights \cup {NotFlying}] /\ unused' \subseteq ProfReqs
    BY <1>1, <1>2 DEF ProfilerTyped
  <2>3. Present' \subseteq ProfTags
    BY <1>6 DEF ProfilerTyped
  <2> QED
    BY <1>1, <2>1, <2>2, <2>3 DEF ProfilerTyped
<1>8. flying[r] = NotFlying /\ flying'[r] = f /\ \A o \in ProfReqs : o # r => flying'[o] = flying[o]
  BY <1>1, <1>2 DEF FlightsKnown, ProfilerTyped
<1>9. /\ Flying(t)' = Flying(t) \cup {r} /\ r \notin Flying(t)
      /\ \A u \in ProfTags : u # t => Flying(u)' = Flying(u)
  BY <1>1, <1>2, <1>8 DEF Flying
<1>10. /\ IsFiniteSet(Flying(t)) /\ IsFiniteSet(Flying(t)') /\ Cardinality(Flying(t)) \in Nat
       /\ Cardinality(Flying(t)') = Cardinality(Flying(t)) + 1
  BY <1>9, FS_AddElement, FS_CardinalityType DEF FlightsKnown
<1>11. FlightsKnown'
  <2>1. \A o \in unused' : flying'[o] = NotFlying
    BY <1>1, <1>8 DEF FlightsKnown, ProfilerTyped
  <2>2. \A o \in ProfReqs : flying'[o] # NotFlying => flying'[o].epoch <= epoch'[flying'[o].tag]
    <3>1. epoch[t] <= epoch[t]
      BY FlightFacts
    <3> QED
      BY <1>1, <1>2, <1>8, <3>1 DEF FlightsKnown
  <2>3. \A u \in ProfTags : IsFiniteSet(Flying(u)')
    BY <1>9, <1>10 DEF FlightsKnown
  <2> QED
    BY <2>1, <2>2, <2>3 DEF FlightsKnown
<1>12. AbsentClear'
  BY <1>1, <1>6, <1>9 DEF AbsentClear, NewTruth
<1>13. CountsExact'
  <2>1. Agrees(p, truth[t], tainted[t], Flying(t))
    <3>1. CASE t \in Present
      BY <1>4, <3>1 DEF CountsExact, Agrees
    <3>2. CASE t \notin Present
      <4>1. truth[t] = NewTruth /\ Flying(t) = {} /\ p = NewProfiler
        BY <1>4, <3>2 DEF AbsentClear
      <4>2. Cardinality({}) = 0
        BY FS_EmptySet
      <4> QED
        BY <1>3, <4>1, <4>2, NewRecords DEF Agrees, BusyTime
    <3> QED
      BY <3>1, <3>2
  <2>2. p.processing_cnt_ \in Nat
    BY ProfilerFields
  <2>3. /\ q.request_cnt_ = truth[t].requests /\ q.unit_cnt_ = truth[t].units
        /\ truth[t].shown + q.period_request_cnt_ = truth[t].requests
        /\ ~tainted[t] => q.processing_cnt_ = Cardinality(Flying(t)') /\ BusyTime(q) = truth[t].busy
    BY <1>5, <1>10, <2>1, <2>2 DEF Agrees
  <2>4. profilers_'[t] = q /\ BusyTime(profilers_[t])' = BusyTime(q)
    BY <1>1, <1>6 DEF BusyTime
  <2>5. ASSUME NEW u \in Present, u # t
        PROVE  /\ Flying(u)' = Flying(u) /\ profilers_'[u] = profilers_[u]
               /\ BusyTime(profilers_[u])' = BusyTime(profilers_[u])
    <3>1. Flying(u)' = Flying(u) /\ profilers_'[u] = profilers_[u]
      <4>1. u \in ProfTags
        BY FlightFacts
      <4> QED
        BY <1>6, <1>9, <2>5, <4>1
    <3>2. BusyTime(profilers_[u])' = BusyTime(profilers_[u])
      BY <1>1, <3>1 DEF BusyTime
    <3> QED
      BY <3>1, <3>2
  <2> SUFFICES ASSUME NEW u \in Present'
               PROVE  /\ profilers_'[u].request_cnt_ = truth'[u].requests /\ profilers_'[u].unit_cnt_ = truth'[u].units
                      /\ truth'[u].shown + profilers_'[u].period_request_cnt_ = truth'[u].requests
                      /\ ~tainted'[u] => /\ profilers_'[u].processing_cnt_ = Cardinality(Flying(u)')
                                         /\ BusyTime(profilers_[u])' = truth'[u].busy
    BY DEF CountsExact
  <2>6. CASE u = t
    BY <1>1, <2>3, <2>4, <2>6
  <2>7. CASE u # t
    <3>1. u \in Present
      BY <1>6, <2>7
    <3> QED
      BY <1>1, <2>5, <2>7, <3>1 DEF CountsExact
  <2> QED
    BY <2>6, <2>7
<1>14. FatalOnlyAfterRemoval'
  BY <1>1 DEF FatalOnlyAfterRemoval
<1> QED
  BY <1>7, <1>11, <1>12, <1>13, <1>14

\* The counts of a tag a step leaves alone.
LEMMA CountsFrame ==
  ASSUME CountsExact, NEW u \in Present, profilers_'[u] = profilers_[u], now' = now,
         truth'[u] = truth[u], tainted'[u] = tainted[u], Flying(u)' = Flying(u)
  PROVE  /\ profilers_'[u].request_cnt_ = truth'[u].requests /\ profilers_'[u].unit_cnt_ = truth'[u].units
         /\ truth'[u].shown + profilers_'[u].period_request_cnt_ = truth'[u].requests
         /\ ~tainted'[u] => /\ profilers_'[u].processing_cnt_ = Cardinality(Flying(u)')
                            /\ BusyTime(profilers_[u])' = truth'[u].busy
<1>1. BusyTime(profilers_[u])' = BusyTime(profilers_[u])
  BY DEF BusyTime
<1> QED
  BY <1>1 DEF CountsExact

LEMMA EndStep ==
  ASSUME ProfilerInv, NEW r \in ProfReqs, RequestEnd(r)
  PROVE  ProfilerInv'
<1> USE DEF ProfilerInv
<1>1. PICK f \in Flights : /\ f = flying[r] /\ f # NotFlying /\ f.tag \in ProfTags /\ f.epoch \in Nat
                           /\ f.units \in Nat /\ f.units > 0
  BY FlightFacts DEF RequestEnd
<1>2. PICK t \in ProfTags : t = f.tag
  BY <1>1
<1>3. PICK check \in BOOLEAN : check <=> (t \in Present /\ profilers_[t].processing_cnt_ = 0)
  <2>1. CASE t \in Present /\ profilers_[t].processing_cnt_ = 0
    BY <2>1
  <2>2. CASE ~(t \in Present /\ profilers_[t].processing_cnt_ = 0)
    BY <2>2
  <2> QED
    BY <2>1, <2>2
<1>4. /\ ~fatal /\ flying' = [flying EXCEPT ![r] = NotFlying] /\ UNCHANGED <<now, unused, epoch>>
      /\ fatal' <=> check
  BY <1>1, <1>2, <1>3 DEF RequestEnd
<1>5. /\ tainted' \in [ProfTags -> BOOLEAN] /\ (tainted'[t] <=> tainted[t] \/ (t \in Present /\ f.epoch # epoch[t]))
      /\ \A u \in ProfTags : u # t => tainted'[u] = tainted[u]
  <2>1. tainted' = [tainted EXCEPT ![t] = @ \/ (t \in Present /\ f.epoch # epoch[t])]
    BY <1>1, <1>2 DEF RequestEnd
  <2>2. tainted \in [ProfTags -> BOOLEAN]
    BY DEF ProfilerTyped
  <2> QED
    BY <2>1, <2>2
<1>7. /\ t \in Present /\ ~check =>
           /\ profilers_' = [u \in Present \cup {t} |-> IF u = t THEN Ended(profilers_[t], f.units) ELSE profilers_[u]]
           /\ truth' = [truth EXCEPT ![t] = [truth[t] EXCEPT !.requests = @ + 1, !.units = @ + f.units]]
      /\ ~(t \in Present /\ ~check) => UNCHANGED <<profilers_, truth>>
  BY <1>1, <1>2, <1>3 DEF RequestEnd, SetProfiler
<1>8. flying'[r] = NotFlying /\ \A o \in ProfReqs : o # r => flying'[o] = flying[o]
  BY <1>4 DEF ProfilerTyped
<1>9. /\ \A u \in ProfTags : Flying(u)' = Flying(u) \ {r}
      /\ \A u \in ProfTags : u # t \/ f.epoch # epoch[t] => Flying(u)' = Flying(u)
      /\ f.epoch = epoch[t] => r \in Flying(t)
  BY <1>1, <1>2, <1>4, <1>8 DEF Flying
<1>10. \A u \in ProfTags : IsFiniteSet(Flying(u)')
  BY <1>9, FS_RemoveElement DEF FlightsKnown
<1>11. f.epoch = epoch[t] => /\ Cardinality(Flying(t)) \in Nat /\ Cardinality(Flying(t)) # 0
                             /\ Cardinality(Flying(t)') = Cardinality(Flying(t)) - 1
  <2>1. IsFiniteSet(Flying(t))
    BY DEF FlightsKnown
  <2>2. f.epoch = epoch[t] => Cardinality(Flying(t)') = Cardinality(Flying(t)) - 1
    BY <1>9, <2>1, FS_RemoveElement
  <2>3. Flying(t) # {} => Cardinality(Flying(t)) # 0
    BY <2>1, FS_EmptySet
  <2> QED
    BY <1>9, <2>1, <2>2, <2>3, FS_CardinalityType
<1>12. FlightsKnown'
  <2>1. \A o \in unused' : flying'[o] = NotFlying
    BY <1>4, <1>8 DEF FlightsKnown, ProfilerTyped
  <2>2. \A o \in ProfReqs : flying'[o] # NotFlying => flying'[o].epoch <= epoch'[flying'[o].tag]
    BY <1>4, <1>8 DEF FlightsKnown
  <2> QED
    BY <1>10, <2>1, <2>2 DEF FlightsKnown
<1>13. /\ Present' = Present /\ truth' \in [ProfTags -> Truths] /\ profilers_' \in [Present -> ProfilerStates]
       /\ \A u \in ProfTags : u # t => truth'[u] = truth[u]
       /\ \A u \in Present : u # t => profilers_'[u] = profilers_[u]
  <2>1. CASE t \in Present /\ ~check
    <3>1. PICK p \in ProfilerStates : p = profilers_[t] /\ p.processing_cnt_ # 0
      BY <1>3, <2>1, FlightFacts
    <3>2. PICK q \in ProfilerStates : q = Ended(p, f.units)
      BY <1>1, <3>1, EndedFacts DEF ProfilerTyped
    <3>3. profilers_' = [u \in Present \cup {t} |-> IF u = t THEN q ELSE profilers_[u]]
      BY <1>7, <2>1, <3>1, <3>2
    <3>4. Present \cup {t} = Present
      BY <2>1
    <3>5. truth[t] \in Truths
      BY FlightFacts
    <3>6. [truth[t] EXCEPT !.requests = @ + 1, !.units = @ + f.units] \in Truths
      <4>1. truth[t].requests + 1 \in Nat /\ truth[t].units + f.units \in Nat
        BY <1>1, <3>5, ProfilerFields
      <4> QED
        BY <3>5, <4>1 DEF Truths
    <3>7. truth' \in [ProfTags -> Truths] /\ \A u \in ProfTags : u # t => truth'[u] = truth[u]
      <4>1. PICK y \in Truths : y = [truth[t] EXCEPT !.requests = @ + 1, !.units = @ + f.units]
        BY <3>6
      <4>2. truth' = [truth EXCEPT ![t] = y]
        BY <1>7, <2>1, <4>1
      <4> QED
        BY <4>2 DEF ProfilerTyped
    <3>8. Present' = Present /\ profilers_' \in [Present -> ProfilerStates] /\ \A u \in Present : u # t => profilers_'[u] = profilers_[u]
      BY <3>3, <3>4, FlightFacts DEF Present
    <3> QED
      BY <3>7, <3>8
  <2>2. CASE ~(t \in Present /\ ~check)
    BY <1>7, <2>2 DEF ProfilerTyped, Present
  <2> QED
    BY <2>1, <2>2
<1>15. ProfilerTyped'
  <2>1. flying' \in [ProfReqs -> Flights \cup {NotFlying}]
    BY <1>4 DEF ProfilerTyped
  <2>2. fatal' \in BOOLEAN
    BY <1>1, <1>2, <1>3 DEF RequestEnd
  <2> QED
    BY <1>4, <1>5, <1>13, <2>1, <2>2 DEF ProfilerTyped
<1>16. AbsentClear'
  <2>1. ASSUME NEW u \in ProfTags \ Present' PROVE truth'[u] = NewTruth /\ ~tainted'[u] /\ Flying(u)' = {}
    <3>1. truth[u] = NewTruth /\ ~tainted[u] /\ Flying(u) = {} /\ u \notin Present
      BY <1>13, <2>1 DEF AbsentClear
    <3>2. truth'[u] = truth[u]
      BY <1>7, <1>13, <2>1, <3>1
    <3>3. ~tainted'[u]
      BY <1>5, <2>1, <3>1
    <3>4. Flying(u)' = {}
      BY <1>9, <2>1, <3>1
    <3> QED
      BY <3>1, <3>2, <3>3, <3>4
  <2> QED
    BY <2>1 DEF AbsentClear, NewTruth
<1>17. CountsExact'
  <2> SUFFICES ASSUME NEW u \in Present
               PROVE  /\ profilers_'[u].request_cnt_ = truth'[u].requests /\ profilers_'[u].unit_cnt_ = truth'[u].units
                      /\ truth'[u].shown + profilers_'[u].period_request_cnt_ = truth'[u].requests
                      /\ ~tainted'[u] => /\ profilers_'[u].processing_cnt_ = Cardinality(Flying(u)')
                                         /\ BusyTime(profilers_[u])' = truth'[u].busy
    BY <1>13 DEF CountsExact
  <2>0. u \in ProfTags
    BY FlightFacts
  <2>1. CASE u # t
    BY <1>4, <1>5, <1>9, <1>13, <2>0, <2>1, CountsFrame
  <2>2. CASE u = t /\ check
    <3>1. UNCHANGED <<profilers_, truth>> /\ profilers_[t].processing_cnt_ = 0 /\ t \in Present
      BY <1>3, <1>7, <2>2
    <3>2. tainted'[t]
      <4>1. CASE f.epoch # epoch[t]
        BY <1>5, <3>1, <4>1
      <4>2. CASE f.epoch = epoch[t]
        BY <1>5, <1>11, <3>1, <4>2 DEF CountsExact
      <4> QED
        BY <4>1, <4>2
    <3> QED
      BY <2>2, <3>1, <3>2 DEF CountsExact
  <2>3. CASE u = t /\ ~check
    <3>0. t \in Present
      BY <2>3
    <3>1. PICK p \in ProfilerStates : p = profilers_[t] /\ p.processing_cnt_ # 0
      BY <1>3, <2>3, <3>0, FlightFacts
    <3>2. PICK q \in ProfilerStates :
            /\ q = Ended(p, f.units) /\ q.processing_cnt_ = p.processing_cnt_ - 1 /\ BusyTime(q) = BusyTime(p)
            /\ q.request_cnt_ = p.request_cnt_ + 1 /\ q.unit_cnt_ = p.unit_cnt_ + f.units
            /\ q.period_request_cnt_ = p.period_request_cnt_ + 1
      BY <1>1, <3>1, EndedFacts DEF ProfilerTyped
    <3>3. profilers_'[t] = q
      BY <1>7, <2>3, <3>0, <3>1, <3>2
    <3>4. BusyTime(profilers_[t])' = BusyTime(q)
      BY <1>4, <3>3 DEF BusyTime
    <3>5. PICK x \in Truths : x = truth[t]
      BY FlightFacts
    <3>6. /\ truth'[t].requests = x.requests + 1 /\ truth'[t].units = x.units + f.units
          /\ truth'[t].shown = x.shown /\ truth'[t].busy = x.busy
      <4>1. PICK y : y = [truth[t] EXCEPT !.requests = @ + 1, !.units = @ + f.units]
        OBVIOUS
      <4>a. truth' = [truth EXCEPT ![t] = y]
        BY <1>7, <2>3, <3>0, <4>1
      <4>2. truth'[t] = [x EXCEPT !.requests = @ + 1, !.units = @ + f.units]
        BY <4>1, <4>a, <3>5 DEF ProfilerTyped
      <4> QED
        BY <4>2 DEF Truths
    <3>7. /\ p.request_cnt_ = x.requests /\ p.unit_cnt_ = x.units
          /\ x.shown + p.period_request_cnt_ = x.requests
          /\ ~tainted[t] => p.processing_cnt_ = Cardinality(Flying(t)) /\ BusyTime(p) = x.busy
      BY <3>0, <3>1, <3>5 DEF CountsExact
    <3>8. x.requests \in Nat /\ x.shown \in Nat /\ p.period_request_cnt_ \in Nat /\ p.processing_cnt_ \in Nat
      BY ProfilerFields
    <3>9. ~tainted'[t] => ~tainted[t] /\ f.epoch = epoch[t]
      BY <1>5, <3>0
    <3>10. ~tainted'[t] => q.processing_cnt_ = Cardinality(Flying(t)') /\ BusyTime(q) = x.busy
      BY <1>11, <3>2, <3>7, <3>9
    <3> QED
      BY <2>3, <3>2, <3>3, <3>4, <3>6, <3>7, <3>8, <3>10
  <2> QED
    BY <2>1, <2>2, <2>3
<1>18. FatalOnlyAfterRemoval'
  <2> SUFFICES ASSUME check PROVE tainted'[t]
    BY <1>4 DEF FatalOnlyAfterRemoval
  <2>1. t \in Present /\ profilers_[t].processing_cnt_ = 0
    BY <1>3
  <2>2. CASE f.epoch # epoch[t]
    BY <1>5, <2>1, <2>2
  <2>3. CASE f.epoch = epoch[t]
    BY <1>5, <1>11, <2>1, <2>3 DEF CountsExact
  <2> QED
    BY <2>2, <2>3
<1> QED
  BY <1>12, <1>15, <1>16, <1>17, <1>18

LEMMA RemoveStep ==
  ASSUME ProfilerInv, NEW t \in ProfTags, RemoveTag(t)
  PROVE  ProfilerInv'
<1> USE DEF ProfilerInv
<1>1. /\ ~fatal /\ t \in Present /\ profilers_' = [u \in Present \ {t} |-> profilers_[u]]
      /\ epoch' = [epoch EXCEPT ![t] = @ + 1] /\ truth' = [truth EXCEPT ![t] = NewTruth]
      /\ tainted' = [tainted EXCEPT ![t] = FALSE]
      /\ UNCHANGED <<now, flying, unused, fatal>>
  BY DEF RemoveTag
<1>2. PICK e \in Nat : e = epoch[t]
  BY FlightFacts
<1>3. /\ epoch' \in [ProfTags -> Nat] /\ epoch'[t] = e + 1 /\ \A u \in ProfTags : u # t => epoch'[u] = epoch[u]
      /\ \A u \in ProfTags : epoch[u] \in Nat /\ epoch[u] <= epoch'[u]
  BY <1>1, <1>2 DEF ProfilerTyped
<1>4. /\ truth' \in [ProfTags -> Truths] /\ truth'[t] = NewTruth /\ \A u \in ProfTags : u # t => truth'[u] = truth[u]
      /\ tainted' \in [ProfTags -> BOOLEAN] /\ ~tainted'[t] /\ \A u \in ProfTags : u # t => tainted'[u] = tainted[u]
  BY <1>1, NewRecords DEF ProfilerTyped
<1>5. /\ Present' = Present \ {t} /\ profilers_' \in [Present' -> ProfilerStates]
      /\ \A u \in Present' : profilers_'[u] = profilers_[u]
  BY <1>1 DEF Present, ProfilerTyped
<1>6. ProfilerTyped'
  BY <1>1, <1>3, <1>4, <1>5 DEF ProfilerTyped
<1>7. /\ Flying(t)' = {}
      /\ \A u \in ProfTags : u # t => Flying(u)' = Flying(u)
  <2>1. \A r \in ProfReqs : flying[r] # NotFlying /\ flying[r].tag = t => flying[r].epoch \in Nat /\ flying[r].epoch <= e
    BY <1>2, FlightFacts DEF FlightsKnown
  <2>2. \A r \in ProfReqs : ~(flying[r] # NotFlying /\ flying[r].tag = t /\ flying[r].epoch = e + 1)
    BY <2>1
  <2>3. Flying(t)' = {}
    BY <1>1, <1>3, <2>2 DEF Flying
  <2>4. \A u \in ProfTags : u # t => Flying(u)' = Flying(u)
    BY <1>1, <1>3 DEF Flying
  <2> QED
    BY <2>3, <2>4
<1>8. FlightsKnown'
  <2>1. \A u \in ProfTags : IsFiniteSet(Flying(u)')
    BY <1>7, FS_EmptySet DEF FlightsKnown
  <2>2. ASSUME NEW r \in ProfReqs, flying'[r] # NotFlying
        PROVE  flying'[r].epoch <= epoch'[flying'[r].tag]
    <3>1. flying[r] # NotFlying /\ flying'[r] = flying[r]
      BY <1>1, <2>2
    <3>2. PICK u \in ProfTags, n \in Nat : u = flying[r].tag /\ n = flying[r].epoch /\ n <= epoch[u]
      BY <3>1, FlightFacts DEF FlightsKnown
    <3> QED
      BY <1>3, <3>1, <3>2
  <2>3. \A r \in unused' : flying'[r] = NotFlying
    BY <1>1 DEF FlightsKnown
  <2> QED
    BY <2>1, <2>2, <2>3 DEF FlightsKnown
<1>9. AbsentClear'
  <2>1. ASSUME NEW u \in ProfTags \ Present' PROVE truth'[u] = NewTruth /\ ~tainted'[u] /\ Flying(u)' = {}
    <3>1. CASE u = t
      BY <1>4, <1>7, <3>1
    <3>2. CASE u # t
      <4>1. u \in ProfTags \ Present
        BY <1>5, <2>1, <3>2
      <4> QED
        BY <1>4, <1>7, <3>2, <4>1 DEF AbsentClear
    <3> QED
      BY <3>1, <3>2
  <2> QED
    BY <2>1 DEF AbsentClear, NewTruth
<1>10. CountsExact'
  <2>1. ASSUME NEW u \in Present'
        PROVE  /\ profilers_'[u].request_cnt_ = truth'[u].requests /\ profilers_'[u].unit_cnt_ = truth'[u].units
               /\ truth'[u].shown + profilers_'[u].period_request_cnt_ = truth'[u].requests
               /\ ~tainted'[u] => /\ profilers_'[u].processing_cnt_ = Cardinality(Flying(u)')
                                  /\ BusyTime(profilers_[u])' = truth'[u].busy
    <3>1. u \in Present /\ u # t /\ u \in ProfTags
      BY <1>5, <2>1, FlightFacts
    <3> QED
      BY <1>1, <1>4, <1>5, <1>7, <2>1, <3>1, CountsFrame
  <2> QED
    BY <2>1 DEF CountsExact
<1>11. FatalOnlyAfterRemoval'
  BY <1>1 DEF FatalOnlyAfterRemoval
<1> QED
  BY <1>6, <1>8, <1>9, <1>10, <1>11

LEMMA UpdateStep ==
  ASSUME ProfilerInv, Update
  PROVE  ProfilerInv'
<1> USE DEF ProfilerInv
<1>1. /\ ~fatal /\ profilers_' = [t \in Present |-> Refreshed(profilers_[t])]
      /\ truth' = [t \in ProfTags |->
                     IF t \in Present THEN [truth[t] EXCEPT !.shown = @ + profilers_'[t].rt.req] ELSE truth[t]]
      /\ UNCHANGED <<now, flying, unused, fatal, epoch, tainted>>
  BY DEF Update
<1>2. now \in Nat
  BY DEF ProfilerTyped
<1>3. ASSUME NEW t \in Present
      PROVE  /\ profilers_'[t] \in ProfilerStates /\ truth'[t] \in Truths
             /\ profilers_'[t].processing_cnt_ = profilers_[t].processing_cnt_
             /\ profilers_'[t].request_cnt_ = profilers_[t].request_cnt_
             /\ profilers_'[t].unit_cnt_ = profilers_[t].unit_cnt_
             /\ profilers_'[t].period_request_cnt_ = 0
             /\ truth'[t].busy = truth[t].busy /\ truth'[t].requests = truth[t].requests
             /\ truth'[t].units = truth[t].units
             /\ truth'[t].shown = truth[t].shown + profilers_[t].period_request_cnt_
             /\ BusyTime(profilers_[t])' = BusyTime(profilers_[t])
  <2>1. PICK p \in ProfilerStates : p = profilers_[t]
    BY <1>3, FlightFacts
  <2>2. PICK x \in Truths : x = truth[t]
    BY <1>3, FlightFacts
  <2>3. /\ p.period_request_cnt_ \in Nat /\ p.period_unit_cnt_ \in Nat /\ p.last_update_ \in Int /\ x.shown \in Nat
        /\ p.processing_cnt_ \in Nat
    BY ProfilerFields
  <2>4. PICK q : q = Refreshed(p)
    OBVIOUS
  <2>5. PICK w \in Rates : w = PeriodRates(p) /\ w.req = p.period_request_cnt_
    <3>1. PICK w : w = PeriodRates(p)
      OBVIOUS
    <3>2. now - p.last_update_ \in Int
      BY <1>2, <2>3
    <3>3. w = [req |-> p.period_request_cnt_, unit |-> p.period_unit_cnt_, period |-> now - p.last_update_]
      BY <3>1 DEF PeriodRates
    <3>4. w \in Rates /\ w.req = p.period_request_cnt_
      BY <2>3, <3>2, <3>3 DEF Rates
    <3> QED
      BY <3>1, <3>4
  <2>6. q = [p EXCEPT !.last_update_ = now, !.period_request_cnt_ = 0, !.period_unit_cnt_ = 0, !.rt = w]
    BY <2>4, <2>5 DEF Refreshed
  <2>7. /\ q \in ProfilerStates /\ q.rt = w
        /\ q.processing_cnt_ = p.processing_cnt_ /\ q.request_cnt_ = p.request_cnt_ /\ q.unit_cnt_ = p.unit_cnt_
        /\ q.period_request_cnt_ = 0 /\ q.start_time_ = p.start_time_ /\ q.total_ = p.total_
    <3>1. PICK R : R = Rates
      OBVIOUS
    <3>2. p \in [processing_cnt_ : Nat, start_time_ : Int, total_ : Int, request_cnt_ : Nat, unit_cnt_ : Nat,
                 last_update_ : Int, period_request_cnt_ : Nat, period_unit_cnt_ : Nat, rt : R]
      BY <3>1 DEF ProfilerStates
    <3>3. /\ q.rt = w
          /\ q.processing_cnt_ = p.processing_cnt_ /\ q.request_cnt_ = p.request_cnt_ /\ q.unit_cnt_ = p.unit_cnt_
          /\ q.period_request_cnt_ = 0 /\ q.start_time_ = p.start_time_ /\ q.total_ = p.total_
      BY <2>6, <3>2
    <3>4. q \in [processing_cnt_ : Nat, start_time_ : Int, total_ : Int, request_cnt_ : Nat, unit_cnt_ : Nat,
                 last_update_ : Int, period_request_cnt_ : Nat, period_unit_cnt_ : Nat, rt : R]
      <4>1. PICK i \in Int : i = now
        BY <1>2
      <4>2. q = [p EXCEPT !.last_update_ = i, !.period_request_cnt_ = 0, !.period_unit_cnt_ = 0, !.rt = w] /\ w \in R
        BY <2>5, <2>6, <3>1, <4>1
      <4>3. q = [processing_cnt_ |-> p.processing_cnt_, start_time_ |-> p.start_time_, total_ |-> p.total_,
                 request_cnt_ |-> p.request_cnt_, unit_cnt_ |-> p.unit_cnt_, last_update_ |-> i,
                 period_request_cnt_ |-> 0, period_unit_cnt_ |-> 0, rt |-> w]
        BY <3>2, <4>2
      <4> QED
        BY <3>2, <4>2, <4>3
    <3> QED
      BY <3>1, <3>3, <3>4 DEF ProfilerStates
  <2>8. profilers_'[t] = q
    BY <1>1, <1>3, <2>1, <2>4
  <2>9. PICK n \in Nat : n = x.shown + p.period_request_cnt_
    BY <2>3
  <2>10. PICK y : y = [x EXCEPT !.shown = n]
    OBVIOUS
  <2>11. y \in Truths /\ y.busy = x.busy /\ y.requests = x.requests /\ y.units = x.units /\ y.shown = n
    BY <2>10 DEF Truths
  <2>12. truth'[t] = y
    <3>1. t \in ProfTags /\ truth'[t] = [truth[t] EXCEPT !.shown = @ + profilers_'[t].rt.req]
      BY <1>1, <1>3, FlightFacts
    <3>2. [truth[t] EXCEPT !.shown = @ + profilers_'[t].rt.req] = [x EXCEPT !.shown = x.shown + p.period_request_cnt_]
      BY <2>2, <2>5, <2>7, <2>8 DEF Truths
    <3> QED
      BY <3>1, <3>2, <2>9, <2>10
  <2>13. BusyTime(profilers_[t])' = BusyTime(profilers_[t])
    <3>1. now' = now
      BY <1>1
    <3> QED
      BY <3>1, <2>1, <2>7, <2>8 DEF BusyTime
  <2> QED
    BY <2>1, <2>2, <2>7, <2>8, <2>9, <2>11, <2>12, <2>13
<1>4. Present' = Present /\ \A t \in ProfTags : Flying(t)' = Flying(t)
  BY <1>1 DEF Present, Flying
<1>5. \A t \in ProfTags \ Present : truth'[t] = truth[t]
  BY <1>1
<1>6. ProfilerTyped'
  <2>1. truth' \in [ProfTags -> Truths]
    <3>1. truth' = [t \in ProfTags |-> truth'[t]]
      BY <1>1
    <3>2. \A t \in ProfTags : truth'[t] \in Truths
      BY <1>3, <1>5, FlightFacts
    <3> QED
      BY <3>1, <3>2
  <2>2. profilers_' \in [Present -> ProfilerStates]
    <3>1. profilers_' = [t \in Present |-> profilers_'[t]]
      BY <1>1
    <3> QED
      BY <1>3, <3>1
  <2> QED
    BY <1>1, <1>4, <2>1, <2>2 DEF ProfilerTyped
<1>7. FlightsKnown'
  BY <1>1, <1>4 DEF FlightsKnown
<1>8. AbsentClear'
  BY <1>1, <1>4, <1>5 DEF AbsentClear, NewTruth
<1>9. CountsExact'
  <2>1. ASSUME NEW u \in Present'
        PROVE  /\ profilers_'[u].request_cnt_ = truth'[u].requests /\ profilers_'[u].unit_cnt_ = truth'[u].units
               /\ truth'[u].shown + profilers_'[u].period_request_cnt_ = truth'[u].requests
               /\ ~tainted'[u] => /\ profilers_'[u].processing_cnt_ = Cardinality(Flying(u)')
                                  /\ BusyTime(profilers_[u])' = truth'[u].busy
    <3>1. u \in Present /\ u \in ProfTags
      BY <1>4, <2>1, FlightFacts
    <3>2. /\ profilers_[u].request_cnt_ = truth[u].requests /\ profilers_[u].unit_cnt_ = truth[u].units
          /\ truth[u].shown + profilers_[u].period_request_cnt_ = truth[u].requests
          /\ ~tainted[u] => /\ profilers_[u].processing_cnt_ = Cardinality(Flying(u))
                            /\ BusyTime(profilers_[u]) = truth[u].busy
      BY <3>1 DEF CountsExact
    <3>3. truth[u].requests \in Nat
      BY <3>1, FlightFacts, ProfilerFields
    <3>4. tainted'[u] = tainted[u] /\ Flying(u)' = Flying(u)
      BY <1>1, <1>4, <3>1
    <3> QED
      BY <1>3, <3>1, <3>2, <3>3, <3>4
  <2> QED
    BY <2>1 DEF CountsExact
<1>10. FatalOnlyAfterRemoval'
  BY <1>1 DEF FatalOnlyAfterRemoval
<1> QED
  BY <1>6, <1>7, <1>8, <1>9, <1>10

LEMMA TickStep ==
  ASSUME ProfilerInv, Tick
  PROVE  ProfilerInv'
<1> USE DEF ProfilerInv
<1>1. /\ ~fatal /\ now' = now + 1
      /\ truth' = [t \in ProfTags |-> IF Flying(t) # {} THEN [truth[t] EXCEPT !.busy = @ + 1] ELSE truth[t]]
      /\ UNCHANGED <<profilers_, flying, unused, fatal, epoch, tainted>>
  BY DEF Tick
<1>2. now \in Nat /\ now' \in Nat
  BY <1>1 DEF ProfilerTyped
<1>3. ASSUME NEW t \in ProfTags
      PROVE  /\ truth'[t] \in Truths /\ truth'[t].requests = truth[t].requests
             /\ truth'[t].units = truth[t].units /\ truth'[t].shown = truth[t].shown
             /\ truth'[t].busy = truth[t].busy + (IF Flying(t) # {} THEN 1 ELSE 0)
             /\ Flying(t) = {} => truth'[t] = truth[t]
  <2>1. PICK x \in Truths : x = truth[t] /\ x.busy \in Int
    BY FlightFacts, ProfilerFields
  <2>2. PICK n \in Int : n = x.busy + 1
    BY <2>1
  <2>3. PICK y : y = [x EXCEPT !.busy = n]
    OBVIOUS
  <2>4. y \in Truths /\ y.requests = x.requests /\ y.units = x.units /\ y.shown = x.shown /\ y.busy = n
    BY <2>3 DEF Truths
  <2>5. truth'[t] = IF Flying(t) # {} THEN [truth[t] EXCEPT !.busy = @ + 1] ELSE truth[t]
    BY <1>1
  <2>6. [truth[t] EXCEPT !.busy = @ + 1] = y
    BY <2>1, <2>2, <2>3
  <2>7. CASE Flying(t) # {}
    BY <2>1, <2>2, <2>4, <2>5, <2>6, <2>7
  <2>8. CASE Flying(t) = {}
    BY <2>1, <2>5, <2>8
  <2> QED
    BY <2>7, <2>8
<1>4. Present' = Present /\ \A t \in ProfTags : Flying(t)' = Flying(t)
  BY <1>1 DEF Present, Flying
<1>5. ProfilerTyped'
  <2>1. truth' \in [ProfTags -> Truths]
    <3>1. truth' = [t \in ProfTags |-> truth'[t]]
      BY <1>1
    <3> QED
      BY <1>3, <3>1
  <2> QED
    BY <1>1, <1>2, <1>4, <2>1 DEF ProfilerTyped
<1>6. FlightsKnown'
  BY <1>1, <1>4 DEF FlightsKnown
<1>7. AbsentClear'
  <2>1. ASSUME NEW u \in ProfTags \ Present' PROVE truth'[u] = NewTruth /\ ~tainted'[u] /\ Flying(u)' = {}
    BY <1>1, <1>3, <1>4, <2>1 DEF AbsentClear
  <2> QED
    BY <2>1 DEF AbsentClear, NewTruth
<1>8. CountsExact'
  <2>1. ASSUME NEW u \in Present'
        PROVE  /\ profilers_'[u].request_cnt_ = truth'[u].requests /\ profilers_'[u].unit_cnt_ = truth'[u].units
               /\ truth'[u].shown + profilers_'[u].period_request_cnt_ = truth'[u].requests
               /\ ~tainted'[u] => /\ profilers_'[u].processing_cnt_ = Cardinality(Flying(u)')
                                  /\ BusyTime(profilers_[u])' = truth'[u].busy
    <3>1. u \in Present /\ u \in ProfTags
      BY <1>4, <2>1, FlightFacts
    <3>2. PICK p \in ProfilerStates : p = profilers_[u] /\ profilers_'[u] = p
      BY <1>1, <3>1, FlightFacts
    <3>3. /\ p.request_cnt_ = truth[u].requests /\ p.unit_cnt_ = truth[u].units
          /\ truth[u].shown + p.period_request_cnt_ = truth[u].requests
          /\ ~tainted[u] => p.processing_cnt_ = Cardinality(Flying(u)) /\ BusyTime(p) = truth[u].busy
      BY <3>1, <3>2 DEF CountsExact
    <3>4. Cardinality(Flying(u)) = 0 <=> Flying(u) = {}
      BY <3>1, FS_EmptySet DEF FlightsKnown
    <3>5. p.processing_cnt_ \in Nat /\ p.total_ \in Int /\ p.start_time_ \in Int
      BY ProfilerFields
    <3>6. BusyTime(profilers_[u])' = BusyTime(p) + (IF p.processing_cnt_ = 0 THEN 0 ELSE 1)
      <4>1. BusyTime(profilers_[u])' = p.total_ + (IF p.processing_cnt_ = 0 THEN 0 ELSE now' - p.start_time_)
        BY <3>2 DEF BusyTime
      <4>2. BusyTime(p) = p.total_ + (IF p.processing_cnt_ = 0 THEN 0 ELSE now - p.start_time_)
        BY DEF BusyTime
      <4> QED
        BY <1>1, <1>2, <3>5, <4>1, <4>2
    <3>7. tainted'[u] = tainted[u] /\ Flying(u)' = Flying(u)
      BY <1>1, <1>4, <3>1
    <3>8. ~tainted'[u] => /\ p.processing_cnt_ = Cardinality(Flying(u)') /\ BusyTime(profilers_[u])' = truth'[u].busy
      BY <1>3, <3>1, <3>3, <3>4, <3>6, <3>7
    <3> QED
      BY <1>3, <3>1, <3>2, <3>3, <3>8
  <2> QED
    BY <2>1 DEF CountsExact
<1>9. FatalOnlyAfterRemoval'
  BY <1>1 DEF FatalOnlyAfterRemoval
<1> QED
  BY <1>5, <1>6, <1>7, <1>8, <1>9

LEMMA ProfilerStart == ProfilerInit => ProfilerInv
<1> SUFFICES ASSUME ProfilerInit PROVE ProfilerInv
  OBVIOUS
<1>1. /\ profilers_ = [t \in {} |-> 0] /\ now = 0 /\ fatal = FALSE
      /\ flying = [r \in ProfReqs |-> NotFlying] /\ unused = ProfReqs
      /\ epoch = [t \in ProfTags |-> 0] /\ truth = [t \in ProfTags |-> NewTruth]
      /\ tainted = [t \in ProfTags |-> FALSE]
  BY SMT DEF ProfilerInit
<1>2. Present = {} /\ profilers_ \in [Present -> ProfilerStates]
  BY <1>1 DEF Present
<1>3. \A t \in ProfTags : Flying(t) = {}
  BY <1>1 DEF Flying
<1>4. ProfilerTyped
  <2>1. truth \in [ProfTags -> Truths]
    BY <1>1, NewRecords
  <2> QED
    BY <1>1, <1>2, <2>1 DEF ProfilerTyped
<1>5. FlightsKnown
  BY <1>1, <1>3, FS_EmptySet DEF FlightsKnown
<1>6. AbsentClear /\ CountsExact
  BY <1>1, <1>2, <1>3 DEF AbsentClear, CountsExact
<1>7. FatalOnlyAfterRemoval
  BY <1>1 DEF FatalOnlyAfterRemoval
<1> QED
  BY <1>4, <1>5, <1>6, <1>7 DEF ProfilerInv

LEMMA ProfilerStep == ProfilerInv /\ [ProfilerNext]_tagVars => ProfilerInv'
<1> SUFFICES ASSUME ProfilerInv, [ProfilerNext]_tagVars PROVE ProfilerInv'
  OBVIOUS
<1>1. CASE \E r \in ProfReqs, t \in ProfTags, n \in ProfUnits : RequestStart(r, t, n)
  BY <1>1, StartStep
<1>2. CASE \E r \in ProfReqs : RequestEnd(r)
  BY <1>2, EndStep
<1>3. CASE \E t \in ProfTags : RemoveTag(t)
  BY <1>3, RemoveStep
<1>4. CASE Update
  BY <1>4, UpdateStep
<1>5. CASE Tick
  BY <1>5, TickStep
<1>6. CASE UNCHANGED tagVars
  BY <1>6 DEF tagVars, ProfilerInv, ProfilerTyped, FlightsKnown, AbsentClear, CountsExact,
              FatalOnlyAfterRemoval, Present, Flying, BusyTime, NewTruth
<1> QED
  BY <1>1, <1>2, <1>3, <1>4, <1>5, <1>6 DEF ProfilerNext

\* The fields of a record, by name.
LEMMA LatencyByField ==
  /\ Latencies = [LatencyFields -> Nat]
  /\ \A l, m \in Latencies : (\A f \in LatencyFields : l[f] = m[f]) => l = m
<1>1. \A l \in Latencies : l \in [LatencyFields -> Nat]
  BY DEF Latencies, LatencyFields
<1>2. ASSUME NEW l \in [LatencyFields -> Nat] PROVE l \in Latencies
  BY DEF Latencies, LatencyFields
<1>3. \A l, m \in [LatencyFields -> Nat] : (\A f \in LatencyFields : l[f] = m[f]) => l = m
  OBVIOUS
<1> QED
  BY <1>1, <1>2, <1>3

LEMMA LatencyStart == LatencyInit => LatencyInv
<1> SUFFICES ASSUME LatencyInit PROVE LatencyInv
  OBVIOUS
<1>1. NewLatency \in Latencies /\ Between(NewLatency)
  <2>1. PICK m \in Nat : NewLatency = [unit_cnt |-> 0, total |-> 0, max |-> 0, min |-> m]
    BY DEF NewLatency
  <2>2. m * 0 <= 0 /\ 0 <= 0 * 0
    OBVIOUS
  <2> QED
    BY <2>1, <2>2 DEF Latencies, Between
<1>2. copy = <<>> /\ DOMAIN copy = {} /\ copy \in Copies
  <2>1. copy \in [{} -> Nat] /\ {} \in SUBSET LatencyFields
    BY DEF LatencyInit
  <2> QED
    BY <2>1 DEF LatencyInit, Copies
<1>3. {} # LatencyFields
  BY DEF LatencyFields
<1> QED
  BY <1>1, <1>2, <1>3 DEF LatencyInit, LatencyInv, LatencyTyped

\* RecordPerformance begins: its record is right when it is through.
LEMMA RecordStep ==
  ASSUME LatencyInv, NEW n \in ProfUnits, NEW latency \in ProfLatency, RecordPerformance(n, latency)
  PROVE  LatencyInv'
<1> USE DEF LatencyInv, LatencyTyped
<1>1. /\ left = {} /\ settled' = Recorded(latency_record_, n, latency * n) /\ left' = LatencyFields
      /\ UNCHANGED <<latency_record_, copy, torn>>
  BY DEF RecordPerformance
<1>2. latency_record_ = settled
  BY <1>1, LatencyByField
<1>3. settled' \in Latencies /\ Between(settled')
  <2>1. n \in Nat /\ n > 0 /\ latency \in Nat
    BY ProfilerConstants
  <2> QED
    BY <1>1, <1>2, <2>1, RecordedFacts
<1>4. Between(settled)'
  BY <1>3 DEF Between
<1>5. Between(copy)' <=> Between(copy)
  BY <1>1 DEF Between
<1> QED
  BY <1>1, <1>3, <1>4, <1>5

\* It writes a field.
LEMMA FieldStep ==
  ASSUME LatencyInv, NEW f \in LatencyFields, RecordField(f)
  PROVE  LatencyInv'
<1> USE DEF LatencyInv, LatencyTyped
<1>1. /\ f \in left /\ latency_record_' = [latency_record_ EXCEPT ![f] = settled[f]] /\ left' = left \ {f}
      /\ UNCHANGED <<settled, copy>>
  BY DEF RecordField
<1>2. torn' \in BOOLEAN /\ (~torn' => ~torn /\ DOMAIN copy = LatencyFields)
  <2>1. torn' = (torn \/ DOMAIN copy # LatencyFields)
    BY DEF RecordField
  <2> QED
    BY <2>1, Zenon
<1>3. latency_record_ \in [LatencyFields -> Nat] /\ settled \in [LatencyFields -> Nat]
  BY LatencyByField
<1>4. /\ latency_record_' \in [LatencyFields -> Nat]
      /\ latency_record_'[f] = settled[f]
      /\ \A g \in LatencyFields : g # f => latency_record_'[g] = latency_record_[g]
  BY <1>1, <1>3
<1>5. latency_record_' \in Latencies
  BY <1>4, LatencyByField
<1>6. \A g \in LatencyFields \ left' : latency_record_'[g] = settled[g]
  BY <1>1, <1>4
<1>7. (Between(copy)' <=> Between(copy)) /\ (Between(settled)' <=> Between(settled))
  BY <1>1 DEF Between
<1> QED
  BY <1>1, <1>2, <1>5, <1>6, <1>7

\* GetLatency copies a field.
LEMMA CopyStep ==
  ASSUME LatencyInv, NEW f \in LatencyFields, GetLatency(f)
  PROVE  LatencyInv'
<1> USE DEF LatencyInv, LatencyTyped
<1>1. PICK had : had = IF DOMAIN copy = LatencyFields THEN {} ELSE DOMAIN copy
  OBVIOUS
<1>2. /\ copy' = [g \in had \cup {f} |-> IF g = f THEN latency_record_[f] ELSE copy[g]]
      /\ torn' = (left # {} \/ (had # {} /\ torn))
      /\ UNCHANGED <<latency_record_, settled, left>>
  BY <1>1, Zenon DEF GetLatency
<1>3. DOMAIN copy \in SUBSET LatencyFields /\ copy \in [DOMAIN copy -> Nat]
  BY DEF Copies
<1>4. had \in SUBSET LatencyFields /\ had \subseteq DOMAIN copy
  BY <1>1, <1>3
<1>5. torn' \in BOOLEAN /\ (~torn' => left = {} /\ (had = {} \/ ~torn))
  BY <1>2, Zenon
<1>6. latency_record_ \in [LatencyFields -> Nat] /\ settled \in [LatencyFields -> Nat]
  BY LatencyByField
<1>7. DOMAIN copy' = had \cup {f} /\ copy' \in [had \cup {f} -> Nat]
  BY <1>2, <1>3, <1>4, <1>6
<1>8. copy' \in Copies
  BY <1>4, <1>7 DEF Copies
<1>9. ASSUME ~torn' PROVE \A g \in DOMAIN copy' : copy'[g] = latency_record_[g]
  <2>1. \A g \in had : copy[g] = latency_record_[g]
    BY <1>1, <1>5, <1>9
  <2> QED
    BY <1>2, <1>7, <2>1
<1>10. ASSUME ~torn', DOMAIN copy' = LatencyFields PROVE Between(copy)'
  <2>1. \A g \in LatencyFields : latency_record_[g] = settled[g]
    BY <1>5, <1>10
  <2>2. copy' \in Latencies
    BY <1>7, <1>10, LatencyByField
  <2>3. copy' = settled
    BY <1>9, <1>10, <2>1, <2>2, LatencyByField
  <2> QED
    BY <2>3 DEF Between
<1>11. Between(settled)' <=> Between(settled)
  BY <1>2 DEF Between
<1> QED
  BY <1>2, <1>5, <1>8, <1>9, <1>10, <1>11

LEMMA LatencyStep == LatencyInv /\ [LatencyNext]_latencyVars => LatencyInv'
<1> SUFFICES ASSUME LatencyInv, [LatencyNext]_latencyVars PROVE LatencyInv'
  OBVIOUS
<1>1. CASE \E n \in ProfUnits, l \in ProfLatency : RecordPerformance(n, l)
  BY <1>1, RecordStep
<1>2. CASE \E f \in LatencyFields : RecordField(f)
  BY <1>2, FieldStep
<1>3. CASE \E f \in LatencyFields : GetLatency(f)
  BY <1>3, CopyStep
<1>4. CASE UNCHANGED latencyVars
  BY <1>4 DEF latencyVars, LatencyInv, LatencyTyped, Between
<1> QED
  BY <1>1, <1>2, <1>3, <1>4 DEF LatencyNext

LEMMA LatencyMean == LatencyInv => MeanBetween
<1> SUFFICES ASSUME LatencyInv PROVE MeanBetween
  OBVIOUS
<1>1. left = {} => latency_record_ = settled
  BY LatencyByField DEF LatencyInv, LatencyTyped
<1> QED
  BY <1>1 DEF LatencyInv, MeanBetween

\* What the observers return is what the invariant says of each profiler.
LEMMA ObserversExact == ProfilerInv /\ LatencyInv => ProfilesExact
<1> SUFFICES ASSUME ProfilerInv, LatencyInv PROVE ProfilesExact
  OBVIOUS
<1> USE DEF ProfilerInv
<1>1. \A t \in Present : /\ Summary(t).request_cnt = profilers_[t].request_cnt_
                         /\ Summary(t).unit_cnt = profilers_[t].unit_cnt_
                         /\ Summary(t).time = BusyTime(profilers_[t])
  BY DEF Summary
<1>2. \A t \in Present : Summary(t).request_cnt = truth[t].requests /\ Summary(t).unit_cnt = truth[t].units
  BY <1>1 DEF CountsExact
<1>3. /\ [t \in Present |-> Summary(t).request_cnt] = [t \in Present |-> truth[t].requests]
      /\ [t \in Present |-> Summary(t).unit_cnt] = [t \in Present |-> truth[t].units]
  BY <1>2
<1>4. SummaryExact
  BY <1>2, <1>3 DEF SummaryExact, SummaryAll
<1>5. BusyTimeExact
  BY <1>1 DEF BusyTimeExact, CountsExact
<1>6. PeriodsAddUp
  BY DEF PeriodsAddUp, CountsExact
<1>7. MeanBetween
  BY LatencyMean
<1> QED
  BY <1>4, <1>5, <1>6, <1>7 DEF ProfilesExact

\* The counts and the busy times that a session's observers return are those of its
\* requests, however requests of a tag overlap, end late or survive the removal of
\* their tag; the CHECK of RequestEnd fails only after a request was counted in a later
\* profiler than the one it began in; and the mean latency lies between its bounds,
\* under latency_mutex_, and for GetLatency, which does not take it, in a copy during
\* which no request was recorded.
THEOREM ProfilesAreExact == ProfilerSpec /\ LatencySpec => []ProfilesExact
<1>1. ProfilerSpec => []ProfilerInv
  BY ProfilerStart, ProfilerStep, PTL DEF ProfilerSpec
<1>2. LatencySpec => []LatencyInv
  BY LatencyStart, LatencyStep, PTL DEF LatencySpec
<1> QED
  BY <1>1, <1>2, ObserversExact, PTL
=============================================================================
