------------------------------ MODULE Session ------------------------------
(***************************************************************************)
(* One infer_server::Session: the requests clients send, the items of a    *)
(* request that come back from the pipeline in any order, and the task on  *)
(* the thread pool that calls the user's observer back, one request at a   *)
(* time and in the order of sending.                                       *)
(*                                                                         *)
(* A critical section under request_mutex_ is one step.  What happens      *)
(* between two critical sections is a step of its own, because the races   *)
(* of this component live there: process_finished_ is set before           *)
(* CheckAndResponse takes the mutex, in_response_ is cleared after the     *)
(* mutex is released, and ~RequestControl waits for done_mutex_.           *)
(*                                                                         *)
(* A RequestControl is named by its request id.  Its heap address is kept  *)
(* apart (addr) because CheckAndResponse compares pointers and an address  *)
(* may be given out again once the object is deleted.                      *)
(*                                                                         *)
(* A session is made for Request or for RequestSync (is_sync_link_).  The  *)
(* caller of RequestSync keeps the pointer Send returned, waits for the    *)
(* flag its observer sets, and after a timeout calls Discard() through     *)
(* that pointer without request_mutex_: the request may have been answered *)
(* and deleted by then (the FIXME in InferServer::RequestSync).            *)
(***************************************************************************)
EXTENDS Integers, Sequences, FiniteSets

CONSTANTS
  Clients,      \* user threads calling Request / WaitTaskDone / DiscardTask
  Workers,      \* threads of the pool that run the response task
  Tags,         \* Package::tag
  TagsOf,       \* the tags each client uses
  DataNums,     \* possible values of pack->data.size()
  Statuses,     \* what a processor may return, "SUCCESS" among them
  Addrs,        \* heap addresses a RequestControl may live at
  MaxRequests,  \* bound on the number of requests sent in a behaviour
  CounterMod    \* uint32_t wraps at this value

ASSUME SessionConstants ==
  /\ Tags # {} /\ TagsOf \in [Clients -> SUBSET Tags]
  /\ Addrs # {}
  /\ DataNums \subseteq Nat
  /\ "SUCCESS" \in Statuses
  /\ "none" \notin Statuses
  /\ MaxRequests \in Nat \ {0}
  /\ CounterMod \in Nat \ {0}

Ids == 0 .. (MaxRequests - 1)

VARIABLES
  \* Session
  request_list_, request_id_, in_response_, running_, is_sync_link_,
  \* RequestControl, by request id
  tag_, data_num_, wait_num_, status_, process_finished_, is_discarded_,
  future_taken, addr, life,
  \* items of a request inside the pipeline; a thread of the pipeline that is
  \* between process_finished_.store(true) and the end of ProcessDone
  inflight, in_notify,
  \* Executor: the processing number limit
  processing_unit_, processing_req_,
  \* clients
  pc, mine, wait_set,
  \* the thread pool: response tasks that are queued, and that are running
  posted, wpc, wcur,
  \* ~Session, and std::terminate
  destroy, aborted,
  \* history: the status each observer call got, the last request served, and
  \* why a request has is_discarded_ set
  reported, last_response, why

session  == <<request_list_, request_id_, in_response_, running_>>
identity == <<tag_, data_num_, addr>>
marks    == <<is_sync_link_, is_discarded_, why>>
progress == <<wait_num_, status_, process_finished_>>
pipeline == <<inflight, in_notify>>
limit    == <<processing_unit_, processing_req_>>
client   == <<pc, mine, wait_set>>
pool     == <<posted, wpc, wcur>>
ending   == <<destroy, aborted>>
history  == <<reported, last_response>>
vars == <<session, identity, marks, progress, future_taken, life,
          pipeline, limit, client, pool, ending, history>>

-----------------------------------------------------------------------------
\* Where a client is: in Send ("upload", "check"), in RequestSync after it
\* ("sync", and "discard" once wait_for has timed out), in WaitTaskDone.
CallStages == {"idle", "upload", "check", "sync", "discard", "future", "spin"}

\* What set is_discarded_: somebody who meant this request, before the response
\* task tested it ("asked") or after ("late"); or a Discard through a pointer to
\* the request that lived at this address before ("struck").
Causes == {"asked", "late", "struck"}

TypeOK ==
  /\ request_list_ \in Seq(Ids)
  /\ request_id_ \in 0 .. MaxRequests
  /\ in_response_ \in BOOLEAN
  /\ running_ \in BOOLEAN
  /\ is_sync_link_ \in BOOLEAN
  /\ tag_ \in [Ids -> Tags]
  /\ data_num_ \in [Ids -> Nat]
  /\ wait_num_ \in [Ids -> Nat]
  /\ status_ \in [Ids -> Statuses]
  /\ process_finished_ \in [Ids -> BOOLEAN]
  /\ is_discarded_ \in [Ids -> BOOLEAN]
  /\ future_taken \in [Ids -> BOOLEAN]
  /\ addr \in [Ids -> Addrs]
  /\ life \in [Ids -> {"none", "live", "freed"}]
  /\ inflight \in [Ids -> Nat]
  /\ in_notify \in [Ids -> BOOLEAN]
  /\ processing_unit_ \in Nat
  /\ processing_req_ \in Nat
  /\ pc \in [Clients -> CallStages]
  /\ mine \in [Clients -> Ids]
  /\ wait_set \in [Clients -> SUBSET Ids]
  /\ posted \in SUBSET Ids
  /\ wpc \in [Workers -> {"idle", "test", "call", "release", "delete",
                          "next", "store"}]
  /\ wcur \in [Workers -> Ids]
  /\ destroy \in {"no", "wait", "awake", "dead"}
  /\ aborted \in BOOLEAN
  /\ reported \in [Ids -> Statuses \cup {"none"}]
  /\ last_response \in Int
  /\ why \in [Ids -> Causes \cup {"none"}]

Init ==
  /\ request_list_ = <<>>
  /\ request_id_ = 0
  /\ in_response_ = FALSE
  /\ running_ = TRUE
  /\ is_sync_link_ \in BOOLEAN
  /\ tag_ = [r \in Ids |-> CHOOSE t \in Tags : TRUE]
  /\ data_num_ = [r \in Ids |-> 0]
  /\ wait_num_ = [r \in Ids |-> 0]
  /\ status_ = [r \in Ids |-> "SUCCESS"]
  /\ process_finished_ = [r \in Ids |-> FALSE]
  /\ is_discarded_ = [r \in Ids |-> FALSE]
  /\ future_taken = [r \in Ids |-> FALSE]
  /\ addr = [r \in Ids |-> CHOOSE a \in Addrs : TRUE]
  /\ life = [r \in Ids |-> "none"]
  /\ inflight = [r \in Ids |-> 0]
  /\ in_notify = [r \in Ids |-> FALSE]
  /\ processing_unit_ = 0
  /\ processing_req_ = 0
  /\ pc = [c \in Clients |-> "idle"]
  /\ mine = [c \in Clients |-> 0]
  /\ wait_set = [c \in Clients |-> {}]
  /\ posted = {}
  /\ wpc = [w \in Workers |-> "idle"]
  /\ wcur = [w \in Workers |-> 0]
  /\ destroy = "no"
  /\ aborted = FALSE
  /\ reported = [r \in Ids |-> "none"]
  /\ last_response = -1
  /\ why = [r \in Ids |-> "none"]

Alive == destroy # "dead" /\ ~aborted

(***************************************************************************)
(* Session::CheckAndResponse(caller), the section under request_mutex_.    *)
(* Popping the front and pushing the response task that takes it over are  *)
(* one step: between the two nobody else can reach the popped request.     *)
(***************************************************************************)
Front == Head(request_list_)

\* Mutant: the notification is forgotten.
NotifyNobody == UNCHANGED destroy

\* sync_cond_.notify_one(): only ~Session waits on it.
NotifyDestroyer == destroy' = IF destroy = "wait" THEN "awake" ELSE destroy

\* "caller != ctrl && !ctrl->IsProcessFinished()" compares pointers.
FrontReady(caller) == addr[caller] = addr[Front] \/ process_finished_[Front]

StartResponse ==
  /\ in_response_' = TRUE
  /\ request_list_' = Tail(request_list_)
  /\ posted' = posted \cup {Front}

\* Mutant: in_response_ is set, but not tested.
CheckAndResponseNoTest(caller) ==
  \/ /\ request_list_ = <<>> \/ ~FrontReady(caller)
     /\ NotifyDestroyer
     /\ UNCHANGED <<request_list_, in_response_, posted>>
  \/ /\ request_list_ # <<>> /\ FrontReady(caller)
     /\ StartResponse
     /\ UNCHANGED destroy

\* Mutant: the finished request is answered instead of the front.
CheckAndResponseCaller(caller) ==
  /\ NotifyDestroyer
  /\ IF in_response_ \/ \A i \in DOMAIN request_list_ : request_list_[i] # caller
     THEN UNCHANGED <<request_list_, in_response_, posted>>
     ELSE /\ in_response_' = TRUE
          /\ request_list_' = SelectSeq(request_list_, LAMBDA r : r # caller)
          /\ posted' = posted \cup {caller}

CheckAndResponse(caller) ==
  \/ /\ request_list_ = <<>>
     /\ NotifyDestroyer
     /\ UNCHANGED <<request_list_, in_response_, posted>>
  \/ /\ request_list_ # <<>>
     /\ ~FrontReady(caller) \/ in_response_
     /\ UNCHANGED <<request_list_, in_response_, posted, destroy>>
  \/ /\ request_list_ # <<>>
     /\ FrontReady(caller) /\ ~in_response_
     /\ StartResponse
     /\ UNCHANGED destroy

-----------------------------------------------------------------------------
(* Session::Send, in three steps: the critical section that creates and    *)
(* lists the RequestControl, Executor::Upload, and for a package without   *)
(* data the call of CheckAndResponse.                                      *)

Free(a) == \A r \in Ids : life[r] = "live" => addr[r] # a

\* RequestSync refuses a package without data before it comes to Send.
Send(c, t, n, a) ==
  /\ Alive /\ destroy = "no" /\ running_ /\ pc[c] = "idle"
  /\ is_sync_link_ => n > 0
  /\ request_id_ < MaxRequests
  /\ Free(a)
  /\ request_list_' = Append(request_list_, request_id_)
  /\ request_id_' = request_id_ + 1
  /\ tag_' = [tag_ EXCEPT ![request_id_] = t]
  /\ data_num_' = [data_num_ EXCEPT ![request_id_] = n]
  /\ wait_num_' = [wait_num_ EXCEPT ![request_id_] = n]
  /\ process_finished_' = [process_finished_ EXCEPT ![request_id_] = n = 0]
  /\ addr' = [addr EXCEPT ![request_id_] = a]
  /\ life' = [life EXCEPT ![request_id_] = "live"]
  /\ pc' = [pc EXCEPT ![c] = "upload"]
  /\ mine' = [mine EXCEPT ![c] = request_id_]
  /\ UNCHANGED <<in_response_, running_, status_, marks, future_taken,
                 pipeline, limit, wait_set, pool, ending, history>>

AfterUpload(c) ==
  IF data_num_[mine[c]] = 0 THEN "check" ELSE IF is_sync_link_ THEN "sync" ELSE "idle"

\* Mutant: one item is pushed to the cache twice.
UploadTwice(c) ==
  /\ Alive /\ pc[c] = "upload"
  /\ processing_unit_' = (processing_unit_ + data_num_[mine[c]]) % CounterMod
  /\ processing_req_' = (processing_req_ + 1) % CounterMod
  /\ inflight' = [inflight EXCEPT ![mine[c]] = data_num_[mine[c]] + 1]
  /\ pc' = [pc EXCEPT ![c] = AfterUpload(c)]
  /\ UNCHANGED <<session, identity, progress, marks, future_taken, life,
                 in_notify, mine, wait_set, pool, ending, history>>

Upload(c) ==
  /\ Alive /\ pc[c] = "upload"
  /\ processing_unit_' = (processing_unit_ + data_num_[mine[c]]) % CounterMod
  /\ processing_req_' = (processing_req_ + 1) % CounterMod
  /\ inflight' = [inflight EXCEPT ![mine[c]] = data_num_[mine[c]]]
  /\ pc' = [pc EXCEPT ![c] = AfterUpload(c)]
  /\ UNCHANGED <<session, identity, progress, marks, future_taken, life,
                 in_notify, mine, wait_set, pool, ending, history>>

CheckEmpty(c) ==
  /\ Alive /\ pc[c] = "check"
  /\ CheckAndResponse(mine[c])
  /\ pc' = [pc EXCEPT ![c] = "idle"]
  /\ UNCHANGED <<request_id_, running_, identity, progress, marks,
                 future_taken, life, pipeline, limit, mine, wait_set, wpc, wcur,
                 aborted, history>>

-----------------------------------------------------------------------------
(* RequestControl::ProcessDone, called by a thread of the pipeline for each *)
(* item.  done_mutex_ is held through the call of done_notifier_.           *)

KeepFirstError(old, new) == IF old = "SUCCESS" THEN new ELSE old

ItemDone(r, s) ==
  /\ Alive /\ inflight[r] > 0 /\ ~in_notify[r]
  /\ inflight' = [inflight EXCEPT ![r] = @ - 1]
  /\ status_' = [status_ EXCEPT ![r] = KeepFirstError(@, s)]
  /\ wait_num_' = [wait_num_ EXCEPT ![r] = @ - 1]
  /\ process_finished_' =
       [process_finished_ EXCEPT ![r] = @ \/ wait_num_[r] = 1]
  /\ in_notify' = [in_notify EXCEPT ![r] = wait_num_[r] = 1]
  /\ UNCHANGED <<session, identity, marks, future_taken, life, limit,
                 client, pool, ending, history>>

DoneNotify(r) ==
  /\ Alive /\ in_notify[r]
  /\ CheckAndResponse(r)
  /\ in_notify' = [in_notify EXCEPT ![r] = FALSE]
  /\ UNCHANGED <<request_id_, running_, identity, progress, marks,
                 future_taken, life, inflight, limit, client, wpc, wcur,
                 aborted, history>>

-----------------------------------------------------------------------------
(* The response task that CheckAndResponse pushes to the thread pool.      *)

\* A pool thread pops the task; "next" in the code is wcur here.
WorkerTake(w, r) ==
  /\ Alive /\ wpc[w] = "idle" /\ r \in posted
  /\ posted' = posted \ {r}
  /\ wpc' = [wpc EXCEPT ![w] = "test"]
  /\ wcur' = [wcur EXCEPT ![w] = r]
  /\ UNCHANGED <<session, identity, progress, marks, future_taken, life,
                 pipeline, limit, client, ending, history>>

WorkerTest(w) ==
  /\ Alive /\ wpc[w] = "test"
  /\ wpc' = [wpc EXCEPT ![w] = IF is_discarded_[wcur[w]] THEN "release"
                                                         ELSE "call"]
  /\ UNCHANGED <<session, identity, progress, marks, future_taken, life,
                 pipeline, limit, client, posted, wcur, ending, history>>

\* RequestControl::Response: the observer sees the status of the moment.
WorkerCall(w) ==
  /\ Alive /\ wpc[w] = "call"
  /\ reported' = [reported EXCEPT ![wcur[w]] = status_[wcur[w]]]
  /\ last_response' = wcur[w]
  /\ wpc' = [wpc EXCEPT ![w] = "release"]
  /\ UNCHANGED <<session, identity, progress, marks, future_taken, life,
                 pipeline, limit, client, posted, wcur, ending>>

\* Mutant: an empty package is not counted back.
WorkerReleaseNonEmpty(w) ==
  /\ Alive /\ wpc[w] = "release"
  /\ processing_unit_' = (processing_unit_ - data_num_[wcur[w]]) % CounterMod
  /\ processing_req_' =
       (processing_req_ - IF data_num_[wcur[w]] = 0 THEN 0 ELSE 1) % CounterMod
  /\ wpc' = [wpc EXCEPT ![w] = "delete"]
  /\ UNCHANGED <<session, identity, progress, marks, future_taken, life,
                 pipeline, client, posted, wcur, ending, history>>

\* Executor::ReleaseCount.
WorkerRelease(w) ==
  /\ Alive /\ wpc[w] = "release"
  /\ processing_unit_' = (processing_unit_ - data_num_[wcur[w]]) % CounterMod
  /\ processing_req_' = (processing_req_ - 1) % CounterMod
  /\ wpc' = [wpc EXCEPT ![w] = "delete"]
  /\ UNCHANGED <<session, identity, progress, marks, future_taken, life,
                 pipeline, client, posted, wcur, ending, history>>

\* ~RequestControl takes done_mutex_ and fulfils response_done_flag_.
WorkerDelete(w) ==
  /\ Alive /\ wpc[w] = "delete" /\ ~in_notify[wcur[w]]
  /\ life' = [life EXCEPT ![wcur[w]] = "freed"]
  /\ wpc' = [wpc EXCEPT ![w] = "next"]
  /\ UNCHANGED <<session, identity, progress, marks, future_taken,
                 pipeline, limit, client, posted, wcur, ending, history>>

\* Mutant: the next request is popped without asking IsProcessFinished().
WorkerNextUnfinished(w) ==
  /\ Alive /\ wpc[w] = "next"
  /\ \/ /\ request_list_ = <<>>
        /\ in_response_' = FALSE
        /\ NotifyDestroyer
        /\ wpc' = [wpc EXCEPT ![w] = "idle"]
        /\ UNCHANGED <<request_list_, wcur>>
     \/ /\ request_list_ # <<>>
        /\ request_list_' = Tail(request_list_)
        /\ wpc' = [wpc EXCEPT ![w] = "test"]
        /\ wcur' = [wcur EXCEPT ![w] = Front]
        /\ UNCHANGED <<in_response_, destroy>>
  /\ UNCHANGED <<request_id_, running_, identity, progress, marks,
                 future_taken, life, pipeline, limit, client, posted, aborted,
                 history>>

\* The critical section at the end of the loop body.
WorkerNext(w) ==
  /\ Alive /\ wpc[w] = "next"
  /\ \/ /\ request_list_ = <<>>
        /\ in_response_' = FALSE
        /\ NotifyDestroyer
        /\ wpc' = [wpc EXCEPT ![w] = "idle"]
        /\ UNCHANGED <<request_list_, wcur>>
     \/ /\ request_list_ # <<>> /\ process_finished_[Front]
        /\ request_list_' = Tail(request_list_)
        /\ wpc' = [wpc EXCEPT ![w] = "test"]
        /\ wcur' = [wcur EXCEPT ![w] = Front]
        /\ UNCHANGED <<in_response_, destroy>>
     \/ /\ request_list_ # <<>> /\ ~process_finished_[Front]
        /\ wpc' = [wpc EXCEPT ![w] = "store"]
        /\ UNCHANGED <<request_list_, in_response_, destroy, wcur>>
  /\ UNCHANGED <<request_id_, running_, identity, progress, marks,
                 future_taken, life, pipeline, limit, client, posted, aborted,
                 history>>

\* Mutant: the flag is cleared only when the list ran empty.
WorkerStoreForgotten(w) ==
  /\ Alive /\ wpc[w] = "store"
  /\ wpc' = [wpc EXCEPT ![w] = "idle"]
  /\ UNCHANGED <<session, identity, progress, marks, future_taken, life,
                 pipeline, limit, client, posted, wcur, ending, history>>

\* in_response_.store(false) after the loop, without request_mutex_.
WorkerStore(w) ==
  /\ Alive /\ wpc[w] = "store"
  /\ in_response_' = FALSE
  /\ wpc' = [wpc EXCEPT ![w] = "idle"]
  /\ UNCHANGED <<request_list_, request_id_, running_, identity, progress,
                 marks, future_taken, life, pipeline, limit, client,
                 posted, wcur, ending, history>>

-----------------------------------------------------------------------------
(* Session::WaitTaskDone and Session::DiscardTask.                          *)

Listed(i) == request_list_[i]
LastTagged(i, t) ==
  /\ tag_[Listed(i)] = t
  /\ \A j \in DOMAIN request_list_ : j > i => tag_[Listed(j)] # t

\* What the caller waits for: its requests that are not over yet.
Outstanding(t) ==
  {r \in Ids : r < request_id_ /\ life[r] = "live" /\ tag_[r] = t}

\* A promise gives out its future once; the second get_future() throws out of
\* a noexcept function.
TakeFuture(c, r) ==
  /\ aborted' = future_taken[r]
  /\ future_taken' = [future_taken EXCEPT ![r] = TRUE]
  /\ pc' = [pc EXCEPT ![c] = "future"]
  /\ mine' = [mine EXCEPT ![c] = r]

WaitTaskDone(c, t) ==
  /\ Alive /\ destroy = "no" /\ pc[c] = "idle"
  /\ wait_set' = [wait_set EXCEPT ![c] = Outstanding(t)]
  /\ \/ \E i \in DOMAIN request_list_ :
          LastTagged(i, t) /\ TakeFuture(c, Listed(i))
     \/ /\ \A i \in DOMAIN request_list_ : tag_[Listed(i)] # t
        /\ pc' = [pc EXCEPT ![c] = "spin"]
        /\ UNCHANGED <<aborted, future_taken, mine>>
  /\ UNCHANGED <<session, identity, progress, marks, life, pipeline,
                 limit, pool, destroy, history>>

\* flag.get() returns once ~RequestControl has set the promise.
WaitFuture(c) ==
  /\ Alive /\ pc[c] = "future" /\ life[mine[c]] = "freed"
  /\ pc' = [pc EXCEPT ![c] = "spin"]
  /\ UNCHANGED <<session, identity, progress, marks, future_taken, life,
                 pipeline, limit, mine, wait_set, pool, ending, history>>

\* Mutant: no spin on in_response_.
WaitNoSpin(c) ==
  /\ Alive /\ pc[c] = "spin"
  /\ pc' = [pc EXCEPT ![c] = "idle"]
  /\ wait_set' = [wait_set EXCEPT ![c] = {}]
  /\ UNCHANGED <<session, identity, progress, marks, future_taken, life,
                 pipeline, limit, mine, pool, ending, history>>

\* while (in_response_.load()) {}
WaitSpin(c) ==
  /\ Alive /\ pc[c] = "spin" /\ ~in_response_
  /\ pc' = [pc EXCEPT ![c] = "idle"]
  /\ wait_set' = [wait_set EXCEPT ![c] = {}]
  /\ UNCHANGED <<session, identity, progress, marks, future_taken, life,
                 pipeline, limit, mine, pool, ending, history>>

(* Discard(): setting is_discarded_, and noting why.                        *)

PassedTest(r) ==
  \E w \in Workers : wcur[w] = r /\ wpc[w] \in {"call", "release", "delete"}

Discard(S, cause) ==
  /\ is_discarded_' = [r \in Ids |-> is_discarded_[r] \/ r \in S]
  /\ why' = [r \in Ids |-> IF r \notin S \/ is_discarded_[r] THEN why[r]
                           ELSE IF PassedTest(r) THEN "late" ELSE cause]
  /\ UNCHANGED is_sync_link_

\* Session::DiscardTask, under request_mutex_.
DiscardTask(c, t) ==
  /\ Alive /\ destroy = "no" /\ pc[c] = "idle"
  /\ Discard({r \in Ids : \E i \in DOMAIN request_list_ :
                              Listed(i) = r /\ tag_[r] = t}, "asked")
  /\ is_discarded_' # is_discarded_
  /\ UNCHANGED <<session, identity, progress, future_taken, life, pipeline,
                 limit, client, pool, ending, history>>

(* The end of InferServer::RequestSync.  Its observer writes the status and *)
(* the output to variables of this call and sets the flag.                  *)

SyncDone(c) ==
  /\ Alive /\ pc[c] = "sync" /\ reported[mine[c]] # "none"
  /\ pc' = [pc EXCEPT ![c] = "idle"]
  /\ UNCHANGED <<session, identity, progress, marks, future_taken, life,
                 pipeline, limit, mine, wait_set, pool, ending, history>>

\* Mutant: the request is not discarded.
SyncExpireKeep(c) ==
  /\ Alive /\ pc[c] = "sync" /\ reported[mine[c]] = "none"
  /\ pc' = [pc EXCEPT ![c] = "idle"]
  /\ UNCHANGED <<session, identity, progress, marks, future_taken, life,
                 pipeline, limit, mine, wait_set, pool, ending, history>>

\* flag.wait_for returns std::future_status::timeout.
SyncExpire(c) ==
  /\ Alive /\ pc[c] = "sync" /\ reported[mine[c]] = "none"
  /\ pc' = [pc EXCEPT ![c] = "discard"]
  /\ UNCHANGED <<session, identity, progress, marks, future_taken, life,
                 pipeline, limit, mine, wait_set, pool, ending, history>>

\* ctrl->Discard() without a lock: it stores to whatever is at the address by
\* now, the request, a younger one, or freed memory.
SyncDiscard(c) ==
  /\ Alive /\ pc[c] = "discard"
  /\ Discard({r \in Ids : life[r] = "live" /\ addr[r] = addr[mine[c]]},
             IF life[mine[c]] = "live" THEN "asked" ELSE "struck")
  /\ pc' = [pc EXCEPT ![c] = "idle"]
  /\ UNCHANGED <<session, identity, progress, future_taken, life, pipeline,
                 limit, mine, wait_set, pool, ending, history>>

-----------------------------------------------------------------------------
(* ~Session.  Its caller has stopped using the session; sync_cond_ may also *)
(* wake up by itself, which changes nothing as the condition is checked     *)
(* again under request_mutex_.                                              *)

AllDone == request_list_ = <<>> /\ ~in_response_

BeginDestroy ==
  /\ Alive /\ destroy = "no" /\ \A c \in Clients : pc[c] = "idle"
  /\ running_' = FALSE
  /\ destroy' = IF AllDone THEN "dead" ELSE "wait"
  /\ UNCHANGED <<request_list_, request_id_, in_response_, identity, progress,
                 marks, future_taken, life, pipeline, limit, client,
                 pool, aborted, history>>

WakeDestroy ==
  /\ Alive /\ destroy = "awake"
  /\ destroy' = IF AllDone THEN "dead" ELSE "wait"
  /\ UNCHANGED <<session, identity, progress, marks, future_taken, life,
                 pipeline, limit, client, pool, aborted, history>>

-----------------------------------------------------------------------------
SyncStep(c) == SyncDone(c) \/ SyncExpire(c) \/ SyncDiscard(c)

ClientStep(c) ==
  \/ \E t \in TagsOf[c], n \in DataNums, a \in Addrs : Send(c, t, n, a)
  \/ Upload(c) \/ CheckEmpty(c)
  \/ SyncStep(c)
  \/ \E t \in TagsOf[c] : WaitTaskDone(c, t)
  \/ WaitFuture(c) \/ WaitSpin(c)
  \/ \E t \in TagsOf[c] : DiscardTask(c, t)

PipelineStep(r) == (\E s \in Statuses : ItemDone(r, s)) \/ DoneNotify(r)

WorkerStep(w) ==
  \/ \E r \in Ids : WorkerTake(w, r)
  \/ WorkerTest(w) \/ WorkerCall(w) \/ WorkerRelease(w) \/ WorkerDelete(w)
  \/ WorkerNext(w) \/ WorkerStore(w)

Next ==
  \/ \E c \in Clients : ClientStep(c)
  \/ \E r \in Ids : PipelineStep(r)
  \/ \E w \in Workers : WorkerStep(w)
  \/ BeginDestroy \/ WakeDestroy

Spec == Init /\ [][Next]_vars

(* Fairness.  A client inside a call keeps running, the pipeline gives every *)
(* item back (Engine and the caches are other modules), the threads of the   *)
(* pool run, and so does the thread in ~Session once it is woken.  Nobody    *)
(* has to send, to wait, to discard or to destroy, and no timeout has to     *)
(* expire (with a timeout of 0 RequestSync waits for ever).                  *)
InCall(c) ==
  \/ Upload(c) \/ CheckEmpty(c) \/ WaitFuture(c) \/ WaitSpin(c)
  \/ SyncDone(c) \/ SyncDiscard(c)

FairSpec ==
  /\ Spec
  /\ \A c \in Clients : WF_vars(InCall(c))
  /\ \A r \in Ids : WF_vars(PipelineStep(r))
  /\ \A w \in Workers : WF_vars(WorkerStep(w))
  /\ WF_vars(WakeDestroy)

-----------------------------------------------------------------------------
(* Properties *)

Active == {w \in Workers : wpc[w] # "idle"}
Serving(w) == wpc[w] \in {"test", "call", "release", "delete"}

\* in_response_ admits one response task at a time: never two tasks, queued or
\* running, for the same session.
OneResponder ==
  /\ \A r, s \in posted : r = s
  /\ \A v, w \in Active : v = w
  /\ posted = {} \/ Active = {}

\* The observer is called in the order of Send, and at most once per request
\* (test_request.cpp, ResponseOrder), whatever order the items came back in.
ResponseInOrder ==
  \A w \in Workers : wpc[w] = "call" => last_response < wcur[w]

\* A request is answered only after ProcessDone was called for each of its
\* items ("check request finished processing" in CheckAndResponse).
FinishedBeforeResponse ==
  \A w \in Workers :
    Serving(w) => process_finished_[wcur[w]] /\ wait_num_[wcur[w]] = 0

\* RequestSync is about to call Discard on a request that is deleted.
StaleDiscard(c) == pc[c] = "discard" /\ life[mine[c]] = "freed"

\* ProcessDone never runs on a deleted RequestControl, and the response task
\* never touches one: items in the pipeline hold a raw pointer to it.  RequestSync
\* holds one as well, and the code does not keep it from being stale: it is so
\* only when the observer was called after wait_for had timed out (the FIXME in
\* RequestSync), or when the request had been dropped, of which RequestSync never
\* hears.
NoUseAfterFree ==
  /\ \A r \in Ids : inflight[r] > 0 \/ in_notify[r] => life[r] = "live"
  /\ \A w \in Workers : Serving(w) => life[wcur[w]] = "live"
  /\ \A i \in DOMAIN request_list_ : life[request_list_[i]] = "live"
  /\ \A c \in Clients :
       StaleDiscard(c) => reported[mine[c]] # "none" \/ why[mine[c]] \in {"asked", "struck"}

\* The observer of a RequestSync writes to variables of that call, so its caller
\* is still in it when the observer is called: unless Discard came between the
\* response task's test of is_discarded_ and the call (the other half of the FIXME,
\* "status and output deleted in user space").
ObserverFrame ==
  is_sync_link_ =>
    \A w \in Workers : wpc[w] = "call" =>
      \/ \E c \in Clients : mine[c] = wcur[w] /\ pc[c] \in {"sync", "discard"}
      \/ why[wcur[w]] = "late"

\* A request goes away unanswered exactly when Discard hit it before the response
\* task tested it: DiscardTask found it listed, RequestSync timed out on it, or the
\* stale pointer of another RequestSync named its address.  One that Discard hits
\* later is answered all the same.
DroppedIffDiscarded ==
  \A r \in Ids : life[r] = "freed" => (reported[r] = "none" <=> why[r] \in {"asked", "struck"})

\* WaitTaskDone returns only after every request with the tag that had been
\* sent when it was called is answered and deleted, the one that had already
\* left request_list_ included (the comment above the spin on in_response_).
WaitCovers ==
  [][\A c \in Clients : pc[c] = "spin" /\ pc'[c] = "idle" =>
       \A r \in wait_set[c] : life[r] = "freed"]_vars

\* Upload and ReleaseCount balance: once no request is left and no client is
\* between listing and uploading, both uint32_t counters are back at zero.
CountersReturnToZero ==
  (/\ \A r \in Ids : life[r] # "live"
   /\ \A c \in Clients : pc[c] # "upload")
     => processing_unit_ = 0 /\ processing_req_ = 0

\* ~Session never sleeps on sync_cond_ when the session is already empty and
\* no response is running: each transition to that state notifies it.
DestroyerAwake == destroy = "wait" => ~AllDone

\* When ~Session is over nobody can reach the session any more: no request, no
\* queued or running response task, no thread inside CheckAndResponse.
DeadSessionUnreachable ==
  destroy = "dead" =>
    /\ posted = {} /\ Active = {}
    /\ \A r \in Ids : life[r] # "live" /\ ~in_notify[r]

\* A promise hands out its future once.  A second get_future() throws and ends the
\* program, and that takes two callers that wait for the same last request at the
\* same time; one caller that waits again and again is safe.
AbortedByTwoWaiters ==
  aborted => \E c, d \in Clients : /\ c # d /\ mine[c] = mine[d]
                                   /\ pc[c] = "future" /\ pc[d] = "future"

\* The front request is finished and its CheckAndResponse is over, and no response
\* task is there to take it: the last one looked at the request before it was
\* finished and cleared in_response_ after the notifier had found it set.
HandOverLost ==
  /\ request_list_ # <<>> /\ process_finished_[Front] /\ ~in_notify[Front]
  /\ ~in_response_

\* WaitTaskDone returns ("Wait task with specified tag done") unless a hand-over
\* is lost: that is the only way in which a caller waits for ever.  RequestSync
\* may also wait for ever for a request that was discarded, since nobody sets its
\* flag then.
WaitReturns ==
  \A c \in Clients :
    pc[c] \in {"future", "spin", "sync", "discard"} ~>
      \/ pc[c] = "idle" \/ HandOverLost
      \/ pc[c] \in {"sync", "discard"} /\ is_discarded_[mine[c]]

-----------------------------------------------------------------------------
(* Parts of the inductive invariants of SessionProofs *)

\* Items in the pipeline are accounted for in wait_num_.
Accounted ==
  /\ \A r \in Ids : inflight[r] <= wait_num_[r]
  /\ \A r \in Ids : r >= request_id_ => inflight[r] = 0
  /\ \A c \in Clients : pc[c] = "upload" =>
       /\ mine[c] < request_id_
       /\ inflight[mine[c]] = 0
       /\ wait_num_[mine[c]] = data_num_[mine[c]]
  /\ \A c, d \in Clients :
       pc[c] = "upload" /\ pc[d] = "upload" /\ mine[c] = mine[d] => c = d

\* in_response_ stands for the one response task.
FlagHeld == in_response_ \/ (posted = {} /\ Active = {})

\* A request that left request_list_ is older than those in it.
Ordered ==
  /\ last_response < request_id_
  /\ \A i \in DOMAIN request_list_ :
       /\ request_list_[i] < request_id_
       /\ last_response < request_list_[i]
  /\ \A i, j \in DOMAIN request_list_ :
       i < j => request_list_[i] < request_list_[j]
  /\ \A r \in posted :
       /\ r < request_id_ /\ last_response < r
       /\ \A i \in DOMAIN request_list_ : r < request_list_[i]
  /\ \A w \in Workers : wpc[w] \in {"test", "call"} =>
       /\ wcur[w] < request_id_ /\ last_response < wcur[w]
       /\ \A i \in DOMAIN request_list_ : wcur[w] < request_list_[i]

\* The response task stops in the middle only when requests are left.
StoreNonEmpty ==
  \A w \in Workers : wpc[w] = "store" => request_list_ # <<>>

OrderInv == OneResponder /\ FlagHeld /\ Ordered /\ StoreNonEmpty

\* The requests in request_list_, whatever their order.
Queued == {request_list_[i] : i \in DOMAIN request_list_}

\* Somebody is going to delete the request: it is listed, or its response task
\* is queued or running.
Held(r) ==
  \/ r \in Queued
  \/ r \in posted
  \/ \E w \in Workers : Serving(w) /\ wcur[w] = r

\* The life of a RequestControl: the ids given out so far are its names, whoever
\* holds it holds a live one, and it is never in two places.
Lifetimes ==
  /\ \A r \in Ids : life[r] = "none" <=> r >= request_id_
  /\ \A r \in Queued \cup posted : life[r] = "live"
  /\ \A r \in posted, q \in Queued : r < q
  /\ \A w \in Workers : Serving(w) =>
       life[wcur[w]] = "live" /\ \A q \in Queued : wcur[w] < q
  /\ \A r \in Ids : life[r] = "live" => Held(r)
  /\ \A r \in Ids : life[r] = "freed" => \A q \in Queued : r < q

\* What WaitTaskDone has still to wait for: the future covers every older
\* request, and the spin on in_response_ those that have left the list.
Waiting ==
  \A c \in Clients :
    /\ pc[c] \in {"future", "spin"} => \A r \in wait_set[c] : r < request_id_
    /\ pc[c] = "future" => \A r \in wait_set[c] : r <= mine[c]
    /\ pc[c] = "spin" => \A r \in wait_set[c] : r \notin Queued

\* Where a request stands between being listed and its one answer.
Answered ==
  /\ \A r \in Ids : is_discarded_[r] <=> why[r] # "none"
  /\ \A r \in Ids : life[r] = "none" => reported[r] = "none" /\ why[r] = "none"
  /\ \A r \in Queued \cup posted : reported[r] = "none" /\ why[r] # "late"
  /\ \A w \in Workers :
       /\ wpc[w] \in {"test", "call"} => reported[wcur[w]] = "none"
       /\ wpc[w] = "test" => why[wcur[w]] # "late"
       /\ wpc[w] = "call" => why[wcur[w]] \in {"none", "late"}
       /\ wpc[w] \in {"release", "delete"} =>
            (reported[wcur[w]] = "none" <=> why[wcur[w]] \in {"asked", "struck"})
  /\ DroppedIffDiscarded

\* A future that was given out belongs to a caller that still waits on it, as
\* long as the request lives.
FutureOwned ==
  /\ \A r \in Ids : life[r] = "none" => ~future_taken[r]
  /\ \A r \in Ids : future_taken[r] /\ life[r] = "live" =>
       \E c \in Clients : pc[c] = "future" /\ mine[c] = r
  /\ \A c \in Clients : pc[c] = "future" => mine[c] < request_id_

\* A request of a sync session that nobody has discarded or answered has its caller
\* in RequestSync.
Attended(r) == \E c \in Clients : mine[c] = r /\ pc[c] \in {"upload", "sync", "discard"}

SyncOwned ==
  is_sync_link_ =>
    /\ \A r \in Ids : life[r] = "live" /\ reported[r] = "none" => why[r] # "none" \/ Attended(r)
    /\ \A c \in Clients : pc[c] = "upload" => data_num_[mine[c]] > 0

LifeInv == Lifetimes /\ Waiting /\ Answered /\ FutureOwned

\* What hands a request over was finished.
Finished ==
  /\ \A r \in Ids : process_finished_[r] => wait_num_[r] = 0
  /\ \A r \in Ids : in_notify[r] => process_finished_[r] /\ life[r] = "live"
  /\ \A r \in Ids : life[r] = "freed" => process_finished_[r]
  /\ \A r \in posted : process_finished_[r]
  /\ \A w \in Workers : Serving(w) => process_finished_[wcur[w]]

\* The pointers CheckAndResponse compares: live objects have addresses of their
\* own, and the caller that still holds the pointer of an empty package does not
\* share it with a younger request.
CallerFresh ==
  /\ \A r, s \in Ids :
       life[r] = "live" /\ life[s] = "live" /\ addr[r] = addr[s] => r = s
  /\ \A c \in Clients : pc[c] \in {"upload", "check"} =>
       /\ mine[c] < request_id_ /\ data_num_[mine[c]] \in DataNums
       /\ pc[c] = "check" => data_num_[mine[c]] = 0
       /\ data_num_[mine[c]] = 0 =>
            /\ process_finished_[mine[c]]
            /\ \A r \in Ids : life[r] = "live" /\ addr[r] = addr[mine[c]]
                                 => r = mine[c]

\* The pointer that Send passes to CheckAndResponse for an empty package may be
\* stale.  It cannot meet a reused address when there are no empty packages, or
\* when one thread sends them all.
NoStaleCaller == 0 \notin DataNums \/ \A c, d \in Clients : c = d

SafeInv == NoStaleCaller /\ Finished /\ CallerFresh

\* No thread touches a request that was freed, but RequestSync in its late Discard,
\* nor an answered call, but the observer of one discarded late; and nobody
\* can reach the session once ~Session has returned: neither a response task nor an
\* item that finishes.
MemorySafe == NoUseAfterFree /\ ObserverFrame /\ DeadSessionUnreachable

\* Every answer is right: the observer is called when all items are done, once
\* for every request that was not discarded in time, and a promise is asked for a
\* second future only by two callers that wait for the same request.
AnswersExact == FinishedBeforeResponse /\ DroppedIffDiscarded /\ AbortedByTwoWaiters

\* The requests that Upload has counted and that ReleaseCount has counted back;
\* an empty one may be in the second before it is in the first.
Uploaded == {r \in Ids : r < request_id_ /\ \A c \in Clients : pc[c] = "upload" => mine[c] # r}
Released == {r \in Ids : life[r] = "freed" \/ \E w \in Workers : wpc[w] = "delete" /\ wcur[w] = r}

\* The items of the requests in S, when request r has num[r] of them.
ItemsOf(S, num) == UNION {{r} \X (1 .. num[r]) : r \in S}

\* The counters are the difference, as far as CounterMod lets them be.
Balanced ==
  /\ IsFiniteSet(ItemsOf(Uploaded, data_num_)) /\ IsFiniteSet(ItemsOf(Released, data_num_))
  /\ processing_req_ = (Cardinality(Uploaded) - Cardinality(Released)) % CounterMod
  /\ processing_unit_ = (Cardinality(ItemsOf(Uploaded, data_num_))
                           - Cardinality(ItemsOf(Released, data_num_))) % CounterMod

\* What packages without data endanger, since the response task may overtake
\* their Send: the freed request of CheckAndResponse and the load counters, which
\* are released before they are added.
EmptyPackagesSafe == NoUseAfterFree /\ CountersReturnToZero
====
