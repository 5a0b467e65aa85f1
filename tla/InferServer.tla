---------------------------- MODULE InferServer ----------------------------
(***************************************************************************)
(* The API of the inference server: ModelManager with its cache of models, *)
(* the map from names to executors that InferServerPrivate keeps for a     *)
(* device, the size of its thread pool, and the limit on the load of an    *)
(* executor that Request and RequestSync wait for.  Clients are threads of *)
(* the application; each has one session at a time.  What a session and an *)
(* executor do with a request is in modules Session and Executor; here it   *)
(* is one step.                                                            *)
(***************************************************************************)
EXTENDS Integers, FiniteSets, Sequences

CONSTANTS
  Clients,
  Sync,        \* the clients whose sessions are synchronous
  Keys,        \* models; an executor's name is its model's key
  EngineNum,   \* desc.engine_num of the sessions of a model
  CacheLimit,  \* CNIS_MODEL_CACHE_LIMIT
  MaxThreads,  \* 3 * GetCpuCoreNumber()
  MaxLoad,     \* max_processing_num_
  PackSizes,       \* items in a package
  Serialised,  \* the application does not overlap CreateSession and DestroySession
  MaxModels, MaxExecs, MaxSessions, MaxReqs  \* bounds on what is ever created

ASSUME InferServerConstants ==
  /\ Sync \subseteq Clients /\ EngineNum \in [Keys -> Nat \ {0}] /\ PackSizes \subseteq Nat \ {0} /\ Serialised \in BOOLEAN
  /\ {CacheLimit, MaxThreads, MaxLoad} \subseteq Nat \ {0}
  /\ {MaxModels, MaxExecs, MaxSessions, MaxReqs} \subseteq Nat
  /\ IsFiniteSet(Clients) /\ IsFiniteSet(Keys) /\ "nobody" \notin Clients
  /\ \E n \in PackSizes : \A i \in PackSizes : i <= n

VARIABLES
  model_cache_,   \* the Model of each key, 0 if there is none
  models,         \* Model objects made so far
  held,           \* the ModelPtr of each client
  unloaded,       \* history: UnloadModel or ClearModelCache was called
  executor_map_,  \* the executor of each key, 0 if there is none
  mutex,          \* who has executor_map_mutex_
  exec,           \* executors
  tp,             \* threads in tp_
  sessions,       \* sessions made so far
  client,         \* what each client is doing
  reqs,           \* the requests of each client's session in the server
  sent,           \* requests made so far
  crashed         \* a null pointer was used

cache == <<model_cache_, models, held, unloaded>>
registry == <<executor_map_, mutex, tp, sessions>>
flow == <<reqs, sent>>
serverVars == <<cache, registry, exec, client, flow, crashed>>

None == <<>>
Nobody == "nobody"
Idle == [pc |-> "idle", ex |-> 0, n |-> 0, timed |-> FALSE]
Executors == [key : Keys, model : 1 .. MaxModels, links : SUBSET Clients, req : 0 .. MaxReqs, unit : Nat]

\* Where a client is in CreateSession, DestroySession, Request and RequestSync.
WaitsForRoom == {"full", "asleep", "woken", "upload"}
Linked == WaitsForRoom \cup {"ready", "lock", "wait"}
Unlinked == {"idle", "grow", "link", "delete", "shrink"}
Calls == [pc : Linked \cup Unlinked, ex : 0 .. MaxExecs, n : {0} \cup PackSizes, timed : BOOLEAN]

ServerTypeOK ==
  /\ model_cache_ \in [Keys -> 0 .. MaxModels] /\ models \in 0 .. MaxModels
  /\ held \in [Clients -> {None} \cup (Keys \X (1 .. MaxModels))] /\ unloaded \in BOOLEAN
  /\ executor_map_ \in [Keys -> 0 .. MaxExecs] /\ mutex \in Clients \cup {Nobody}
  /\ \E n \in 0 .. MaxExecs : exec \in [1 .. n -> Executors]
  /\ tp \in 0 .. MaxThreads /\ sessions \in 0 .. MaxSessions
  /\ client \in [Clients -> Calls] /\ reqs \in [Clients -> Seq(PackSizes)]
  /\ sent \in 0 .. MaxReqs /\ crashed \in BOOLEAN

ServerInit ==
  /\ model_cache_ = [k \in Keys |-> 0] /\ models = 0 /\ held = [c \in Clients |-> None]
  /\ unloaded = FALSE
  /\ executor_map_ = [k \in Keys |-> 0] /\ mutex = Nobody /\ exec = <<>> /\ tp = 0 /\ sessions = 0
  /\ client = [c \in Clients |-> Idle]
  /\ reqs = [c \in Clients |-> <<>>] /\ sent = 0 /\ crashed = FALSE

Goto(c, pc) == client' = [client EXCEPT ![c].pc = pc]

\* Request returned.
Ready(c) == [Idle EXCEPT !.pc = "ready", !.ex = client[c].ex]

-----------------------------------------------------------------------------
(* ModelManager *)

Alive(e) == executor_map_[exec[e].key] = e
Cached == {k \in Keys : model_cache_[k] # 0}

\* use_count() > 1: a client or an executor has this Model.
Used(k) ==
  \/ \E c \in Clients : held[c] = <<k, model_cache_[k]>>
  \/ \E e \in DOMAIN exec : Alive(e) /\ exec[e].key = k /\ exec[e].model = model_cache_[k]

Erase(K) == [k \in Keys |-> IF k \in K THEN 0 ELSE model_cache_[k]]

\* What may be evicted: at the limit, the first model that nobody uses.
CheckAndCleanCache ==
  LET unused == {k \in Cached : ~Used(k)}
  IN IF Cardinality(Cached) < CacheLimit \/ unused = {} THEN {{}} ELSE {{k} : k \in unused}

\* Load: a model in the cache is shared, another is read, or cannot be.
LoadModel(c, k) ==
  /\ client[c].pc = "idle" /\ held[c] = None
  /\ \/ /\ k \in Cached
        /\ held' = [held EXCEPT ![c] = <<k, model_cache_[k]>>]
        /\ UNCHANGED <<model_cache_, models>>
     \/ /\ k \notin Cached /\ models < MaxModels
        /\ models' = models + 1
        /\ held' = [held EXCEPT ![c] = <<k, models + 1>>]
        /\ \E K \in CheckAndCleanCache : model_cache_' = [Erase(K) EXCEPT ![k] = models + 1]
  /\ UNCHANGED <<unloaded, registry, exec, client, flow, crashed>>

\* UnloadModel of the client's model, or of all; who uses them keeps them.
\* It is called once.
UnloadModel(c, K) ==
  /\ client[c].pc = "idle" /\ K \cap Cached # {} /\ ~unloaded
  /\ K = Keys \/ (held[c] # None /\ K = {held[c][1]})
  /\ model_cache_' = Erase(K) /\ unloaded' = TRUE
  /\ UNCHANGED <<models, held, registry, exec, client, flow, crashed>>

\* The client forgets its ModelPtr; its executor has one too.
Drop(c) ==
  /\ client[c].pc = "ready" /\ held[c] # None
  /\ held' = [held EXCEPT ![c] = None]
  /\ UNCHANGED <<model_cache_, models, unloaded, registry, exec, client, flow, crashed>>

-----------------------------------------------------------------------------
(* CreateSession and DestroySession *)

Creating == {c \in Clients : client[c].pc \in {"grow", "link"}}
Destroying == {c \in Clients : client[c].pc \in {"lock", "delete"}}

\* CreateExecutor, under the mutex: the executor of this name if there is one.
CreateExecutor(c) ==
  /\ client[c].pc = "idle" /\ held[c] # None /\ mutex = Nobody /\ sessions < MaxSessions
  /\ Serialised => Destroying = {}
  /\ executor_map_[held[c][1]] # 0
  /\ client' = [client EXCEPT ![c] = [Idle EXCEPT !.pc = "link", !.ex = executor_map_[held[c][1]]]]
  /\ sessions' = sessions + 1
  /\ UNCHANGED <<cache, executor_map_, mutex, tp, exec, flow, crashed>>

\* A new one: Predictor::Init looks the model up in the cache.
NewExecutor(c) ==
  /\ client[c].pc = "idle" /\ held[c] # None /\ mutex = Nobody /\ sessions < MaxSessions
  /\ Serialised => Destroying = {}
  /\ executor_map_[held[c][1]] = 0 /\ Cardinality(DOMAIN exec) < MaxExecs
  /\ LET k == held[c][1] e == Cardinality(DOMAIN exec) + 1
     IN IF k \notin Cached
        THEN crashed' = TRUE /\ UNCHANGED <<executor_map_, exec, client>>
        ELSE /\ executor_map_' = [executor_map_ EXCEPT ![k] = e]
             /\ exec' = [i \in DOMAIN exec \cup {e} |->
                           IF i = e THEN [key |-> k, model |-> held[c][2], links |-> {}, req |-> 0, unit |-> 0]
                           ELSE exec[i]]
             /\ client' = [client EXCEPT ![c] = [Idle EXCEPT !.pc = "grow", !.ex = e]]
             /\ UNCHANGED crashed
  /\ sessions' = sessions + 1
  /\ UNCHANGED <<cache, mutex, tp, flow>>

\* Processor::Init fails: no session.
CreateFails(c) ==
  /\ client[c].pc = "idle" /\ held[c] # None /\ mutex = Nobody /\ sessions < MaxSessions
  /\ executor_map_[held[c][1]] = 0
  /\ sessions' = sessions + 1
  /\ UNCHANGED <<cache, executor_map_, mutex, tp, exec, client, flow, crashed>>

Workers(e) == 4 * EngineNum[exec[e].key]

\* The pool gets threads for the new engines.
GrowPool(c) ==
  /\ client[c].pc = "grow"
  /\ tp' = IF tp + Workers(client[c].ex) < MaxThreads THEN tp + Workers(client[c].ex) ELSE MaxThreads
  /\ Goto(c, "link")
  /\ UNCHANGED <<cache, executor_map_, mutex, sessions, exec, flow, crashed>>

\* new Session, SetObserver for an asynchronous one, Link.
Link(c) ==
  /\ client[c].pc = "link"
  /\ exec' = [exec EXCEPT ![client[c].ex].links = @ \cup {c}]
  /\ Goto(c, "ready")
  /\ UNCHANGED <<cache, registry, flow, crashed>>

\* ExistExecutor
DestroySession(c) ==
  /\ client[c].pc = "ready" /\ mutex = Nobody
  /\ Serialised => Creating = {}
  /\ Goto(c, "lock")
  /\ UNCHANGED <<cache, registry, exec, flow, crashed>>

\* CheckAndDestroyExecutor takes the mutex again, and keeps it.
Unlink(c) ==
  /\ client[c].pc = "lock" /\ mutex = Nobody
  /\ mutex' = c
  /\ exec' = [exec EXCEPT ![client[c].ex].links = @ \ {c}]
  /\ Goto(c, "delete")
  /\ UNCHANGED <<cache, executor_map_, tp, sessions, flow, crashed>>

\* delete session waits for its requests; the last one takes the executor along.
DeleteSession(c) ==
  /\ client[c].pc = "delete" /\ reqs[c] = <<>>
  /\ IF exec[client[c].ex].links = {}
     THEN /\ executor_map_' = [executor_map_ EXCEPT ![exec[client[c].ex].key] = 0]
          /\ Goto(c, "shrink")
     ELSE /\ client' = [client EXCEPT ![c] = Idle]
          /\ UNCHANGED executor_map_
  /\ mutex' = Nobody
  /\ UNCHANGED <<cache, tp, sessions, exec, flow, crashed>>

\* As many threads as the executor brought are removed if more are idle.
ShrinkPool(c, idle) ==
  /\ client[c].pc = "shrink" /\ idle \in 0 .. tp
  /\ tp' = IF idle > Workers(client[c].ex) THEN tp - Workers(client[c].ex) ELSE tp
  /\ client' = [client EXCEPT ![c] = Idle]
  /\ UNCHANGED <<cache, executor_map_, mutex, sessions, exec, flow, crashed>>

-----------------------------------------------------------------------------
(* Request and RequestSync *)

\* Mutant: only requests are counted.
RoomForRequests(e) == exec[e].req < MaxLoad

\* idle_pred of WaitIfCacheFull
Room(e) == exec[e].unit < MaxLoad /\ exec[e].req < MaxLoad

Request(c, n, timed) ==
  /\ client[c].pc = "ready" /\ sent < MaxReqs
  /\ client' = [client EXCEPT ![c] =
       [@ EXCEPT !.pc = IF Room(client[c].ex) THEN "upload" ELSE "full", !.n = n, !.timed = timed]]
  /\ sent' = sent + 1
  /\ UNCHANGED <<cache, registry, exec, reqs, crashed>>

\* The predicate was false, and is asked again under limit_mutex_: the thread
\* goes to sleep.  ReleaseCount does not take limit_mutex_.
Sleep(c) ==
  /\ client[c].pc = "full" /\ Goto(c, "asleep")
  /\ UNCHANGED <<cache, registry, exec, flow, crashed>>

Wake(c) ==
  /\ client[c].pc = "woken"
  /\ Goto(c, IF Room(client[c].ex) THEN "upload" ELSE "full")
  /\ UNCHANGED <<cache, registry, exec, flow, crashed>>

\* wait_for asks the predicate a last time.
Timeout(c) ==
  /\ client[c].pc = "asleep" /\ client[c].timed
  /\ IF Room(client[c].ex) THEN Goto(c, "upload") ELSE client' = [client EXCEPT ![c] = Ready(c)]
  /\ UNCHANGED <<cache, registry, exec, flow, crashed>>

\* What is left of the timeout is less than a millisecond: nothing is sent.
TimeUsedUp(c) ==
  /\ client[c].pc = "upload" /\ c \in Sync /\ client[c].timed
  /\ client' = [client EXCEPT ![c] = Ready(c)]
  /\ UNCHANGED <<cache, registry, exec, flow, crashed>>

\* Executor::Upload counts the request and its items.
Upload(x, n) == [x EXCEPT !.req = @ + 1, !.unit = @ + n]

\* Session::Send and Executor::Upload.
Send(c) ==
  /\ client[c].pc = "upload"
  /\ exec' = [exec EXCEPT ![client[c].ex] = Upload(@, client[c].n)]
  /\ reqs' = [reqs EXCEPT ![c] = Append(@, client[c].n)]
  /\ IF c \in Sync THEN client' = [client EXCEPT ![c].pc = "wait", ![c].n = 0] ELSE client' = [client EXCEPT ![c] = Ready(c)]
  /\ UNCHANGED <<cache, registry, sent, crashed>>

\* RequestSync gives up waiting.  The request stays in the server; that Discard is
\* called on it, without a lock, changes nothing that is counted here: the step and
\* its race with the response task are SyncDiscard of module Session.
SyncTimeout(c) ==
  /\ client[c].pc = "wait" /\ client[c].timed
  /\ client' = [client EXCEPT ![c] = Ready(c)]
  /\ UNCHANGED <<cache, registry, exec, flow, crashed>>

\* Clients that sleep for the executor of this request.
Sleepers(e) == {c \in Clients : client[c].pc = "asleep" /\ client[c].ex = e}

\* Mutant: the units of the request stay.
ReleaseCountRequest(x, n) == [x EXCEPT !.req = @ - 1]

ReleaseCount(x, n) == [x EXCEPT !.req = @ - 1, !.unit = @ - n]

\* notify_one
Notified(e) == IF Sleepers(e) = {} THEN {{}} ELSE {{c} : c \in Sleepers(e)}

\* The pool answers the oldest request of a session: Response, then ReleaseCount.
\* A synchronous call waits for its last request.
Respond(r) ==
  LET e == client[r].ex
  IN /\ reqs[r] # <<>>
     /\ reqs' = [reqs EXCEPT ![r] = Tail(@)]
     /\ exec' = [exec EXCEPT ![e] = ReleaseCount(@, Head(reqs[r]))]
     /\ \E W \in Notified(e) :
          client' = [c \in Clients |->
            IF c \in W THEN [client[c] EXCEPT !.pc = "woken"]
            ELSE IF c = r /\ client[c].pc = "wait" /\ Len(reqs[c]) = 1 THEN Ready(c)
            ELSE client[c]]
     /\ UNCHANGED <<cache, registry, sent, crashed>>

-----------------------------------------------------------------------------
CallStep(c) ==
  \/ GrowPool(c) \/ Link(c) \/ Unlink(c) \/ DeleteSession(c)
  \/ \E idle \in 0 .. tp : ShrinkPool(c, idle)
  \/ Sleep(c) \/ Wake(c) \/ Timeout(c) \/ Send(c)

Answer == \E c \in Clients : Respond(c)

ClientNext(c) ==
  \/ \E k \in Keys : LoadModel(c, k)
  \/ \E K \in SUBSET Keys : UnloadModel(c, K)
  \/ Drop(c)
  \/ CreateExecutor(c) \/ NewExecutor(c) \/ CreateFails(c) \/ DestroySession(c)
  \/ \E n \in PackSizes, timed \in BOOLEAN : Request(c, n, timed)
  \/ CallStep(c) \/ TimeUsedUp(c) \/ SyncTimeout(c)

ServerNext == ~crashed /\ ((\E c \in Clients : ClientNext(c)) \/ Answer)

\* A call that was made goes on and the pool answers; no timeout has to come
\* before the answer of a synchronous request.
Fairness ==
  /\ \A c \in Clients : WF_serverVars(~crashed /\ CallStep(c))
  /\ WF_serverVars(~crashed /\ Answer)

ServerSpec == ServerInit /\ [][ServerNext]_serverVars /\ Fairness

-----------------------------------------------------------------------------
(* Properties *)

InCall(c) == client[c].pc \notin {"idle", "ready"}

\* A session's executor lives as long as the session, however many sessions share
\* it, if CreateSession and DestroySession do not overlap (CreateSession links
\* its session after it has left the mutex).
ExecutorAlive ==
  Serialised => \A c \in Clients : client[c].pc \notin {"idle", "shrink"} => Alive(client[c].ex)

\* While there is an executor the pool has a thread, although the growth is
\* limited by the cores and the shrinking takes away what was asked for.
WorkersRemain ==
  (\E k \in Keys : executor_map_[k] # 0) /\ (\A c \in Clients : client[c].pc # "grow") => tp > 0

\* The cache grows past its limit only when all models in it are used.
CacheLimited ==
  [][Cardinality(Cached') > Cardinality(Cached) /\ Cardinality(Cached) >= CacheLimit
       => \A k \in Cached : Used(k)]_serverVars

\* Predictor::Init finds the model in the cache, unless it was unloaded: a
\* model that a client holds is not evicted.
ModelFound == crashed => unloaded

\* WaitIfCacheFull looks before Upload counts, so clients overtake each other,
\* but each only once.
Largest == CHOOSE n \in PackSizes : \A i \in PackSizes : i <= n
LoadBounded ==
  \A e \in DOMAIN exec : exec[e].unit <= MaxLoad - 1 + Cardinality(Clients) * Largest

\* Every call returns, also DestroySession while requests are in the server and
\* a Request that waits for room; except that a caller without a timeout may
\* sleep on although there is room: ReleaseCount notifies without limit_mutex_,
\* and RequestSync may use a notification up and then give up.
SleepsOn(c) == client[c].pc = "asleep" /\ ~client[c].timed /\ Room(client[c].ex)
CallReturns ==
  \A c \in Clients :
    InCall(c) ~> (~InCall(c) \/ crashed \/ SleepsOn(c))

\* Sessions have what they need as long as they live: an executor, a thread, the
\* model; the load stays within the limit plus what senders had in hand, and the
\* cache grows past its limit only with models in use.
ServerSafe == [](ServerTypeOK /\ ExecutorAlive /\ WorkersRemain /\ ModelFound /\ LoadBounded) /\ CacheLimited

-----------------------------------------------------------------------------
(* Parts of the inductive invariant of ExecutorProofs *)

\* The clients with a session of executor e, and those that will send.
Users(e) == {c \in Clients : client[c].ex = e}
Uploaders(e) == {c \in Users(e) : client[c].pc = "upload"}
Waiting == {c \in Clients : client[c].pc \in WaitsForRoom}

\* The requests of the clients in C, as client and position in its queue q[c],
\* and their items.
RequestsIn(C, q) == {p \in C \X (1 .. MaxReqs) : p[2] <= Len(q[p[1]])}
UnitsIn(C, q) ==
  {p \in C \X (1 .. MaxReqs) \X (1 .. Largest) : p[2] <= Len(q[p[1]]) /\ p[3] <= q[p[1]][p[2]]}

\* executor_map_ has executors under their own names.
Registered ==
  \A k \in Keys :
    executor_map_[k] # 0 => executor_map_[k] \in DOMAIN exec /\ exec[executor_map_[k]].key = k

\* What a client has at each step of its calls.
Attached ==
  \A c \in Clients :
    /\ client[c].pc = "idle" <=> client[c].ex = 0
    /\ client[c].ex # 0 => client[c].ex \in DOMAIN exec
    /\ client[c].pc \in {"idle", "grow", "link", "shrink"} => reqs[c] = <<>>
    /\ client[c].pc \in Linked => c \in exec[client[c].ex].links
    /\ client[c].pc \in WaitsForRoom => client[c].n \in PackSizes
    /\ client[c].pc = "delete" <=> mutex = c

NoOverlap == Serialised => Creating = {} \/ Destroying = {}

\* The counters of an executor are what is in the server for it.
CountsExact ==
  \A e \in DOMAIN exec :
    /\ exec[e].req = Cardinality(RequestsIn(Users(e), reqs))
    /\ exec[e].unit = Cardinality(UnitsIn(Users(e), reqs))

\* Every request in the server or on its way to it was made.
SentCovers ==
  /\ \A c \in Clients : Len(reqs[c]) + (IF c \in Waiting THEN 1 ELSE 0) <= sent
  /\ Cardinality(RequestsIn(Clients, reqs)) + Cardinality(Waiting) <= sent

\* Who passed WaitIfCacheFull and has not sent yet is within the overshoot.
LoadReserved ==
  \A e \in DOMAIN exec :
    exec[e].unit + Cardinality(Uploaders(e)) * Largest <= MaxLoad - 1 + Cardinality(Clients) * Largest

Threads == DOMAIN exec # {} => tp > 0 \/ \E c \in Clients : client[c].pc = "grow"

\* A model that a client holds is in the cache until somebody unloads it.
HeldCached ==
  ~unloaded => \A c \in Clients : held[c] # None => model_cache_[held[c][1]] = held[c][2]

ServerInv ==
  /\ ServerTypeOK /\ Registered /\ Attached /\ NoOverlap /\ ExecutorAlive
  /\ CountsExact /\ SentCovers /\ LoadReserved
  /\ Threads /\ HeldCached /\ ModelFound
====
