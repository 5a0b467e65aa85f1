# EasyDK: TLA+ models, checks and proofs

This directory specifies EasyDK in TLA+: the inference server
(`src/src/infer_server`), the media layer (`src/src/cnedk_*`, `mlu370/`, `mlu590/`,
`transform_cncv/`), the services of the CE3226 (`ce3226/`), and the pipeline and the simple
demos of the samples. TLC checks the modules on small instances; TLAPS proves the safety of most
components that have threads for every size. Source paths below are relative to `src/src/` unless they
start with `include/` or `samples/`.

## 1. The system

EasyDK is a C++ toolkit for an accelerator card. The *inference server* takes packages
of data from user threads, cuts them into batches, runs the batches through a chain of
processors on a thread pool and calls the user back. The *media layer* wraps decoding,
encoding, transforms and device buffers; each of its services is a front end with one
implementation per platform. On CE3226 the implementations share `MpsService`, which
brings up sensors, display and codec channels.

The way of a request:

    user thread          Session::Send ── Executor::Upload ── Cache::Push ── Batcher
                                                                    (timer thread)
    dispatch thread      Cache::Pop ── choose an Engine ── Engine::Run
    pool threads         TaskNode::Execute (preproc) ── (predictor) ── (postproc)
                         └─ RequestControl::ProcessDone per item ── Session::CheckAndResponse
                         └─ done_notifier_: engine idle, wake the dispatch thread
    pool thread          response task: Observer::Response in the order of sending

The way of a picture: packets go to a decoder, its callback thread takes a surface from
a pool and delivers a frame; a processor transforms it into an input tensor; boxes are
drawn on it; an encoder takes it, scaled if need be, and delivers packets.

### Inventory

| component | state | operations | what makes it correct |
|---|---|---|---|
| Session, RequestControl (`infer_server/core/session.*`, `request_ctrl.*`) | list of requests in order, `in_response_`, per request the items still out, status, discard flag, promise | Send, ProcessDone, CheckAndResponse and its response task, WaitTaskDone, DiscardTask, the late Discard of RequestSync, ~Session | one answer per request, in order, after all items; nobody touches a deleted request or session; waiters are released |
| Executor, Engine, TaskNode (`session.*`, `engine.*`) | `idle_`, `task_num_` per engine, dispatch thread, load counters | DispatchLoop, Run, Execute, Transmit, done notification, WaitIfCacheFull, ~Executor | every batch reaches an engine and leaves it; counters are exact |
| Cache (`cache.h`) | queue of batches, `running_` | Push, Pop, ClearDiscard, Flush, Stop | no item lost, discarded ones answered |
| Batcher (`util/batcher.h`) | partial batch, `first_item_`, timer | AddItem, Emit, ~Batcher | every item in one batch, no item waits for ever |
| Timer, TimeCounter (`util/timer.*`) | `timer_id_`, ordered events, one thread | Start, Cancel, Loop, ~Timer, ~TimeCounter | no task of a cancelled loop timer, no event lost |
| ThreadPool, ThreadSafeQueue (`util/thread_pool.*`, `threadsafe_queue.h`) | threads, flags, priority queue of tasks | Push, VoidPush, Resize, Stop | tasks run exactly once, Stop returns, nobody outlives the pool |
| InferServer, ModelManager (`core/infer_server.cpp`, `model/model_manager.cpp`) | map of executors, sessions per executor, cache of models | CreateSession, DestroySession, Request, RequestSync, Load, Unload | an executor lives as long as a session is linked to it; the load is bounded; calls return |
| Processors (`processor/`), Priority | handler registries, pools, solver locks | SetHandler, Init, Process of three processors | no package waits for a buffer that a queued package has |
| Model, runner, data types (`model/model.cpp`, `core/data_type.*`) | shapes, tensors and their owners | Init, Run, pools | tensors freed once, blocks large enough |
| Profiler (`core/profile.h`) | counts and times per tag, latency per processor | RequestStart, RequestEnd, RemoveTag, RecordPerformance, GetLatency | sums are exact, a mean lies between its bounds |
| MemPool, BufPool, surfaces (`cnedk_buf_surface*.cpp`) | free blocks, blocks handed out, layouts, cached views | Create, Alloc, Free, Destroy, Copy, Memset, Sync | no block twice, none lost, Destroy waits; what is copied is what is read |
| Transform (`cnedk_transform.cpp`, `transform_cncv/`) | contexts of a thread, buffers, queue | Transform, SetSessionParams, end of the thread | buffers suffice for every later call, no context leaves its target |
| Decoders, encoders (`mlu370/`, `mlu590/`, `ce3226/`) | created, EOS sent, error, promise, buffers | Create, Send, callbacks, Destroy | order kept, EOS last and once, Destroy returns and nothing follows it |
| MpsService (`ce3226/mps_service`) | what runs, memory asked for, channels and ids | Init, Destroy, capture, display, channels | what was started is undone, ids are not shared |
| OSD (`cnedk_osd.cpp`, `mps_service.cpp`) | batch of rectangles | DrawBbox | every box once, inside the frame |
| EasyPipeline (`samples/easy_pipeline`) | queues, threads, maps of streams | Start, Stop, WaitForStop, ~EasyPipeline | streams in order, complete when it stops |
| StreamRunner, VideoParser, VideoDecoder (`samples/simple_demo`) | frames decoded, surfaces out, ends of stream sent and received | Open, DemuxLoop, RunLoop, Process, Close | the pool outlives its pictures, pictures in order over the repetitions |
| handlers of the detection network (`samples/simple_demo/detection`, `samples/easy_pipeline/inference`) | regions of picture and input, objects | OnPreproc, OnPostproc | regions inside, boxes come back to their place |

Components interact by direct calls with locks, by callbacks (Batcher → Cache,
TaskNode → RequestControl → Session, Engine → Executor, TimeCounter → Batcher, driver →
codec → application), by condition variables and by atomics that are read without the
lock of the condition variable they guard. This last pattern is where most of what is
hard to test lies: `PROJECT.json` lists the hazards, each at its line.

## 2. Modules

`X.tla` is the specification of a component, `MCX.tla` gives it small sets for TLC,
`X_*.cfg` are the runs. Theorems stand in the `Proofs` modules: SessionProofs (Session, Profiler),
ExecutorProofs (Executor, InferServer), BufPoolProofs (BufPool, Transform), CodecProofs (Encoder, Mps),
DecoderProofs (Decoder, Model), UtilProofs (Batcher, ThreadPool, Cache) and UnitsProofs (TimeCounter,
EncoderCe3226, StreamRunner, Processors, Pipeline, Osd, Surface); SublistsProofs has the lemmas they
share.
*Sublists* has what several modules say of a list: its elements, that they are distinct, what is
left when some are erased, in the order they had, and the parts a list is cut into. `Units.cfg` runs the modules that share no state with others together: a behaviour takes steps of one of them. Definitions preceded by
"Mutant:" are plausible wrong versions of the definition below them; no
specification uses them. Each shows that some property would notice that mistake.

In all modules one critical section is one step, and what the code does between two
critical sections is a step of its own whenever another thread can see the
difference. A wait on a condition variable is split into the evaluation of the
predicate (mutex held), the sleep, and the wake-up with a new evaluation. Payloads
(tensors, frames, strings, perf records) are left out.

### Session

State: the members of `Session`, and those of `RequestControl` as functions of the
request id. The heap address of a request (`addr`) is kept beside its id because
CheckAndResponse compares pointers and the allocator may reuse an address.
`inflight` and `in_notify` stand for the pipeline: items that may call ProcessDone,
and a thread between `process_finished_.store(true)` and the end of ProcessDone,
which holds `done_mutex_`. `posted`, `wpc` and `wcur` are the response task in the
pool. `processing_unit_` and `processing_req_` wrap at `CounterMod`, as uint32_t does.

| action | code |
|---|---|
| Send, Upload, CheckEmpty | `Session::Send`: registration under the mutex, `Executor::Upload`, the CheckAndResponse of an empty package |
| ItemDone, DoneNotify | `RequestControl::ProcessDone`, then CheckAndResponse |
| WorkerTake … WorkerStore | the response task: discard test, Response, ReleaseCount, delete (waits for `done_mutex_`), next request under the mutex, the store of `in_response_` after it |
| WaitTaskDone, WaitFuture, WaitSpin | `Session::WaitTaskDone` |
| DiscardTask | `Session::DiscardTask` |
| SyncDone, SyncExpire, SyncDiscard | the end of `InferServer::RequestSync`: the flag its observer sets, `wait_for` timing out, and then `ctrl->Discard()` without `request_mutex_` |
| BeginDestroy, WakeDestroy | `Session::~Session`, called when no client is inside the session |

A client uses the tags `TagsOf` gives it and does not call Request on a session it destroys. Whether
the session is one of Request or of RequestSync (`is_sync_link_`) is chosen at the beginning. SyncDiscard
stores to whatever is at the address the call has kept: its request, a younger one that got the address, or
freed memory. `why` remembers for each discarded request whether it was hit in time ("asked"), after the
response task's test of `is_discarded_` ("late"), or through the stale pointer of another call ("struck").

### Executor

State: the cache as a sequence of batches with `running_`, `idle_`, `task_num_`, the
dispatch thread (`dpc`, `dpack`, `dengine`), and for each batch where it is. Actions:
Push, Pop (with ClearDiscard on whole batches) and Block for the cache; Choose, Scan,
Check, DispatchBlock, Take, Run, RunPush for `DispatchLoop` and `Engine::Run`;
Execute for `TaskNode::Execute` and `Transmit`, where a processor may fail; CountDown,
StoreIdle, NotifyDispatch for the three steps of the done notification; StopCache,
StopNotify, Join, ClearEngines for `~Executor`, which is called when the last session
is gone, so when every batch has been answered. ~Executor does not wait for the last two steps of a
done notification (`Notifying`), and the model lets them run after it.

### ThreadPool

State: threads by slot, their flags, the queue as a set of tasks with priorities,
`is_done_`, `is_stop_`, the position of every pool thread, pusher and of the one owner
(`Resize` and `Stop` "should be called from one thread"). Emplace and NotifyOne are
the two steps of a push. TryPop, RunTask, Poll, Decide, Sleep are the body of a pool thread;
Poll and Decide are the two reads of the wait predicate, with `mutex_` held between
them. Grow and Shrink are Resize; StopNow, StopClear, StopAfterTasks, StopNotify,
StopJoin, DestroyStopped are Stop and the destructor. Task priorities and ties follow
`Task::Compare`. `n_waiting_` only feeds a log message and a heuristic of
InferServer and is left out.

### Batcher

State: `cache_`, `first_item_`, `timer_id_`, the pending events in the order of their
alarm times, the timer thread, the clients. AddItem is split at its accesses of
`timer_id_`: AddItem, Cancel, CancelStore, Start, StoreHandle, Put. Emit and Deliver are
a flush; Fire, FireEmit, FireDeliver, FireStore the loop of TimeCounter with the task
Timer::Start built. Time is abstract: an event may fire at any moment after it was
added, in the order of the alarms. Destroy is ~Batcher. An event is never reused
here; module TimeCounter reuses addresses.

### Cache, TimeCounter, Profiler

*Cache* has the items of requests in packages: AddToBatch and PushStatic cut a request
into items, EmitBatch and DeliverBatch are the batcher, DiscardRequest sets the flag, PopPackage is Pop with
ClearDiscard, which takes packages apart and batches what is left (dynamic) or answers
them (static). *TimeCounter* is the thread and the heap of events of `timer.cpp` with a loop
timer and a one-shot timer; a handle is the address of an event and addresses are reused;
LoadTimerId, RemoveEvent, RemoveSpun and FinishCancel are Cancel, ExitStop, ExitNotify and
ExitJoin the destructor. *Profiler* has the profilers of a session by tag: RequestStart,
RequestEnd, RemoveTag, Summary; time is a small clock, and the model keeps beside the code's
counters what they should be. The latency of a processor is a specification of its own beside them
(`LatencySpec`): RecordPerformance computes the new record and writes it field by field (RecordField), in
any order, and GetLatency copies it field by field without the mutex in between; `torn` notes that a copy
and a record met.

### InferServer

State: the cache of models, the map of executors and its mutex, executors with their links
and loads, the size of the thread pool, and for each client where it is in a call. A call is
cut at the mutexes and at the sleep in WaitIfCacheFull. Actions: LoadModel, UnloadModel, Drop,
CreateExecutor and NewExecutor (find or make one; the link is a later step), DestroySession,
Request and RequestSync with its timeouts, CallStep for the next step of any call, and Answer for
the server. The Discard of a RequestSync that gives up changes nothing that is counted here; it is
SyncDiscard of module Session. `Serialised` says whether
CreateSession and DestroySession are kept from overlapping; see section 5.

### Processors and Model

*Processors* has the packages of two engines on a thread pool: the registry of handlers with
OnTensorParams, the locks of the processors (one package at a time), the pools of input and
output buffers with the timeout of GetBufSurfaceWrapper, the priorities that let later
nodes go first, RemovePreprocHandler. *Model* is about one model: GetModelInfo and the shapes,
the pools Predictor and Preprocessor make (sizes in bytes, products of dimensions converted to
uint32_t, that is modulo `UintLimit`), the three
ways of ModelRunner::Run, who owns the tensors, and how Postprocessor hands them to items.

### BufPool and ResourcePool

*BufPool* is the C++ BufPool over MemPool over BufSurfaceService: free blocks, `alloc_count_`,
the array of headers, the mapping a wrapper leaves behind, and callers with their retries. One
owner creates and destroys pools while users get and return buffers; a user may ask for another buffer
while it holds one (`MaxHeld`). *ResourcePool* is
what a pool promises: buffers are handed out only while it is open, and the memory is
released only when all are back. `ImplementsPool` shows BufPool to implement it.

### Surface, Transform, Osd

*Surface*: parameters of CnedkBufSurfaceCreate, the layouts the four allocators make of them,
the memory they allocate, Memset, Copy and the views of cached memory and of
BufSurfaceWrapper's host data; a plane is a value, a layout is numbers. A call notes where the parts
of the memory end that it touches; of host data, an element that a synchronisation should have delivered and
did not stays in `lost`. *Transform*: the choice
of the operation by formats and memory, contexts with arrays, workspace and scratch memory
that grow, the queue of a thread, regions of interest of both platforms, the end of the thread. A context
loops over the batch size of its source, as the code does; when that takes it past the elements of its
target, the model notes the context (`overran`) and stops, since anything may happen from there.
*Osd*: the boxes of a frame, sorted by colour, rounded, shrunk to the frame and drawn in batches;
a batch is a list of places in the list of boxes. A box that starts outside of the frame, or whose
far edge wraps, is only said to be drawn, not where (section 5).

### Decoder, Encoder, EncoderCe3226

*Decoder* and *Encoder* follow one instance of the MLU370 or MLU590 class with the library's
callback thread: SendStream or SendFrame with its retries, buffers and failures; the
sequence, frame, end and error callbacks; Destroy, which sends the end of the stream if
nobody did and waits for the promise. The library is external: it keeps the order of what it
accepts and may report an error or stop at any time. The scratch memory of an encoder is live, null or
freed: after a re-allocation that failed the code goes on with the pointer it has freed, and the model notes
each use of it (`usedfreed`). *EncoderCe3226* is the class between
EncodeService and a channel, with the one surface it scales into.

### Sensors, MpsDevices, MpsService, MpsCodec, Mps

*Sensors* has the tables of the sensor types. *MpsDevices* writes each function that switches
hardware as a sequence of driver calls with what its error labels undo; *MpsService* runs these
sequences with each call succeeding or failing, for Init and Destroy, and captures frames.
*MpsCodec* has the queue of ids, the contexts of decode and encode channels and the threads
that use them. *Mps* composes the service with its channels. A *strict* driver refuses to
stop what does not run.

### Pipeline

EasyPipeline with the modules of `stream_app.cpp`: ReadFrame, SendPacket, SendEnd are the task
loop of a source, FromDecoder and SourceEnds the callbacks of its decoder, PopFrame,
ModuleProcess, ProcessFrameEos and LeaveLoop the task loops of infer, osd and encode,
InferResponse the observer, WaitForStop and StopRunning the wait, Interrupt and CloseSource the
signal handler, JoinAndClose the destructor.

### StreamRunner and Letterbox

*StreamRunner* is a simple demo with its four threads: the main thread in DemuxLoop
(Demux, ReadPacket, ReadSkipped, ReadEof, RoundEnds, WaitEos, Reopen, LeaveDemux and the steps of
Close), the callbacks of the decoder (OnDecodeFrame, NoBufSurface, OnDecodeEos), RunLoop (LoopTest,
LoopPop, ProcessFrame, ProcessEos) and the server (ObserverCallback); HandleAlarm is the signal. It
takes from BufPool that the destruction of a pool waits for its surfaces, and from Decoder that the
destruction of a decoder waits for its end of stream. *Letterbox* has the arithmetic of OnPreproc
and OnPostproc: regions are integers as in the code, coordinates of boxes are exact fractions.

## 3. Runs

| run | question | instance |
|---|---|---|
| session_order | all safety properties of a session, packages with data | 2 clients that share a tag, 2 response threads, 3 requests of 2 items, 3 addresses; Request or RequestSync |
| session_empty | the same races with packages without data, one sender; WaitTaskDone returns unless the hand-over was lost | 1 client with two tags, 1 response thread, 3 requests of 0 or 1 item, 2 addresses |
| executor_dispatch | an engine is always chosen, loads are exact though processors fail, nothing but a notifier outlives the engines, a waiting dispatcher will be notified | 2 engines of 2 nodes, 5 batches (one more than they hold) |
| pool_lifecycle | tasks run once, Stop drains, joins and returns, a pushed task is taken unless its wake-up was lost | sizes 0–2, 2 pushers, 2 tasks of different priority |
| batcher_timeout | no item lost, duplicated or stranded, although the timer loses its handle | 2 clients, 4 items, batches of 2, up to 4 events |
| inferserver_api | executors live as long as their sessions, models are found, the load is bounded, calls return | 2 clients, one of them synchronous, 2 models, cache of 1, load 2 |
| processors | handlers are prepared once and first, buffers suffice, every package ends | 2 engines, 4 packages, 3 threads, 2 buffers |
| buf_pool | blocks and headers in one place, Destroy and Get return but for one deadlock, refinement of ResourcePool | 2 users that may hold two buffers, 2 blocks, a pool of one, 3 headers, 2 pools, 1 retry |
| decoder_stream | order, end of stream, Destroy | both platforms, 3 packets, 2 sizes |
| encoder_stream | buffers, order, scratch memory, Destroy | both platforms, 3 frames, 3 buffers, 2 sizes |
| mps_service | start and stop of the devices with every failing call, sensor tables, channels | every sensor type, two sensors with display, lax and strict driver, 2 Inits; 2 threads, 2 channels, 2 units |
| units | Cache, TimeCounter, Profiler, Model, Surface, Transform, Osd, EncoderCe3226, Pipeline, StreamRunner, Letterbox | see `MCUnits.tla`: two to three actors each, boxes and pictures at the edges, packages of 1 and 3 items for a batch of 2, two streams; a file of five packets played twice with two surfaces; six sizes of pictures, three of inputs |

A run checks a few properties per module, each a conjunction of named parts about one
subject: `TasksSafe` of ThreadPool, for instance, is TypeOK, StopDrains, TaskHeldOnce and
DeadPoolUnused. The parts are defined and explained one by one in the module, and the text
below and the hazards refer to them by their own names. The temporal properties are WaitCovers, WaitReturns, StopReturns,
PushedIsTaken, ItemsAreEmitted, CallReturns, PackageEnds, PoolCallsReturn, ImplementsPool,
DestroyReturns (of decoders and of encoders) and ServiceReturnsAlways; ServerSafe and
CacheCorrect have an action property among their parts.

Some properties are stated for the cases in which the code keeps them, and the
restriction is part of the statement; section 5 lists what happens otherwise. StopDrains
is about a pool of at least two threads that was never shrunk. DeadPoolUnused is about
threads that Resize did not detach. A Timer
may hold two events (its note says one) without harm to the items: NoStrandedItem does not
rely on the handle.

**Bounds.** Three requests are the least that have one answered, one being answered
and one waiting; two items let a request be half done; three addresses allow reuse
while two requests live. `MaxRequests`, `MaxEvents`, `MaxPackets`, `MaxFrames`, `MaxReqs`,
`MaxOps`, `MaxStarts`, `MaxInits`, `RepeatTime` and the sets of tasks, items and batches bound the length
of a behaviour and nothing else: every step stays enabled until its inputs are used up. The
dispatcher only waits when there is one batch more than the engines hold; an engine has
three nodes in the code and two in the run, which changes how many batches it takes to fill
one. `CounterMod`, `OsdMod`, `UintMod`, `RectMod` and `UintLimit` stand for 2^32 and are above every value
that occurs without a wrap, so a wrap is seen. Two packages more than buffers and one thread
less than packages let all threads wait for buffers if they could. Two Inits show what a
failed one leaves; two packets and an empty stream show a pipeline with frames under way.
Symmetry is used for addresses, response threads and batches in runs without liveness; the
specifications only compare them.

**Deadlock** checking is off throughout: a behaviour ends when all bounded inputs are
used up and the component is destroyed, and a client never has to act. Hangs are
stated as liveness properties instead.

**Fairness.** Threads that can take a step eventually do (weak fairness), and a thread
waiting for a mutex that is free again and again gets it (strong fairness on those
steps only). A user that is not inside a call of the pool gives its buffers back sooner or later, whatever
else it does in between (strong fairness of GiveBackPooled); MemPool::Destroy relies on that. A queued task is run by the pool, an item in the pipeline comes back, the
codec libraries make progress with what they accepted unless they stopped, and a driver
call returns. No user has to call anything, and no condition variable has to wake up
spuriously. The timeout of a buffer in Processors is not fair: PackageEnds does not rely on it.

## 4. Proofs

TLAPS proves the theorems below for every value of the constants that satisfies the
assumptions of the module: any number of clients, threads, engines, requests, blocks, timers
or frames, not the few of a run. Each `THEOREM` names the property that a run checks.

| module | theorem | states |
|---|---|---|
| SessionProofs | TypeCorrect | `Spec => []TypeOK` |
| | ResponderIsUnique | `Spec => []OneResponder` |
| | ResponsesAreOrdered | `Spec => []ResponseInOrder` |
| | DestructorIsWoken | `Spec => []DestroyerAwake` |
| | WaitCoversAll | `Spec => WaitCovers` (an action property) |
| | SessionMemorySafe | `NoStaleCaller /\ Spec => []MemorySafe` |
| | AnswersAreExact | `NoStaleCaller /\ Spec => []AnswersExact` |
| | EmptyPackagesAreSafe | `NoStaleCaller /\ Spec => []EmptyPackagesSafe` |
| | ProfilesAreExact | `ProfilerSpec /\ LatencySpec => []ProfilesExact` |
| ExecutorProofs | ExecutorIsSafe | `Spec => []ExecutorSafe` |
| | ServerIsSafe | `ServerSpec => ServerSafe` (an invariant and an action property) |
| UtilProofs | ItemsAreSafe | `BatcherSpec => []ItemsSafe` |
| | TasksAreSafe | `Spec => []TasksSafe` (of ThreadPool) |
| | CacheIsCorrect | `CacheSpec => CacheCorrect` (an invariant and an action property) |
| DecoderProofs | StreamIsSafe | `Spec => []StreamSafe` |
| | ModelIsCorrect | `ModelSpec => []ModelCorrect` |
| CodecProofs | EncoderIsSafe | `Spec => []StreamSafe` (of Encoder) |
| | UnitsAreKept | `MpsSpec => []UnitsKept` |
| BufPoolProofs | PoolIsSafe | `Spec => []PoolSafe` |
| | PoolIsImplemented | `Spec => ImplementsPool` (a refinement) |
| | TransformsAreCorrect | `TransformSpec => []TransformCorrect` |
| UnitsProofs | TimersAreSafe | `TimeCounterSpec => []TimersSafe` |
| | ScalingIsSafe | `EncoderCe3226Spec => []ScalingSafe` |
| | RunnerIsSafe | `RunnerSpec => []RunnerSafe` |
| | EnginesAreSafe | `Spec => []EngineSafe` (of Processors) |
| | PipelineIsCorrect | `PipelineSpec => []PipelineCorrect` |
| | BoxesAreDrawn | `OsdSpec => []BoxesDrawn` |
| | SurfacesAreCorrect | `SurfaceSpec => []SurfaceCorrect` |

No property is inductive as it stands. The invariants that are stand in the modules they are
about, under "Parts of the inductive invariant", one named part per idea; TLC checked each of
them on the instance of the run of its module. A proof has one step, or one lemma, per action,
and under it one per part that the action can disturb.

**Assumptions.** The constants are sets and numbers of the right kind, and:

- sets that something is always chosen from are not empty (Tags, Addrs, Items, Tasks, Blocks,
  Headers, a packet at least), and no client has the name of the timer thread or of the owner;
- the sets whose members are counted are finite: batches and packages (`IsFiniteSet(Packs)`),
  blocks, clients and models of the server, buffers of an encoder. Nothing bounds them;
- the decoder knows a largest size (`Sizes` has a maximum), since it is created for it;
- an engine is full at no more packages than a pool has buffers (`MaxLoad <= BufNum`): in the
  code both are 3, the number of nodes of an engine and the constant of the two pools;
- an encoder has at least three buffers, the minimum it asks the library for;
- a package of the server has a largest size, since MaxLoad plus that size bounds the load;
- a surface is created with sizes for which uint32_t suffices, of one of the formats of the library; a
  call of CnedkTransform has pictures with a width and an element at least;
- a frame has a width and a height, and the edges of boxes are below `OsdMod`, as uint32_t are;
- a dimension of a model is -1 (unknown) or positive and a uint32_t, which is how it is used; the
  product of several may exceed it, and the parts about sizes are about those that do not;
- some of the theorems about a session have a condition on its users instead, `NoStaleCaller`:
  no package is empty, or one thread sends them all. Without it `Session::Send` may compare
  the address of an empty package that is already answered and freed with that of a younger
  request (section 5). session_order satisfies the first alternative, session_empty the
  second.

### Session

*Types.* `wait_num_` is decremented without a test, so TypeOK is not inductive. It becomes so
with `Accounted`: the items in the pipeline are at most `wait_num_`, a request that was not
sent has none, and a client between the registration and the upload owns its request alone,
with all items still to come.

*Order.* ResponseInOrder speaks of a request that is being answered; it holds because of what
is in the list behind it. `OrderInv` adds: the list is sorted by request id and newer than
whatever is queued or being answered, which is newer than the last one answered (`Ordered`); a
response task exists only while `in_response_` is set (`FlagHeld`); at most one exists
(`OneResponder`), without which two tasks could pop two requests and answer them in either
order. `Ordered` and `OneResponder` need each other, so they are proved in one induction.

*Destructor.* `~Session` sleeps when the list is not empty or a response task runs. The list
becomes empty while `in_response_` is set, and the flag is cleared either with a notification
or, without one, at the end of the task, where `StoreNonEmpty` says that requests are left.

*Waiting, answers and memory.* `LifeInv` follows a request from the list through the response
task to its deletion: it is live exactly while somebody holds it (`Lifetimes`), it is reported
once unless Discard hit it before the test, which `why` says at each stage (`Answered`), a future belongs
to a caller that still waits on it (`FutureOwned`), a request of a RequestSync that nobody discarded or
answered has its caller in the call (`SyncOwned`), and a caller of WaitTaskDone that spins has only requests before it
that left the list (`Waiting`). WaitCovers follows, since they then are answered or with the
response task, and the flag the caller spins on is cleared after the answer. `SafeInv` adds
that what is handed to a response task is finished (`Finished`) and that live requests have
addresses of their own, which no caller of CheckAndResponse confuses (`CallerFresh`).

*Counters.* CountersReturnToZero is about the end, so `Balanced` says at any time what
`processing_unit_` and `processing_req_` are: the sum of what was uploaded minus the sum of what was
released, modulo `CounterMod`. Neither set contains the other, because an empty request may be
released before the thread that sent it counts it; then the counter wraps below zero for a while.

*Profiler.* The counters of a profiler are those of the requests in flight (`CountsExact`) unless a
request of an earlier profiler of the tag was ended in it; FlightsKnown and AbsentClear tie the
flights to the epochs of their tags. The busy time is exact since it is only kept while somebody is
in flight. Of the latency, the invariant says that the record a RecordPerformance will leave lies between
its bounds, that each field that is written has its value, and that a copy that met no record has the
fields of one state. The theorem is about both specifications side by side: they share no variable, and
TLC checks them as two units of one run.

### Executor, InferServer

*Executor.* `CacheExact` and `HeldExact` place a batch in the cache, with the dispatch thread
or in an engine, so that TaskNumExact can be counted through Run and the done notification.
OnlyNotifiersOutlive then says who may still run when ~Executor is over. `WillCome` carries what the dispatch thread saw over its steps: once it has found an engine
busy, an engine is idle or some batch still has its idle store before it, whatever the pool's
threads do while it looks at the next engine. `Joined` orders ~Executor.

*InferServer.* The links and the load of an executor are the sizes of sets: of the clients with a
session on it, and of the requests and items in the queues of these clients (`CountsExact`). A client
that passed WaitIfCacheFull has not counted its items yet; `LoadReserved` counts it in, which gives
the bound on the overshoot. The link is made after the lock is released, so an executor may be
deleted under it unless calls are `Serialised` (`NoOverlap`). `HeldCached` keeps the model a client
holds in the cache until somebody unloads it.

### Batcher, ThreadPool, Cache

*Batcher.* `Placed` says that the item being added, `cache_`, the batches being delivered and
what was emitted exclude one another; `OneHolder` that one client is inside the mutex.
NoStrandedItem needs `Covered`: what is in the cache, or about to be put there, has an event
in the queue or a timer thread about to emit. The handle in `timer_id_` plays no part in it,
which is why the handle may be lost.

*ThreadPool.* `Draining` is what holds while Stop(true) waits: what must run is queued,
running or done, and while some of it is queued, some thread in a slot has yet to look at the
queue. A thread that decides to leave has seen it empty with the mutex held (`OneMutex`), and
threads leave only when told to (`Crew`). `TaskOnce` gives the rest.

*Cache.* The items of a request are in six places, from what Enqueue has not cut to what was popped
or answered; together the places are always a permutation of the request's items. Discarding takes
packages apart with `Without` and cuts what is left with `Parts`; lemmas say that this keeps what
was not discarded, that all parts but the last are full and that none is empty. For
the static strategy, `StaticInOrder` says that what is popped precedes what is in the cache, and that
precedes what is still to be cut.

### BufPool and ResourcePool

`BuffersInv`: `Locks` (who is inside `mutex_`, and which pool is live), `BlocksApart`,
`HandsApart`, `HeadersApart` and `MappedHeld` (whoever has a block or a header has it alone),
and `Counted`: blocks inside and blocks out make `BlockNum`, and `alloc_count_` is what is
out. The last cannot wrap, since `BlockNum < CounterMod`.

The refinement maps a pool to `PoolPhase`, `PoolInside` and `PoolOut`. The initial states map
to the initial state. CreatePool maps to Open, DestroyPool to Close, DestroyDone to Release,
Alloc to Take, and Free as well as the return of a block whose header could not be had to
Give; all other steps leave the mapped state alone, those on pools that are gone because no
buffer is of such a pool.

### Decoder, Encoder, EncoderCe3226, Mps

*Decoder.* `Numbered`: packets are numbered as they are accepted, and what was delivered is
older than what the library works on. `EosOnce` follows the end of the stream: not sent, last
in the library, being reported, reported; the promise is made and set along with it.

*Encoder.* Every buffer is in the stock, in the library's hands, in the queue of left-over buffers
or in SendFrame's hand (`Apart`, `AllThere`). A call may leave a buffer over on MLU370, at most one
(`LeftOver`), and the next call takes it, so that the packets stay in order although a buffer is sent
one call late: `Rank` says where a packet stands. `EosOnce` is as in Decoder. On MLU590 a buffer may
be in two places (section 5), so these parts are about MLU370. The size kept for the scratch memory is
that of the memory unless it was freed, and it is freed only after an allocation failed (`nomemory`).

*EncoderCe3226.* Frames in the channel are in order and not newer than what was scaled last
(`ChannelOrdered`, `ScratchFresh`); `ScratchCounted` counts the pools over failing calls.

*Mps.* The ids in `id_q_` are distinct and none is that of a channel in use, whatever step of
CreateVDec or CreateVEnc failed. `Phases` says which driver calls the service can be in while
channels exist. `Conserved` balances the units of a channel: sent is what is in the stream buffer,
what the driver holds and what came out. A call with a unit begins before the end of the stream is
sent (`UnitBeforeEos`), but may still run after it.

### Pipeline, StreamRunner, TimeCounter, Processors

*Pipeline.* A frame passes eight places from the decoder to the encoder, with lanes between for
the tasks of infer. `Line` says of one stream that what is further on was delivered earlier, and that
each of the frames delivered is in a place or was given up. Lemmas say what moving a frame to the
next place, adding one at the first and giving one up do to a line, and each action uses one of
them. The end of a stream is the last frame its decoder delivers and the marked frame is the last
the encoder gets, so WaitForStop's count is right for the streams it knows of.

*TimeCounter.* An event is in `events_` or is the one the loop took out (`EventsHeld`), the
loop keeps Remove away from its event (`FiringHeld`), and a loop timer has the handle of its
event unless another timer removed it by mistake (`LoopHandles`), which only a stale one-shot
handle can do.

*StreamRunner.* Pictures are in the queue, in the hand of RunLoop, with the server, or done,
and every picture of a later place is older (`PicturesOrdered`, `PicturesKept`). The surfaces
in use are counted over these disjoint sets. `SourceHeld` and `EosFresh` tie pool, decoder and
ends of stream to the rounds.

*Processors.* `task_num_` is the number of packages between Run and the count-down
(`LoadCounted`). A package waiting for a buffer is one of them, and so are all that have one,
but those that failed and are not yet gone (`BuffersPlaced`): one more than the pool holds, so
PoolEmptyMeansOverload. A package in "params" and one in "buffer" both have the lock of their
preprocessor (`ProcessorLocked`), so they are of different engines.

### Osd and Model

Both are computations as much as protocols, so their invariants say what has been computed so far.

*Osd.* The plan is, colour by colour, the places of the boxes of that colour (`Without` of the
others), cut with `Parts`; what was drawn is a prefix of it. That every box with a size is in the
plan once follows from the colours being distinct. The loop that shrinks a box that does not fit
stops at a width that is determined by where the box starts, and an even number.

*Model.* What the model, its runner and its pools know is a function of what GetModelInfo read
(`InfoKnown`, `RunnerKnown`, `InputPoolKnown`), so the sizes can be compared; that a product of
positive dimensions is positive and that a block holds a batch is by induction on the number of dimensions.
Tensors are numbered as they are made, so new ones are apart from the old; a tensor that is
freed has no owner any more, and one that is not has exactly one (`TensorsApart`), until one is at an
unknown location.

### Surface and Transform

*Surface.* `LaidOut` says that the planes are those GetColorFormatInfo gives for the format and two
alignments, or none, and that the elements fit the memory. From it lemmas derive that planes are
apart and rows inside their planes (AlignUp never rounds down and is monotonic), and where
a copy between two layouts ends: the rows of the third plane of YUV420 go to where the second one is, so they need twice
the rows of half the height, which is one too many when the height is odd (`OddRows`). `HostCopies`
says which elements of `host_data_` there are: all of a contiguous surface under the first one, or each on
its own; what SyncHostToDevice does not deliver follows from it. All other calls keep the shape of a
surface and replace its data, which is one lemma for each way of replacing it.

*Transform.* What a context keeps is what its sizes say (`SizesTrue`), unless one of its allocations
failed, since the sizes are stored first; so a call that finds the sizes large enough finds the buffers
large enough. All contexts of a thread have its queue until it is replaced, and nothing is destroyed
before there was one (`OneQueue`). Of a call whose source has no more elements than its target has room for,
every loop stays in the target, and no context is in `overran`. The end of the thread destroys the contexts in the order in which they
were made (`Unwound`), which is an induction over their list.

### Lemmas

`SublistsProofs` has what `Elems`, `Distinct`, `Without` and `Parts` of module Sublists do under
Append, Tail and concatenation, what is left when elements are erased, and arithmetic modulo a
number. Its `SetInduction`
is induction over Nat for a *set*: a set of naturals that has 0 and successors has every
natural. The library's induction theorems have an operator parameter, which the provers cannot
instantiate; for a recursive function over `0 .. Len(s)` the set of indices at which a fact
holds serves as well.

### Only model-checked

- Liveness, which is out of the prover's reach as is ENABLED: WaitReturns, StopReturns,
  PushedIsTaken, ItemsAreEmitted, CallReturns, PackageEnds, PoolCallsReturn, DestroyReturns
  and ServiceReturnsAlways.
- LetterboxExact, checked over bounded inputs against a definition of what a region and a box should be:
  BoxesComeBack compares fractions whose numerators and denominators are products of several variables
  and quotients rounded down, which is beyond the arithmetic of the provers.
- DevicesSafe of Mps, about the driver calls of MpsDevices. The calls for a configuration are put together
  with an operator that takes an operator and concatenates its results, which the provers cannot
  instantiate, and the tables of the sensors are CASE expressions, which they do not take apart. TLC goes
  through every sensor type and every failing call.

No module declares a RECURSIVE operator.

## 5. Where the code does less than one would expect

The properties hold with the exceptions they name. What lies behind the exceptions, and
what was met while reading the code:

*Session and Executor.* A request that finishes between the response task's look at the list
and its `in_response_.store(false)` (`session.cpp:323`) is answered only when another one
finishes (`HandOverLost` in WaitReturns). RequestSync keeps the pointer Send gave it and calls Discard on it after a
timeout, without `request_mutex_` and when the request may be deleted: the FIXME at `infer_server.cpp:250`
says so. NoUseAfterFree names that use, `StaleDiscard`, and shows that it needs an answer after the timeout
or a request dropped before, and that nobody else uses a deleted request. It may strike a younger request at the
same address, which then is never answered (DroppedIffDiscarded counts it among the discarded ones). A
Discard that lands between the response task's test and its call of the observer (`session.cpp:304`) lets
the observer write to variables of a call that is over; ObserverFrame names it ("late"). A RequestSync
without timeout whose request is dropped waits for ever, since nobody sets its flag (WaitReturns). Two
threads that wait for the same last request of a tag ask its promise for two futures, which throws
(`session.cpp:188`): AbortedByTwoWaiters says that it takes just that, and session_order, whose
clients share a tag, meets it. An empty package may be answered and deleted before
its own CheckAndResponse, which then may take a new request at its address for it
(`session.cpp:280`). This case is left out: no run has two threads that send and one of them an empty
package, and MemorySafe, AnswersExact and EmptyPackagesSafe are proved under NoStaleCaller, which rules it
out. In the runs an item ends with SUCCESS; what KeepFirstError keeps only affects what the observer is told, and the
theorems hold for any set of statuses. All engines may become idle between the dispatch thread's predicate and its sleep
(`session.cpp:61-62`, `141`), which EngineWillCome names (`NotificationLost`) and does not promise away; the same window in Cache::Pop lets ~Executor join a sleeping
thread (`cache.h:54`). ~Engine returns at `task_num_ == 0` while the thread that
decremented it goes on to call `done_notifier_(this)` (`engine.cpp:94-97`), a member of the deleted engine that
writes to the executor, which may be deleted too. "wait for all task done" (`engine.h:71`) promises more;
OnlyNotifiersOutlive names these steps and says that nothing else is left. `std::move(perf)` in a loop gives
the records to the first item only (`engine.cpp:83`).

*ThreadPool, Batcher, timers.* A task pushed between a thread's TryPop and its sleep waits for
the next push (`thread_pool.h:210`). ~Batcher returns while its timer task runs
(`timer.cpp:75`, `120`). A one-shot handle may be stale and its Cancel may remove another
timer's event at the same address; ~TimeCounter's notification may be lost (`timer.cpp:131`).
With batch_timeout 0 a partial batch waits for Flush, and ~Session does not flush.

*Cache.* Packages rebatched by ClearDiscard lose their priority (`cache.h:158`).

*InferServer.* CreateSession links after it has left `executor_map_mutex_`
(`infer_server.cpp:172-180`), so a concurrent DestroySession may delete the executor:
ExecutorAlive is checked with Serialised. A notification of ReleaseCount may be lost or used
up by a RequestSync that gives up (`session.h:199`, `infer_server.cpp:242`), which is the exception of
CallReturns. A model cache whose models are all used exceeds its limit and does not
shrink back. Predictor::Init dereferences a model that was unloaded (`predictor.cpp:78`).
A session is deleted with `executor_map_mutex_` held.

*Processors, Model.* An engine may take one package more than its pools have buffers, since it
counts a package out before its buffers are back (`engine.cpp:95`): PoolEmptyMeansOverload.
FixedShape takes an empty shape for a fixed one. The size of an output block is truncated when
the batch does not divide the output (`predictor.cpp:108`). BGR, RGB and GRAY pools ignore type
and channels (`preprocessor.cpp:212-230`). A tensor at an unknown location has two owners
(`model.cpp:227`). The postprocessor reads `surface_list[batch_idx]` of a surface with one
element (`postprocessor.cpp:150`).

*Profiler.* RemoveTag with requests under way, then the same tag again: the ends of old
requests are counted in the new profiler and a CHECK may end the process (`profile.h:124`).
`LatencyRecorder::GetPerformance` returns the map without `latency_mutex_` (`profile.h:86`), and
`InferServer::GetLatency` copies from it: a copy that meets a record may mix old and new fields, and its mean may
lie outside of its bounds. MeanBetween is about records read under the mutex and about copies that met none. The
map itself is one key in the model; a key that is inserted while another thread walks the map is beyond it.

*Buffers.* `BufPool::DestroyPool` holds `mutex_` (`cnedk_buf_surface_util.cpp:244-255`) while
MemPool::Destroy spins for the buffers, and a thread that holds one and asks for another blocks on that
mutex (line 275) and never gives its own back. PoolCallsReturn names the deadlock (`DestroyDeadlock`), the
run meets it, and it is the only way in which Destroy and GetBufSurfaceWrapper do not return. A pool that could not be created leaves its pointer and some blocks behind
(`cnedk_buf_surface.cpp:54-59`, `cnedk_buf_surface_impl.cpp:82`); DestroyPool's loop returns in its
first round (`cnedk_buf_surface_util.cpp:270`). Copy between surfaces of different layouts
copies the first plane only (`cnedk_buf_surface.cpp:273`, `289`), reaches half a row behind the third
plane of a YUV420 surface of odd height, and takes the rows of element i from `height[i]`, which ends after
three elements (MayCopy is about batches of at most three). Memory of type SYSTEM is allocated for one element of a batch. A wrapper has
`host_data_` for 128 elements: further ones are not mapped, and SyncHostToDevice(-1, -1) delivers nothing of a
batch that long (`cnedk_buf_surface_util.cpp:169`, `209`). The host data of a wrapper is
not refreshed; SyncHostToDevice of a later element of a contiguous surface does nothing.

*Transform.* A queue may be replaced under contexts that keep it; sizes are stored before the
allocation that may fail; RgbxToYuv uses element 0 for all. The transformers compare `num_filled` with the
target's `batch_size` (`mlu370/cnedk_transform_impl_mlu370.cpp:43`,
`ce3226/cnedk_transform_impl_ce3226.cpp:35`), but every context loops over the `batch_size` of
the source and indexes the target's elements (`transform_cncv/cnedk_transform_cncv.cpp:79-148`, `199-264`,
`295-331`): a source batch larger than the target's runs past them, and so does one larger than the single
element Rgbx2YuvResizeAndConvert converts into (`524-550`). The run has both cases; InsideTarget names them
and shows that there is no other.

*Codecs.* When an encoder cannot get scratch memory for a larger picture, it has freed the old one and
keeps pointer, flag and size (`mlu370/cnedk_encode_impl_mlu370.cpp:430-443`,
`mlu590/cnedk_encode_impl_mlu590.cpp:367-390`): the next picture of the old size or smaller is copied to
freed memory, and a larger one frees it again. ScratchCovers names the failed allocation as the only cause. If the end of the stream cannot be sent, Destroy waits for ever
(`mlu370/cnedk_decode_impl_mlu370.cpp:177`). The MLU590 encoder queues a buffer for a second
sending and sends it (`mlu590/cnedk_encode_impl_mlu590.cpp:309-325`); BufferInOnePlace is about
MLU370. EncoderCe3226 scales into one surface that the channel may still read.

*CE3226.* The last handle is never returned and a second Init hands out all ids again
(`mps_service_impl_vdec.hpp:66`, `mps_service_impl_vdec.cpp:95`); the error labels of InitVpps are
crossed (`mps_service_impl_vin.cpp:314`); StopMipi and VppsStop return at the first refusal; two
sensor types are missing in a table; the switches of `vi_config_` are not initialised.

*Pipeline.* WaitForStop does not know of a stream whose first frame has not reached the sink and
cuts it off (`samples/easy_pipeline/framework/easy_pipeline.cpp:155`); `stream_process_map` is read
and written without a lock, which the model treats as atomic. A node is owned by the callback of
its own module, so modules are never destroyed.

*Simple demos.* `send_eos_` is never reset (`samples/simple_demo/common/video_decoder.cpp:667`), so
from the second round on nobody ends the stream and the wait for it takes its ten seconds. RunLoop
leaves frames in the queue when it is stopped (`stream_runner.cpp:108`), and the callback of a
failed request keeps its surface (`detection_runner.cpp:118`); in both cases CnedkBufPoolDestroy
then spins for ever. RunnerSafe says that the pool is not freed under them, not that the runner ends. The end of a
stream is queued under `eos_mut_`, a frame under `mut_` (`stream_runner.h:55`, `63`); the model treats
a push as atomic. A source that cannot be opened makes DemuxLoop spin, and an alarm after
`g_runner.reset()` dereferences null. OnPostproc of the demo uses 1280 x 720 whatever the picture
(`detection_runner.cpp:291`), so BoxesComeBack is about pictures of these proportions there. A crop that begins
outside of the picture wraps in uint32_t; RegionsInside is about the others.

## 6. Not modelled

- Device code: inference, decoding, encoding, colour conversion and scaling kernels. They
  appear as calls that succeed, fail or take effect later.
- DownloadModel (`model/model_manager.cpp:193-253`), a file fetched with curl; the cache of
  device properties in `cnedk_platform.cpp`; the front ends that only forward to an implementation.
- The Python binding, the other samples, tests and tools, which use the library; the choice of
  the best class and the drawing with OpenCV in the simple demos; `backward.hpp`
  and `any.h`, which are third-party code; the configuration reader of `mps_internal`.
- Observers that call back into the session, and exceptions thrown by user code on the pool,
  are outside of the interface.
- Memory-order weaknesses: the atomics concerned use sequentially consistent operations
  except for one compare-exchange made under `request_mutex_`.

## 7. What is left

Everything of section 2 is modelled and checked, and section 4 proved. What could follow:

1. DevicesSafe for any number of sensors: the sequences of MpsDevices as recursive functions over the
   sensors, with what an error undoes as a function of what was done.
2. RegionsInside of Letterbox, whose quotients have one variable each, apart from BoxesComeBack.
3. Liveness on top of the invariants, once ENABLED is in reach: StopReturns and CallReturns first.
