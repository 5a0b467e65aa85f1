------------------------------ MODULE Pipeline ------------------------------
(***************************************************************************)
(* EasyPipeline, the framework of samples/easy_pipeline, with the modules  *)
(* stream_app.cpp puts into it: one SampleDecode per stream, then infer,   *)
(* osd and encode.  A module has a thread and a queue per unit of its      *)
(* parallelism, and a stream uses the queue its number selects.  Frames    *)
(* come from the callbacks of the decoders, which keep their order and     *)
(* deliver the end of a stream once and last (module Decoder), and leave   *)
(* infer in the callbacks of its session, in order (module Session).       *)
(***************************************************************************)
EXTENDS Integers, Sequences, Sublists

CONSTANTS
  NumStreams,  \* sources
  Packets      \* packets in the file of a stream

ASSUME PipelineConstants == NumStreams \in Nat \ {0} /\ Packets \in [0..NumStreams - 1 -> Nat]

VARIABLES
  infer_kind,   \* SampleAsyncInference or SampleSyncInference
  main_pc,      \* what main does with the pipeline
  joinNode,     \* the node ~EasyPipeline is at, 0 the sources
  pipeRunning,  \* EasyPipeline::running_
  closing,      \* the source Stop is at in the signal handler, -1 before
  reader,       \* Taskloop of a source: position in SampleDecode::Process
  packetsLeft,  \* packets the demuxer has not read
  eos_send_,    \* SampleDecode::eos_send_
  decoding,     \* what a decoder has not delivered, and whether it has its end of stream
  frame_count_, \* frames a decoder delivered
  sourceOn,     \* stream_process_map[0] of a source
  frameQueue,   \* input_queues of the nodes
  worker,       \* Taskloop of the other nodes
  asked,        \* requests of the session of infer, in order
  sinkMap,      \* stream_process_map of encode
  encodedBy,    \* frames of a stream that reached the encoder
  givenUp,      \* frames a module gave up, with the error it logged
  seenAtStop    \* streams the sink knew of when WaitForStop decided

pipelineVars == <<infer_kind, main_pc, joinNode, pipeRunning, closing, reader, packetsLeft, eos_send_, decoding,
                  frame_count_, sourceOn, frameQueue, worker, asked, sinkMap, encodedBy, givenUp, seenAtStop>>
mainVars   == <<infer_kind, main_pc, joinNode, pipeRunning, closing, seenAtStop>>
sourceVars == <<reader, packetsLeft, eos_send_, decoding, frame_count_, sourceOn>>
nodeVars   == <<frameQueue, worker, asked, sinkMap, encodedBy, givenUp>>

Streams == 0..NumStreams - 1
InferNode == 1
OsdNode == 2
EncodeNode == 3
PipeNodes == <<"infer", "osd", "encode">>

Parallelism(n) == IF n = InferNode /\ infer_kind = "sync" THEN 2 ELSE 1
Tasks == {InferNode, OsdNode, EncodeNode} \X {0, 1}
AtLoop == [pc |-> "loop", frame |-> <<>>]
ThreadGone == [pc |-> "gone", frame |-> <<>>]

PipelineInit ==
  /\ infer_kind \in {"async", "sync"}
  /\ main_pc = "new" /\ joinNode = 0 /\ pipeRunning = FALSE /\ closing = -1
  /\ reader = [s \in Streams |-> "loop"]
  /\ packetsLeft = Packets
  /\ eos_send_ = [s \in Streams |-> FALSE]
  /\ decoding = [s \in Streams |-> [q |-> <<>>, eos |-> FALSE]]
  /\ frame_count_ = [s \in Streams |-> 0]
  /\ sourceOn = [s \in Streams |-> TRUE]
  /\ frameQueue = [t \in Tasks |-> <<>>]
  /\ worker = [t \in Tasks |-> AtLoop]
  /\ asked = <<>>
  /\ sinkMap = [s \in Streams |-> "absent"]
  /\ encodedBy = [s \in Streams |-> <<>>]
  /\ givenUp = {} /\ seenAtStop = {}

-----------------------------------------------------------------------------
(* Start, Stop, WaitForStop *)

\* BuildEasyPipeline opens the modules and starts the threads, the sources'
\* last; when a module cannot be opened no source runs.
PipeStart(opened) ==
  /\ main_pc = "new"
  /\ main_pc' = IF opened THEN "waiting" ELSE "joining"
  /\ pipeRunning' = opened
  /\ UNCHANGED <<infer_kind, joinNode, closing, seenAtStop, sourceVars, nodeVars>>

Interrupt ==
  /\ pipeRunning /\ closing = -1
  /\ closing' = 0
  /\ UNCHANGED <<infer_kind, main_pc, joinNode, pipeRunning, seenAtStop, sourceVars, nodeVars>>

\* CnedkVdecSendStream; it may fail, and does so once the decoder has its end
\* of stream.
SendStream(s, what) ==
  \/ /\ ~decoding[s].eos
     /\ decoding' = [decoding EXCEPT ![s] = [q |-> Append(@.q, what), eos |-> what = "eos"]]
  \/ UNCHANGED decoding

\* SampleDecode::Close; vdec_ is there once the pipeline runs.
CloseSource ==
  /\ closing \in Streams
  /\ closing' = closing + 1
  /\ IF eos_send_[closing]
       THEN UNCHANGED <<eos_send_, decoding>>
       ELSE /\ eos_send_' = [eos_send_ EXCEPT ![closing] = TRUE]
            /\ SendStream(closing, "eos")
  /\ UNCHANGED <<infer_kind, main_pc, joinNode, pipeRunning, seenAtStop,
                 reader, packetsLeft, frame_count_, sourceOn, nodeVars>>

\* Mutant: the sinks are not asked.
PipelineEndedSources == \A s \in Streams : ~sourceOn[s]

\* The predicate of WaitForStop.  A stream the sink has seen nothing of is not
\* in its map.
PipelineEnded == \A s \in Streams : ~sourceOn[s] /\ sinkMap[s] # "on"

WaitForStop ==
  /\ main_pc = "waiting" /\ PipelineEnded
  /\ main_pc' = "stopping"
  /\ seenAtStop' = {s \in Streams : sinkMap[s] # "absent"}
  /\ UNCHANGED <<infer_kind, joinNode, pipeRunning, closing, sourceVars, nodeVars>>

\* ... and its last line; Stop does nothing after it.
StopRunning ==
  /\ main_pc = "stopping"
  /\ main_pc' = "joining" /\ pipeRunning' = FALSE
  /\ UNCHANGED <<infer_kind, joinNode, closing, seenAtStop, sourceVars, nodeVars>>

-----------------------------------------------------------------------------
(* ~EasyPipeline *)

\* Closing infer destroys its session, which waits for the requests.
NodeClosed(n) ==
  /\ \A k \in 0..Parallelism(n) - 1 : worker[<<n, k>>] = ThreadGone
  /\ n = InferNode => asked = <<>>

\* The threads of a node are joined and its module is closed before the next
\* node; the queues are deleted last.
JoinAndClose ==
  /\ main_pc = "joining"
  /\ IF joinNode = 0 THEN \A s \in Streams : reader[s] = "loop" ELSE NodeClosed(joinNode)
  /\ joinNode' = joinNode + 1
  /\ main_pc' = IF joinNode = Len(PipeNodes) THEN "deleted" ELSE main_pc
  /\ UNCHANGED <<infer_kind, pipeRunning, closing, seenAtStop, sourceVars, nodeVars>>

-----------------------------------------------------------------------------
(* Taskloop of a source, with SampleDecode::Process, and the callbacks of    *)
(* its decoder                                                               *)

ReadFrame(s) ==
  /\ pipeRunning /\ reader[s] = "loop" /\ ~eos_send_[s]
  /\ reader' = [reader EXCEPT ![s] = IF packetsLeft[s] = 0 THEN "eos" ELSE "packet"]
  /\ UNCHANGED <<mainVars, packetsLeft, eos_send_, decoding, frame_count_, sourceOn, nodeVars>>

SendPacket(s) ==
  /\ reader[s] = "packet"
  /\ packetsLeft' = [packetsLeft EXCEPT ![s] = @ - 1]
  /\ SendStream(s, "packet")
  /\ reader' = [reader EXCEPT ![s] = "loop"]
  /\ UNCHANGED <<mainVars, eos_send_, frame_count_, sourceOn, nodeVars>>

SendEnd(s) ==
  /\ reader[s] = "eos"
  /\ SendStream(s, "eos")
  /\ eos_send_' = [eos_send_ EXCEPT ![s] = TRUE]
  /\ reader' = [reader EXCEPT ![s] = "loop"]
  /\ UNCHANGED <<mainVars, packetsLeft, frame_count_, sourceOn, nodeVars>>

\* send_data of the node before n, or of the source.
Transmitted(queues, n, f) ==
  IF n > Len(PipeNodes) THEN queues
  ELSE [queues EXCEPT ![<<n, f.stream % Parallelism(n)>>] = Append(@, f)]

\* OnFrame and OnEos up to the push.
FromDecoder(s) ==
  /\ decoding[s].q # <<>> /\ Head(decoding[s].q) # "sent"
  /\ frameQueue' = Transmitted(frameQueue, InferNode,
        [stream |-> s, idx |-> frame_count_[s], is_eos |-> Head(decoding[s].q) = "eos"])
  /\ frame_count_' = [frame_count_ EXCEPT ![s] = @ + 1]
  /\ decoding' = [decoding EXCEPT ![s].q =
                    IF Head(@) = "eos" THEN <<"sent">> ELSE Tail(@)]
  /\ UNCHANGED <<mainVars, reader, packetsLeft, eos_send_, sourceOn, worker, asked, sinkMap, encodedBy, givenUp>>

\* source_send_data of an end of stream, after the push.
SourceEnds(s) ==
  /\ decoding[s].q = <<"sent">>
  /\ decoding' = [decoding EXCEPT ![s].q = <<>>]
  /\ sourceOn' = [sourceOn EXCEPT ![s] = FALSE]
  /\ UNCHANGED <<mainVars, reader, packetsLeft, eos_send_, frame_count_, nodeVars>>

-----------------------------------------------------------------------------
(* Taskloop of the other nodes *)

\* running_ may be cleared between the test of it and the pop.
PopFrame(n, k) ==
  /\ main_pc # "new" /\ worker[<<n, k>>] = AtLoop /\ frameQueue[<<n, k>>] # <<>>
  /\ worker' = [worker EXCEPT ![<<n, k>>] = [pc |-> "process", frame |-> Head(frameQueue[<<n, k>>])]]
  /\ frameQueue' = [frameQueue EXCEPT ![<<n, k>>] = Tail(@)]
  /\ UNCHANGED <<mainVars, sourceVars, asked, sinkMap, encodedBy, givenUp>>

LeaveLoop(n, k) ==
  /\ main_pc # "new" /\ ~pipeRunning /\ worker[<<n, k>>] = AtLoop
  /\ worker' = [worker EXCEPT ![<<n, k>>] = ThreadGone]
  /\ UNCHANGED <<mainVars, sourceVars, frameQueue, asked, sinkMap, encodedBy, givenUp>>

PassOn(n, f) == frameQueue' = Transmitted(frameQueue, n + 1, f) /\ UNCHANGED givenUp
GiveUp(f)    == givenUp' = givenUp \cup {f} /\ UNCHANGED frameQueue

\* WaitTaskDone waits for the requests of all streams: they have one tag.
AsyncProcess(f) ==
  IF f.is_eos THEN asked = <<>> /\ PassOn(InferNode, f) /\ UNCHANGED asked
  ELSE \/ asked' = Append(asked, f) /\ UNCHANGED <<frameQueue, givenUp>>
       \/ GiveUp(f) /\ UNCHANGED asked

SyncProcess(f) == (PassOn(InferNode, f) \/ (~f.is_eos /\ GiveUp(f))) /\ UNCHANGED asked

\* SampleOsd refuses a frame without a picture.
OsdProcess(f) == (PassOn(OsdNode, f) \/ (~f.is_eos /\ GiveUp(f))) /\ UNCHANGED asked

ModuleProcess(n, k) ==
  LET f == worker[<<n, k>>].frame IN
  /\ worker[<<n, k>>].pc = "process"
  /\ \/ n = InferNode /\ infer_kind = "async" /\ AsyncProcess(f) /\ UNCHANGED encodedBy
     \/ n = InferNode /\ infer_kind = "sync" /\ SyncProcess(f) /\ UNCHANGED encodedBy
     \/ n = OsdNode /\ OsdProcess(f) /\ UNCHANGED encodedBy
     \/ n = EncodeNode /\ encodedBy' = [encodedBy EXCEPT ![f.stream] = Append(@, f)]
        /\ PassOn(EncodeNode, f) /\ UNCHANGED asked
  /\ worker' = [worker EXCEPT ![<<n, k>>] = IF n = Len(PipeNodes) THEN [@ EXCEPT !.pc = "mark"] ELSE AtLoop]
  /\ UNCHANGED <<mainVars, sourceVars, sinkMap>>

\* The observer of the session of infer; a frame whose status is not SUCCESS
\* goes no further.
InferResponse ==
  /\ asked # <<>>
  /\ asked' = Tail(asked)
  /\ PassOn(InferNode, Head(asked)) \/ GiveUp(Head(asked))
  /\ UNCHANGED <<mainVars, sourceVars, worker, sinkMap, encodedBy>>

\* The entry of stream_process_map.
Marked(old, f) ==
  IF f.is_eos /\ old # "absent" THEN "off"
  ELSE IF ~f.is_eos /\ old = "absent" THEN "on" ELSE old

\* Only the map of the last node is ever read; the others are left out.
ProcessFrameEos(n, k) ==
  LET f == worker[<<n, k>>].frame IN
  /\ worker[<<n, k>>].pc = "mark"
  /\ sinkMap' = [sinkMap EXCEPT ![f.stream] = Marked(@, f)]
  /\ worker' = [worker EXCEPT ![<<n, k>>] = AtLoop]
  /\ UNCHANGED <<mainVars, sourceVars, frameQueue, asked, encodedBy, givenUp>>

PipelineNext ==
  \/ \E opened \in BOOLEAN : PipeStart(opened)
  \/ Interrupt \/ CloseSource \/ WaitForStop \/ StopRunning \/ JoinAndClose
  \/ \E s \in Streams :
       ReadFrame(s) \/ SendPacket(s) \/ SendEnd(s) \/ FromDecoder(s) \/ SourceEnds(s)
  \/ \E n \in 1..Len(PipeNodes) : \E k \in 0..Parallelism(n) - 1 :
       PopFrame(n, k) \/ LeaveLoop(n, k) \/ ModuleProcess(n, k) \/ ProcessFrameEos(n, k)
  \/ InferResponse

PipelineSpec == PipelineInit /\ [][PipelineNext]_pipelineVars

-----------------------------------------------------------------------------
(* Properties *)

\* The frames of a stream reach the encoder in the order in which its decoder
\* delivered them, with the end of the stream last, although infer answers
\* from other threads and the nodes run concurrently.
StreamInOrder ==
  \A s \in Streams : \A i, j \in DOMAIN encodedBy[s] :
    i < j => /\ encodedBy[s][i].idx < encodedBy[s][j].idx
             /\ ~encodedBy[s][i].is_eos

\* When WaitForStop lets the threads go, every stream the sink has seen a frame
\* of is encoded to its end, but for the frames a module gave up.  (A stream
\* whose first frame is still under way is cut off: it is not in the map.)
StopComplete ==
  main_pc \in {"stopping", "joining", "deleted"} =>
    \A s \in seenAtStop : \A i \in 0..frame_count_[s] - 1 :
      \E f \in Elems(encodedBy[s]) \cup givenUp : f.stream = s /\ f.idx = i

\* Nobody can push a frame once ~EasyPipeline deleted the queues: no decoder
\* has anything to deliver and no request of infer is to be answered.
NoLateFrame ==
  main_pc = "deleted" =>
    /\ asked = <<>>
    /\ \A s \in Streams : decoding[s].q = <<>> /\ (eos_send_[s] \/ frame_count_[s] = 0)
    /\ \A n \in 1..Len(PipeNodes) : \A k \in 0..Parallelism(n) - 1 : worker[<<n, k>>] = ThreadGone

\* WaitForStop notices the end: when every source ended and no frame is under
\* way any more, its predicate holds, also for a stream that lost all its frames.
EndNoticed ==
  (/\ \A s \in Streams : ~sourceOn[s]
   /\ \A n \in 1..Len(PipeNodes) : \A k \in 0..Parallelism(n) - 1 :
        worker[<<n, k>>] = AtLoop /\ frameQueue[<<n, k>>] = <<>>
   /\ asked = <<>>) => PipelineEnded

\* Streams are encoded in order and, when WaitForStop ends, completely; it does
\* notice the end, and nobody pushes a frame afterwards.
PipelineCorrect == StreamInOrder /\ StopComplete /\ NoLateFrame /\ EndNoticed

-----------------------------------------------------------------------------
(* The inductive invariant of PipelineCorrect *)

Frames == [stream : Streams, idx : Nat, is_eos : BOOLEAN]
WorkerStates == {AtLoop, ThreadGone} \cup [pc : {"process", "mark"}, frame : Frames]
Coded == [q : Seq({"packet", "eos", "sent"}), eos : BOOLEAN]

PipelineTyped ==
  /\ infer_kind \in {"async", "sync"}
  /\ main_pc \in {"new", "waiting", "stopping", "joining", "deleted"}
  /\ joinNode \in 0..Len(PipeNodes) + 1 /\ pipeRunning \in BOOLEAN
  /\ frame_count_ \in [Streams -> Nat]
  /\ decoding \in [Streams -> Coded]
  /\ eos_send_ \in [Streams -> BOOLEAN] /\ sourceOn \in [Streams -> BOOLEAN]
  /\ reader \in [Streams -> {"loop", "packet", "eos"}]
  /\ frameQueue \in [Tasks -> Seq(Frames)]
  /\ worker \in [Tasks -> WorkerStates]
  /\ asked \in Seq(Frames)
  /\ sinkMap \in [Streams -> {"absent", "on", "off"}]
  /\ encodedBy \in [Streams -> Seq(Frames)]

Lane(s) == s % Parallelism(InferNode)
InHand(n, k) == IF worker[<<n, k>>].pc = "process" THEN <<worker[<<n, k>>].frame>> ELSE <<>>

\* Where the frames of a stream pass, in the order of the pipeline.
Places(s) ==
  <<frameQueue[<<InferNode, Lane(s)>>], InHand(InferNode, Lane(s)), asked,
    frameQueue[<<OsdNode, 0>>], InHand(OsdNode, 0),
    frameQueue[<<EncodeNode, 0>>], InHand(EncodeNode, 0), encodedBy[s]>>
LastPlace == 8

\* f was delivered before g, if both are of the stream.
Precedes(s, f, g) == f.stream = s /\ g.stream = s => f.idx < g.idx /\ ~f.is_eos
QueueInOrder(s, q) == \A i, j \in DOMAIN q : i < j => Precedes(s, q[i], q[j])

\* What is further on was delivered earlier; of the n frames delivered each is
\* in a place or given up.
Line(s, places, n, lost) ==
  /\ \A p \in 1..LastPlace : QueueInOrder(s, places[p])
  /\ \A p, r \in 1..LastPlace : r < p =>
       \A f \in Elems(places[p]), g \in Elems(places[r]) : Precedes(s, f, g)
  /\ \A p \in 1..LastPlace : \A f \in Elems(places[p]) : f.stream = s => f.idx < n
  /\ \A i \in 0..n - 1 :
       \/ \E p \in 1..LastPlace : \E f \in Elems(places[p]) : f.stream = s /\ f.idx = i
       \/ \E f \in lost : f.stream = s /\ f.idx = i

HasEnd(s, places) == \E p \in 1..LastPlace : \E f \in Elems(places[p]) : f.stream = s /\ f.is_eos
EndEncoded(s) == \E f \in Elems(encodedBy[s]) : f.is_eos

LinesKept == \A s \in Streams : Line(s, Places(s), frame_count_[s], givenUp)

\* A queue of infer has the frames of its streams; the session of the
\* synchronous infer is not used, and gets no end of a stream in the other.
LanesKept ==
  /\ \A k \in {0, 1} : \A f \in Elems(frameQueue[<<InferNode, k>>]) \cup Elems(InHand(InferNode, k)) : Lane(f.stream) = k
  /\ \A f \in Elems(asked) : infer_kind = "async" /\ ~f.is_eos
  /\ \A s \in Streams : \A f \in Elems(encodedBy[s]) : f.stream = s

\* The end of a stream is the last thing its decoder is given and delivers, and
\* then the source ends.
DecoderEnds(d, ended, on) ==
  /\ on => \/ ~ended /\ \A i \in DOMAIN d.q : d.q[i] # "sent" /\ (d.q[i] = "eos" <=> d.eos /\ i = Len(d.q))
           \/ ended /\ d.eos /\ d.q = <<"sent">>
  /\ on /\ ~ended /\ d.eos => d.q # <<>>
  /\ ~on => ended /\ d.eos /\ d.q = <<>>

SourcesEnd ==
  \A s \in Streams : /\ DecoderEnds(decoding[s], HasEnd(s, Places(s)), sourceOn[s])
                     /\ decoding[s].eos => eos_send_[s]

\* What is marked has just been encoded.
MarkedLast ==
  /\ \A n \in {InferNode, OsdNode}, k \in {0, 1} : worker[<<n, k>>].pc # "mark"
  /\ worker[<<EncodeNode, 0>>].pc = "mark" =>
       LET f == worker[<<EncodeNode, 0>>].frame
       IN  encodedBy[f.stream] # <<>> /\ f = encodedBy[f.stream][Len(encodedBy[f.stream])]

SinkKnows ==
  \A s \in Streams :
    /\ sinkMap[s] = "off" \/ s \in seenAtStop => EndEncoded(s)
    /\ sinkMap[s] = "on" /\ EndEncoded(s) => worker[<<EncodeNode, 0>>].pc = "mark" /\ worker[<<EncodeNode, 0>>].frame.stream = s

NeverRan ==
  /\ ~pipeRunning /\ closing = -1
  /\ \A s \in Streams : reader[s] = "loop" /\ decoding[s].q = <<>> /\ ~decoding[s].eos /\ frame_count_[s] = 0

StopOrder ==
  /\ seenAtStop \subseteq Streams
  /\ main_pc = "new" => NeverRan
  /\ main_pc \in {"stopping", "joining", "deleted"} => NeverRan \/ \A s \in Streams : ~sourceOn[s]
  /\ main_pc \in {"joining", "deleted"} => ~pipeRunning
  /\ main_pc \notin {"joining", "deleted"} => joinNode = 0
  /\ main_pc = "deleted" <=> joinNode = Len(PipeNodes) + 1
  /\ \A n \in 1..Len(PipeNodes) : joinNode > n => \A k \in 0..Parallelism(n) - 1 : worker[<<n, k>>] = ThreadGone
  /\ joinNode > InferNode => asked = <<>>

PipelineInv ==
  PipelineTyped /\ LinesKept /\ LanesKept /\ SourcesEnd /\ MarkedLast /\ SinkKnows /\ StopOrder
==============================================================================
