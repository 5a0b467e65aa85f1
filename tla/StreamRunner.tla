---------------------------- MODULE StreamRunner ----------------------------
(***************************************************************************)
(* The runner of the simple demos: StreamRunner with VideoParser,          *)
(* VideoDecoder and EasyDecodeImpl, and the session of DetectionRunner or  *)
(* ClassificationRunner.  The main thread reads packets (DemuxLoop, and    *)
(* again RepeatTime times), a callback thread of the decoder fills         *)
(* frames_, a second thread takes frames from it (RunLoop), the server     *)
(* answers, and a signal may stop all of it.  The memory is that of an     *)
(* MLU: CnedkBufPoolDestroy waits for surfaces (see BufPool), and          *)
(* CnedkVdecDestroy for the end of the stream (see Decoder).  frames_ is   *)
(* written under eos_mut_ and read under mut_; a push and a pop are taken  *)
(* to be atomic nevertheless.                                              *)
(***************************************************************************)
EXTENDS Integers, Sequences, FiniteSets

CONSTANTS
  VideoFile,   \* the packets of the file: "key", "delta" or another stream's, "other"
  RepeatTime,  \* FLAGS_repeat_time
  PoolBlocks   \* surfaces in surf_pool_

ASSUME RunnerConstants ==
  /\ VideoFile \in Seq({"key", "delta", "other"})
  /\ RepeatTime \in Nat /\ PoolBlocks \in Nat \ {0}

VARIABLES
  runner_pc,           \* the main thread
  afterClose,          \* where it goes on after VideoParser::Close
  isRunning,           \* StreamRunner::running_
  receive_eos_,        \* StreamRunner::receive_eos_
  send_eos_,           \* VideoDecoder::send_eos_
  loop_time,           \* rounds of DemuxLoop
  have_video_source_, first_frame_, unread,  \* VideoParser, and what the file still has
  vdec_,               \* the decoder: whether there is one, has its end, what it works on
  surf_pool_,          \* "none", "open" or "freed": the pointer CnedkBufPoolCreate left
  frames_,             \* StreamRunner::frames_; 0 is the nullptr of an end of stream
  decoded,             \* pictures that were given a surface, numbered
  inUse,               \* pictures whose surface is not back in the pool
  loop_pc, taken,      \* the thread of RunLoop and the picture it has
  inferring,           \* requests of the session
  shown, refused,      \* pictures that were drawn, and that Request did not take
  unanswered               \* pictures whose request failed

runnerVars == <<runner_pc, afterClose, isRunning, receive_eos_, send_eos_, loop_time, have_video_source_,
                first_frame_, unread, vdec_, surf_pool_, frames_, decoded, inUse, loop_pc, taken,
                inferring, shown, refused, unanswered>>
flowVars   == <<runner_pc, afterClose, loop_time>>
parserVars == <<have_video_source_, first_frame_, unread>>
decVars    == <<send_eos_, vdec_, surf_pool_>>
queueVars  == <<receive_eos_, frames_, decoded>>
loopVars   == <<loop_pc, taken>>
serverVars == <<inferring, shown, refused, unanswered>>

NoDecoder == [on |-> FALSE, eos |-> FALSE, work |-> <<>>]
NewDecoder == [NoDecoder EXCEPT !.on = TRUE]

RunnerInit ==
  /\ runner_pc = "new" /\ afterClose = "ended" /\ loop_time = 0
  /\ isRunning = FALSE /\ receive_eos_ = FALSE /\ send_eos_ = FALSE
  /\ have_video_source_ = FALSE /\ first_frame_ = TRUE /\ unread = <<>>
  /\ vdec_ = NoDecoder /\ surf_pool_ = "none"
  /\ frames_ = <<>> /\ decoded = 0 /\ inUse = {}
  /\ loop_pc = "none" /\ taken = 0
  /\ inferring = <<>> /\ shown = <<>> /\ refused = {} /\ unanswered = {}

-----------------------------------------------------------------------------
(* VideoParser::Open with EasyDecodeImpl::Init.  Its result is only logged.  *)

OpenResults == {"no file", "codec", "no pool", "no decoder", "ok"}

\* EasyDecodeImpl::Init.
DecoderInit(result) ==
  /\ surf_pool_' = CASE result = "no pool" -> "freed"
                     [] result \in {"no decoder", "ok"} -> "open"
                     [] OTHER -> surf_pool_
  /\ vdec_' = IF result = "ok" THEN NewDecoder ELSE vdec_

\* The source counts as there although the decoder could not be made.
OpenSource(result) ==
  /\ IF result = "no file"
       THEN UNCHANGED parserVars
       ELSE have_video_source_' = TRUE /\ first_frame_' = TRUE /\ unread' = VideoFile
  /\ DecoderInit(result)

\* The constructors, Start, and the thread of RunLoop.
Construct(result) ==
  /\ runner_pc = "new" /\ runner_pc' = "demux"
  /\ OpenSource(result)
  /\ isRunning' = TRUE /\ loop_pc' = "start"
  /\ UNCHANGED <<afterClose, loop_time, send_eos_, queueVars, inUse, taken, serverVars>>

Reopen(result) ==
  /\ runner_pc = "reopen" /\ runner_pc' = "demux"
  /\ OpenSource(result)
  /\ UNCHANGED <<afterClose, loop_time, send_eos_, isRunning, queueVars, inUse, loopVars, serverVars>>

-----------------------------------------------------------------------------
(* DemuxLoop with ParseLoop *)

WithEos(dec) ==
  IF dec.on /\ ~dec.eos THEN [dec EXCEPT !.eos = TRUE, !.work = Append(@, "eos")] ELSE dec

\* VideoDecoder::OnEos: once in the life of the runner, not of a decoder.
DecoderOnEos ==
  /\ send_eos_' = TRUE
  /\ vdec_' = IF send_eos_ THEN vdec_ ELSE WithEos(vdec_)
  /\ UNCHANGED surf_pool_

Demux ==
  /\ runner_pc = "demux" /\ runner_pc' = IF isRunning THEN "parse" ELSE "leave"
  /\ UNCHANGED <<afterClose, loop_time, isRunning, parserVars, decVars, queueVars, inUse, loopVars, serverVars>>

\* ParseLoop leaves its loop: "eof" is its result 1, "demux" its result -1, after
\* which DemuxLoop calls it again, also when there is no source.
ParseStopped ==
  /\ runner_pc = "parse" /\ (~isRunning \/ ~have_video_source_)
  /\ runner_pc' = IF ~isRunning THEN "eof" ELSE "demux"
  /\ UNCHANGED <<afterClose, loop_time, isRunning, parserVars, decVars, queueVars, inUse, loopVars, serverVars>>

Reading == runner_pc = "parse" /\ isRunning /\ have_video_source_

\* av_read_frame fails, at the end of the file or before.
ReadEof ==
  /\ Reading /\ runner_pc' = "eof"
  /\ DecoderOnEos
  /\ UNCHANGED <<afterClose, loop_time, isRunning, parserVars, queueVars, inUse, loopVars, serverVars>>

ReadSkipped ==
  /\ Reading /\ unread # <<>>
  /\ Head(unread) = "other" \/ (Head(unread) = "delta" /\ first_frame_)
  /\ unread' = Tail(unread)
  /\ UNCHANGED <<flowVars, isRunning, have_video_source_, first_frame_, decVars, queueVars, inUse, loopVars, serverVars>>

\* FeedPacket; a packet that is not taken makes ParseLoop return.
ReadPacket(sent) ==
  /\ Reading /\ unread # <<>>
  /\ Head(unread) = "key" \/ (Head(unread) = "delta" /\ ~first_frame_)
  /\ unread' = Tail(unread) /\ first_frame_' = FALSE
  /\ sent => vdec_.on /\ ~vdec_.eos
  /\ vdec_' = IF sent THEN [vdec_ EXCEPT !.work = Append(@, "packet")] ELSE vdec_
  /\ runner_pc' = IF sent THEN "parse" ELSE "demux"
  /\ UNCHANGED <<afterClose, loop_time, isRunning, have_video_source_, send_eos_, surf_pool_, queueVars, inUse, loopVars, serverVars>>

RoundEnds ==
  /\ runner_pc = "eof"
  /\ loop_time' = loop_time + 1
  /\ IF RepeatTime > loop_time
       THEN runner_pc' = "waitRepeat" /\ UNCHANGED decVars
       ELSE runner_pc' = "waitLast" /\ DecoderOnEos
  /\ UNCHANGED <<afterClose, isRunning, parserVars, queueVars, inUse, loopVars, serverVars>>

\* eos_cond_.wait_for: for receive_eos_, or ten seconds.
WaitEos ==
  /\ runner_pc \in {"waitRepeat", "waitLast"}
  /\ runner_pc' = IF runner_pc = "waitLast" THEN "leave" ELSE "close"
  /\ afterClose' = IF runner_pc = "waitLast" THEN afterClose ELSE "forget"
  /\ UNCHANGED <<loop_time, isRunning, parserVars, decVars, queueVars, inUse, loopVars, serverVars>>

ForgetEos ==
  /\ runner_pc = "forget" /\ runner_pc' = "reopen"
  /\ receive_eos_' = FALSE
  /\ UNCHANGED <<afterClose, loop_time, isRunning, parserVars, decVars, frames_, decoded, inUse, loopVars, serverVars>>

LeaveDemux ==
  /\ runner_pc = "leave" /\ runner_pc' = "join"
  /\ IF isRunning THEN DecoderOnEos ELSE UNCHANGED decVars
  /\ isRunning' = FALSE
  /\ UNCHANGED <<afterClose, loop_time, parserVars, queueVars, inUse, loopVars, serverVars>>

-----------------------------------------------------------------------------
(* VideoParser::Close with EasyDecodeImpl::Destroy *)

CloseSourceBegin ==
  /\ runner_pc = "close"
  /\ runner_pc' = IF have_video_source_ THEN "destroyDecoder" ELSE afterClose
  /\ have_video_source_' = FALSE
  /\ vdec_' = IF have_video_source_ THEN WithEos(vdec_) ELSE vdec_
  /\ UNCHANGED <<afterClose, loop_time, isRunning, first_frame_, unread, send_eos_, surf_pool_, queueVars, inUse, loopVars, serverVars>>

\* CnedkVdecDestroy returns when the callbacks are over.
DestroyDecoder ==
  /\ runner_pc = "destroyDecoder" /\ vdec_.work = <<>>
  /\ runner_pc' = "destroyPool"
  /\ vdec_' = NoDecoder
  /\ UNCHANGED <<afterClose, loop_time, isRunning, parserVars, send_eos_, surf_pool_, queueVars, inUse, loopVars, serverVars>>

\* Mutant: surfaces may be out.
DestroySurfPoolNow ==
  /\ runner_pc = "destroyPool"
  /\ runner_pc' = afterClose
  /\ surf_pool_' = "none"
  /\ UNCHANGED <<afterClose, loop_time, isRunning, parserVars, send_eos_, vdec_, queueVars, inUse, loopVars, serverVars>>

\* CnedkBufPoolDestroy spins until all surfaces are back.
DestroySurfPool ==
  /\ runner_pc = "destroyPool" /\ (surf_pool_ = "open" => inUse = {})
  /\ runner_pc' = afterClose
  /\ surf_pool_' = "none"
  /\ UNCHANGED <<afterClose, loop_time, isRunning, parserVars, send_eos_, vdec_, queueVars, inUse, loopVars, serverVars>>

\* main waits for RunLoop; DestroySession waits for the requests.
DestroyDemo ==
  /\ runner_pc = "join" /\ loop_pc = "gone" /\ inferring = <<>>
  /\ runner_pc' = "close" /\ afterClose' = "ended"
  /\ isRunning' = FALSE
  /\ UNCHANGED <<loop_time, parserVars, decVars, queueVars, inUse, loopVars, serverVars>>

\* SIGALRM while the runner is there.
HandleAlarm ==
  /\ isRunning /\ loop_pc # "none"
  /\ isRunning' = FALSE
  /\ UNCHANGED <<flowVars, parserVars, decVars, queueVars, inUse, loopVars, serverVars>>

-----------------------------------------------------------------------------
(* The callbacks of the decoder *)

\* A surface is taken and the frame is queued ...
OnDecodeFrame ==
  /\ vdec_.work # <<>> /\ Head(vdec_.work) = "packet"
  /\ Cardinality(inUse) < PoolBlocks
  /\ decoded' = decoded + 1
  /\ inUse' = inUse \cup {decoded'}
  /\ frames_' = Append(frames_, decoded')
  /\ vdec_' = [vdec_ EXCEPT !.work = Tail(@)]
  /\ UNCHANGED <<flowVars, isRunning, receive_eos_, send_eos_, surf_pool_, parserVars, loopVars, serverVars>>

\* ... or GetBufSurface gives up and the picture is lost.
NoBufSurface ==
  /\ vdec_.work # <<>> /\ Head(vdec_.work) = "packet"
  /\ Cardinality(inUse) = PoolBlocks
  /\ vdec_' = [vdec_ EXCEPT !.work = Tail(@)]
  /\ UNCHANGED <<flowVars, isRunning, send_eos_, surf_pool_, parserVars, queueVars, inUse, loopVars, serverVars>>

OnDecodeEos ==
  /\ vdec_.work # <<>> /\ Head(vdec_.work) = "eos"
  /\ frames_' = Append(frames_, 0)
  /\ receive_eos_' = TRUE
  /\ vdec_' = [vdec_ EXCEPT !.work = Tail(@)]
  /\ UNCHANGED <<flowVars, isRunning, send_eos_, surf_pool_, decoded, parserVars, inUse, loopVars, serverVars>>

-----------------------------------------------------------------------------
(* RunLoop, Process and the observer *)

LoopStart ==
  /\ loop_pc = "start" /\ loop_pc' = "test"
  /\ UNCHANGED <<flowVars, isRunning, parserVars, decVars, queueVars, inUse, taken, serverVars>>

\* Frames that are still queued stay there.
LoopTest ==
  /\ loop_pc = "test" /\ loop_pc' = IF isRunning THEN "wait" ELSE "gone"
  /\ UNCHANGED <<flowVars, isRunning, parserVars, decVars, queueVars, inUse, taken, serverVars>>

LoopPop ==
  /\ loop_pc = "wait"
  /\ IF frames_ = <<>>
       THEN loop_pc' = "test" /\ UNCHANGED <<frames_, taken>>
       ELSE loop_pc' = "process" /\ taken' = Head(frames_) /\ frames_' = Tail(frames_)
  /\ UNCHANGED <<flowVars, isRunning, receive_eos_, decoded, parserVars, decVars, inUse, serverVars>>

\* WaitTaskDone at the end of a stream.
ProcessEos ==
  /\ loop_pc = "process" /\ taken = 0 /\ inferring = <<>>
  /\ loop_pc' = "test"
  /\ UNCHANGED <<flowVars, isRunning, parserVars, decVars, queueVars, inUse, taken, serverVars>>

ProcessFrame(accepted) ==
  /\ loop_pc = "process" /\ taken # 0
  /\ loop_pc' = "test" /\ taken' = 0
  /\ inferring' = IF accepted THEN Append(inferring, taken) ELSE inferring
  /\ refused' = IF accepted THEN refused ELSE refused \cup {taken}
  /\ inUse' = IF accepted THEN inUse ELSE inUse \ {taken}
  /\ UNCHANGED <<flowVars, isRunning, parserVars, decVars, queueVars, shown, unanswered>>

\* The callback of the observer; after a failure it returns at once.
ObserverCallback(valid) ==
  /\ inferring # <<>>
  /\ inferring' = Tail(inferring)
  /\ IF valid
       THEN /\ shown' = Append(shown, Head(inferring)) /\ UNCHANGED unanswered
            /\ inUse' = inUse \ {Head(inferring)}
       ELSE unanswered' = unanswered \cup {Head(inferring)} /\ UNCHANGED <<shown, inUse>>
  /\ UNCHANGED <<flowVars, isRunning, parserVars, decVars, queueVars, loopVars, refused>>

RunnerNext ==
  \/ \E result \in OpenResults : Construct(result) \/ Reopen(result)
  \/ Demux \/ ParseStopped \/ ReadEof \/ ReadSkipped
  \/ \E sent \in BOOLEAN : ReadPacket(sent)
  \/ RoundEnds \/ WaitEos \/ ForgetEos \/ LeaveDemux
  \/ CloseSourceBegin \/ DestroyDecoder \/ DestroySurfPool \/ DestroyDemo \/ HandleAlarm
  \/ OnDecodeFrame \/ NoBufSurface \/ OnDecodeEos
  \/ LoopStart \/ LoopTest \/ LoopPop \/ ProcessEos
  \/ \E accepted \in BOOLEAN : ProcessFrame(accepted)
  \/ \E valid \in BOOLEAN : ObserverCallback(valid)

RunnerSpec == RunnerInit /\ [][RunnerNext]_runnerVars

-----------------------------------------------------------------------------
PicturesIn(s) == {s[i] : i \in DOMAIN s}

\* A surface that is out belongs to one picture, which is queued, in the hands of
\* RunLoop, with the server or was left behind by a failed request.
PictureInOnePlace ==
  LET queued == PicturesIn(frames_) \ {0}
      held   == {taken} \ {0}
      asked_ == PicturesIn(inferring)
  IN  /\ inUse = queued \cup held \cup asked_ \cup unanswered
      /\ Cardinality(inUse) =
           Cardinality(queued) + Cardinality(held) + Len(inferring) + Cardinality(unanswered)

\* Pictures are drawn in the order of the video over all its repetitions.
ShownInOrder == \A i, j \in DOMAIN shown : i < j => shown[i] < shown[j]

\* The pool is destroyed, between two rounds and at the end, when no picture of it
\* is anywhere; a runner that was destroyed has treated every picture.
PoolOutlivesPictures ==
  /\ surf_pool_ # "open" => inUse = {}
  /\ runner_pc = "ended" => PicturesIn(shown) \cup refused = 1 .. decoded

\* The end of a round is not taken for that of the next one: while packets are
\* read, receive_eos_ is not set by a decoder that was destroyed.
NoOldEos ==
  runner_pc \in {"demux", "parse"} /\ vdec_.on /\ ~vdec_.eos => ~receive_eos_

-----------------------------------------------------------------------------
(* Parts of the inductive invariant of UnitsProofs *)

Decoders == [on : BOOLEAN, eos : BOOLEAN, work : Seq({"packet", "eos"})]

RunnerTyped ==
  /\ afterClose \in {"ended", "forget"} /\ taken \in Nat /\ decoded \in Nat
  /\ frames_ \in Seq(Nat) /\ inferring \in Seq(Nat) /\ shown \in Seq(Nat)
  /\ vdec_ \in Decoders
  /\ loop_pc # "process" => taken = 0
  /\ runner_pc = "new" => loop_pc = "none"

QueuedPictures == PicturesIn(frames_) \ {0}
Held == {taken} \ {0}
Asked == PicturesIn(inferring)
Done == PicturesIn(shown) \cup unanswered

Before(A, B) == \A a \in A, b \in B : a < b
Rising(s) == \A i, j \in DOMAIN s : i < j /\ s[i] # 0 /\ s[j] # 0 => s[i] < s[j]

\* Pictures pass RunLoop and the server in the order of decoding.
PicturesOrdered ==
  /\ Rising(frames_) /\ Rising(inferring) /\ Rising(shown)
  /\ Before(Done, Asked) /\ Before(Done, Held) /\ Before(Done, QueuedPictures)
  /\ Before(Asked, Held) /\ Before(Asked, QueuedPictures) /\ Before(Held, QueuedPictures)

\* No picture is lost or treated twice.
PicturesKept ==
  /\ inUse = QueuedPictures \cup Held \cup Asked \cup unanswered
  /\ 1 .. decoded = PicturesIn(shown) \cup refused \cup inUse

\* A decoder has its source and its pool ...
SourceHeld ==
  /\ runner_pc \in {"new", "destroyDecoder", "destroyPool", "forget", "reopen", "ended"} => ~have_video_source_
  /\ vdec_.on => surf_pool_ = "open" /\ (have_video_source_ \/ runner_pc = "destroyDecoder")
  /\ surf_pool_ = "open" => have_video_source_ \/ runner_pc \in {"destroyDecoder", "destroyPool"}
  /\ surf_pool_ # "open" => inUse = {}

\* ... and has an end to report only after it was given one.
EosMarked(d) ==
  /\ \A i \in DOMAIN d.work : d.work[i] = "eos" => d.eos
  /\ ~d.on => d.work = <<>>

EosFresh ==
  /\ EosMarked(vdec_)
  /\ receive_eos_ /\ vdec_.on => vdec_.eos
  /\ runner_pc \in {"new", "reopen"} => ~receive_eos_

RunnerInv == RunnerTyped /\ PicturesOrdered /\ PicturesKept /\ SourceHeld /\ EosFresh

-----------------------------------------------------------------------------
\* What RunLoop, the decoder, the server and the repetitions do to the pictures of
\* a demo.
RunnerSafe == PictureInOnePlace /\ ShownInOrder /\ PoolOutlivesPictures /\ NoOldEos
==============================================================================
