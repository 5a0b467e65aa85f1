------------------------------ MODULE Encoder ------------------------------
(***************************************************************************)
(* The encode service on MLU370 and MLU590: EncodeService over             *)
(* EncoderMlu370 or EncoderMlu590 over the cncodec library.                *)
(*                                                                         *)
(* The library owns input_buf_num input buffers.  SendFrame takes one from *)
(* cnframe_queue_ (buffers left over by a call that failed) or from the    *)
(* library, fills it, and sends it; the library encodes on its own thread, *)
(* takes the buffer back and reports packets through                       *)
(* EncoderEventCallback.  One application thread sends and destroys.       *)
(* The library is external: it may time out or refuse a frame, and refuses *)
(* every frame after the end of the stream.                                *)
(***************************************************************************)
EXTENDS Integers, Sequences, FiniteSets, Sublists

CONSTANTS
  Platforms,    \* which of "MLU370" and "MLU590" the library is built for
  Bufs,         \* the input buffers of the library
  MaxFrames,    \* bound on the calls of SendFrame with a picture
  Sizes         \* data_size of pictures in system memory

None == "none"

ASSUME EncoderConstants ==
  /\ Platforms \subseteq {"MLU370", "MLU590"}
  /\ IsFiniteSet(Bufs) /\ Cardinality(Bufs) >= 3 /\ None \notin Bufs
  /\ MaxFrames \in Nat \ {0} /\ Sizes \subseteq Nat \ {0}

Params == [type : {"H264", "JPEG", "INVALID"}, nv : BOOLEAN, callbacks : BOOLEAN,
           device : BOOLEAN, input_buf_num : {0, Cardinality(Bufs)}]

\* A picture: its number, 0 if it is in device memory or else its size.
Pictures == [n : 1 .. MaxFrames, size : {0} \cup Sizes]
NoPicture == [n |-> 1, size |-> 0]

VARIABLES
  platform, params,
  apc, pic, cn_frame, nframes,          \* the application and its SendFrame
  created_, eos_sent_, eos_promise_, cnframe_queue_, frame_count_,
  src_mlu_, src_size_,                  \* src_bgr_mlu_ or src_yuv_mlu_ and size
  first_frame_, head_pkg_,
  avail, work, cpc, out,                \* the library
  packets, eoscalls,                    \* what the application got
  overrun, nomemory, usedfreed,         \* a picture ran over the scratch memory; an
                                        \* allocation failed; what was freed was used
  gaveup, crashed, ended

app == <<apc, pic, cn_frame, nframes>>
flags == <<created_, eos_sent_, eos_promise_>>
memory == <<src_mlu_, src_size_, nomemory>>
scratch == <<memory, overrun, usedfreed>>
header == <<first_frame_, head_pkg_>>
codec == <<avail, work, cpc, out>>
seen == <<packets, eoscalls>>
ends == <<gaveup, crashed, ended>>
vars == <<platform, params, app, flags, cnframe_queue_, frame_count_, scratch,
          header, codec, seen, ends>>

Eos == [n |-> 0, buf |-> None]
Jobs == [n : 1 .. MaxFrames, buf : Bufs]
\* Packets of the library: the n-th frame, and the parameter sets before a frame.
Bits == [kind : {"head", "frame"}, n : 1 .. MaxFrames]
NoBits == [kind |-> "none", n |-> 0]

TypeOK ==
  /\ platform \in Platforms /\ params \in Params
  /\ apc \in {"start", "refused", "open", "transform", "send", "flush", "waiteos",
              "join", "closed"}
  /\ pic \in Pictures /\ cn_frame \in Bufs \cup {None} /\ nframes \in 0 .. MaxFrames
  /\ created_ \in BOOLEAN /\ eos_sent_ \in BOOLEAN /\ first_frame_ \in BOOLEAN
  /\ gaveup \in BOOLEAN /\ crashed \in BOOLEAN
  /\ overrun \in BOOLEAN /\ nomemory \in BOOLEAN /\ usedfreed \in BOOLEAN
  /\ eos_promise_ \in {"null", "unset", "set"}
  /\ cnframe_queue_ \in Seq(Jobs) /\ Len(cnframe_queue_) <= 2 * MaxFrames
  /\ frame_count_ \in 0 .. 2 * MaxFrames
  /\ src_mlu_ \in {"null", "live", "freed"} /\ src_size_ \in {0} \cup Sizes
  /\ head_pkg_ \in Bits \cup {NoBits}
  /\ avail \in SUBSET Bufs /\ work \in Seq(Jobs \cup {Eos})
  /\ cpc \in {"idle", "eos"} /\ out \in Seq(Bits)
  /\ packets \in Seq(Bits) /\ eoscalls \in 0 .. 1
  /\ ended \in {"no", "drained", "early"}

Init ==
  /\ platform \in Platforms /\ params \in Params
  /\ apc = "start" /\ pic = NoPicture /\ cn_frame = None /\ nframes = 0
  /\ created_ = FALSE /\ eos_sent_ = FALSE /\ eos_promise_ = "null"
  /\ cnframe_queue_ = <<>> /\ frame_count_ = 0
  /\ src_mlu_ = "null" /\ src_size_ = 0
  /\ first_frame_ = TRUE /\ head_pkg_ = NoBits
  /\ avail = {} /\ work = <<>> /\ cpc = "idle" /\ out = <<>>
  /\ packets = <<>> /\ eoscalls = 0
  /\ overrun = FALSE /\ nomemory = FALSE /\ usedfreed = FALSE
  /\ gaveup = FALSE /\ crashed = FALSE /\ ended = "no"

-----------------------------------------------------------------------------
(* EncodeService::Create.                                                   *)

CheckParams(p) == p.type # "INVALID" /\ p.callbacks /\ p.device

\* What Create itself refuses: the color format, and on MLU590 all but JPEG.
CreateAccepts370(p) == p.nv
CreateAccepts590(p) == p.type = "JPEG" /\ p.nv
Accepts(p) ==
  CheckParams(p) /\ IF platform = "MLU370" THEN CreateAccepts370(p) ELSE CreateAccepts590(p)

Refused ==
  /\ apc = "start" /\ ~Accepts(params)
  /\ apc' = "refused"
  /\ UNCHANGED <<platform, params, pic, cn_frame, nframes, flags, cnframe_queue_,
                 frame_count_, scratch, header, codec, seen, ends>>

\* At least three buffers are asked for.
InputBuffers(n) == IF n < 3 THEN 3 ELSE n

Create ==
  /\ apc = "start" /\ Accepts(params)
  /\ created_' = TRUE
  /\ avail' \in {B \in SUBSET Bufs : Cardinality(B) = InputBuffers(params.input_buf_num)}
  /\ apc' = "open"
  /\ UNCHANGED <<platform, params, pic, cn_frame, nframes, eos_sent_, eos_promise_,
                 cnframe_queue_, frame_count_, scratch, header, work, cpc, out,
                 seen, ends>>

-----------------------------------------------------------------------------
(* SendFrame with a picture.                                                *)

\* The picture SendFrame works on, in its buffer.
Job == [n |-> pic.n, buf |-> cn_frame]

\* RequestFrame: a buffer left over first, then one of the library.
RequestFrame(b) ==
  \/ /\ cnframe_queue_ # <<>> /\ b = Head(cnframe_queue_).buf
     /\ cnframe_queue_' = Tail(cnframe_queue_)
     /\ UNCHANGED avail
  \/ /\ cnframe_queue_ = <<>> /\ b \in avail
     /\ avail' = avail \ {b}
     /\ UNCHANGED cnframe_queue_

SendFrame(size, b) ==
  /\ apc = "open" /\ created_ /\ nframes < MaxFrames
  /\ RequestFrame(b)
  /\ nframes' = nframes + 1
  /\ pic' = [n |-> nframes + 1, size |-> size]
  /\ cn_frame' = b
  /\ apc' = "transform"
  /\ UNCHANGED <<platform, params, flags, frame_count_, scratch, header, work,
                 cpc, out, seen, ends>>

\* The scratch memory on the device does not hold a picture of the host.
TooSmall(size) == size # 0 /\ (src_mlu_ = "null" \/ src_size_ < size)

\* It is freed and allocated again; the pointer to what was freed, the size and the
\* flag stay as they were when the allocation fails.
Allocate(ok) ==
  /\ src_mlu_' = IF ok THEN "live" ELSE IF src_mlu_ = "null" THEN "null" ELSE "freed"
  /\ src_size_' = IF ok THEN pic.size ELSE src_size_
  /\ nomemory' = (nomemory \/ ~ok)

\* A picture of the host passes through the scratch memory.  What was freed is freed
\* once more when it is too small as well, and copied to when it is not.
UseScratch(ok) ==
  /\ IF TooSmall(pic.size) THEN Allocate(ok) ELSE ok /\ UNCHANGED memory
  /\ overrun' = (overrun \/ (ok /\ pic.size > src_size_'))
  /\ usedfreed' = (usedfreed \/ (pic.size # 0 /\ src_mlu_ = "freed"))

\* Transform succeeds: the picture is in cn_frame.
Transform ==
  /\ apc = "transform"
  /\ UseScratch(TRUE)
  /\ apc' = "send"
  /\ UNCHANGED <<platform, params, pic, cn_frame, nframes, flags, cnframe_queue_,
                 frame_count_, header, codec, seen, ends>>

\* A format is not supported, there is no memory, or a copy or the conversion fails.
\* The buffer is kept for the next call; MLU370 returns -1, MLU590 goes on and sends
\* the buffer as well.
TransformScratch == UNCHANGED scratch \/ \E ok \in BOOLEAN : UseScratch(ok)

TransformFails370 ==
  /\ platform = "MLU370"
  /\ apc' = "open" /\ cn_frame' = None

TransformFails590 ==
  /\ platform = "MLU590"
  /\ apc' = "send" /\ UNCHANGED cn_frame

TransformFails ==
  /\ apc = "transform"
  /\ TransformScratch
  /\ cnframe_queue_' = Append(cnframe_queue_, Job)
  /\ TransformFails370 \/ TransformFails590
  /\ UNCHANGED <<platform, params, pic, nframes, flags, frame_count_, header, codec,
                 seen, ends>>

Ready == created_ /\ ~eos_sent_

\* cncodecEncSendFrame takes the frame.
SendAccepted ==
  /\ apc = "send" /\ Ready
  /\ work' = Append(work, Job)
  /\ frame_count_' = frame_count_ + 1
  /\ apc' = "open" /\ cn_frame' = None
  /\ UNCHANGED <<platform, params, pic, nframes, flags, cnframe_queue_, scratch, header,
                 avail, cpc, out, seen, ends>>

\* Mutant: the buffer is not kept.
SendFailedLoses ==
  /\ apc = "send"
  /\ apc' = "open" /\ cn_frame' = None
  /\ UNCHANGED <<platform, params, pic, nframes, flags, cnframe_queue_, frame_count_,
                 scratch, header, codec, seen, ends>>

\* A timeout or a failure: the buffer is kept, SendFrame returns 0 all the same.
SendFailed ==
  /\ apc = "send"
  /\ cnframe_queue_' = Append(cnframe_queue_, Job)
  /\ apc' = "open" /\ cn_frame' = None
  /\ UNCHANGED <<platform, params, pic, nframes, flags, frame_count_, scratch,
                 header, codec, seen, ends>>

-----------------------------------------------------------------------------
(* SendFrame(nullptr), called by the application or by Destroy.             *)

\* The buffers left over are sent first, each as it is; those that the library
\* refuses are forgotten.
Flushed(refused) ==
  LET sent == Without([i \in 1 .. Len(cnframe_queue_) |-> i], refused)
  IN  [i \in 1 .. Len(sent) |-> cnframe_queue_[sent[i]]]

SendEos(refused, ok) ==
  /\ eos_sent_' = TRUE /\ eos_promise_' = "unset"
  /\ cnframe_queue_' = <<>>
  /\ work' = work \o Flushed(refused) \o (IF ok THEN <<Eos>> ELSE <<>>)
  /\ frame_count_' = frame_count_ + Len(Flushed(refused))
  /\ gaveup' = (gaveup \/ ~ok)

SendEosFrame(refused, ok) ==
  /\ apc = "open" /\ created_ /\ ~eos_sent_
  /\ SendEos(refused, ok)
  /\ UNCHANGED <<platform, params, app, created_, scratch, header, avail, cpc,
                 out, seen, crashed, ended>>

-----------------------------------------------------------------------------
(* EncodeService::Destroy.                                                  *)

DestroyBegin(refused, ok) ==
  /\ apc = "open" /\ created_
  /\ IF eos_sent_ THEN UNCHANGED <<eos_sent_, eos_promise_, cnframe_queue_, work,
                                   frame_count_, gaveup>>
                  ELSE SendEos(refused, ok)
  /\ apc' = "waiteos"
  /\ UNCHANGED <<platform, params, pic, cn_frame, nframes, created_, scratch,
                 header, avail, cpc, out, seen, crashed, ended>>

DestroyWait ==
  /\ apc = "waiteos" /\ eos_promise_ = "set"
  /\ eos_promise_' = "null"
  /\ apc' = "join"
  /\ UNCHANGED <<platform, params, pic, cn_frame, nframes, created_, eos_sent_,
                 cnframe_queue_, frame_count_, scratch, header, codec, seen, ends>>

\* cncodecEncDestroy joins the callback; the scratch memory is freed, once more if
\* it was already.
DestroyJoin ==
  /\ apc = "join" /\ cpc = "idle"
  /\ created_' = FALSE
  /\ src_mlu_' = "null"
  /\ usedfreed' = (usedfreed \/ src_mlu_ = "freed")
  /\ ended' = IF work = <<>> /\ eoscalls = 1 THEN "drained" ELSE "early"
  /\ work' = <<>> /\ avail' = {} /\ apc' = "closed"
  /\ UNCHANGED <<platform, params, pic, cn_frame, nframes, eos_sent_, eos_promise_,
                 cnframe_queue_, frame_count_, src_size_, nomemory, overrun, header,
                 cpc, out, seen, gaveup, crashed>>

-----------------------------------------------------------------------------
(* The library's thread.                                                    *)

\* One frame is encoded; parameter sets come before the first and may be repeated.
Encode(repeat) ==
  /\ cpc = "idle" /\ work # <<>> /\ Head(work) # Eos /\ out = <<>>
  /\ LET n == Head(work).n IN
       out' = (IF params.type = "H264" /\ (repeat \/ first_frame_)
               THEN <<[kind |-> "head", n |-> n]>> ELSE <<>>)
              \o <<[kind |-> "frame", n |-> n]>>
  /\ avail' = avail \cup {Head(work).buf}
  /\ work' = Tail(work)
  /\ UNCHANGED <<platform, params, app, flags, cnframe_queue_, frame_count_,
                 scratch, header, cpc, seen, ends>>

\* What one packet makes OnFrameBits hand to the application: the header that was
\* kept back goes out before the first frame.
Packages(b) ==
  IF first_frame_ /\ head_pkg_ # NoBits THEN <<head_pkg_, b>> ELSE <<b>>

\* EncoderMlu370::OnFrameBits: a header before the first frame is kept back.
OnFrameBits370 ==
  LET b == Head(out) IN
  /\ platform = "MLU370"
  /\ \/ /\ first_frame_ /\ b.kind = "head"
        /\ head_pkg_' = b
        /\ UNCHANGED <<packets, first_frame_>>
     \/ /\ ~(first_frame_ /\ b.kind = "head")
        /\ packets' = packets \o Packages(b)
        /\ first_frame_' = FALSE
        /\ UNCHANGED head_pkg_

\* EncoderMlu590::OnFrameBits: every packet is a key frame.
OnFrameBits590 ==
  /\ platform = "MLU590"
  /\ packets' = Append(packets, Head(out))
  /\ UNCHANGED header

OnFrameBits ==
  /\ out # <<>>
  /\ OnFrameBits370 \/ OnFrameBits590
  /\ out' = Tail(out)
  /\ UNCHANGED <<platform, params, app, flags, cnframe_queue_, frame_count_,
                 scratch, avail, work, cpc, eoscalls, ends>>

\* No memory for the packet, or it cannot be copied: it is lost.
OnFrameBitsFails ==
  /\ out # <<>>
  /\ out' = Tail(out)
  /\ UNCHANGED <<platform, params, app, flags, cnframe_queue_, frame_count_,
                 scratch, header, avail, work, cpc, seen, ends>>

\* Mutant: the promise is not fulfilled.
OnEosSilent ==
  /\ cpc = "idle" /\ out = <<>> /\ work # <<>> /\ Head(work) = Eos
  /\ work' = Tail(work)
  /\ cpc' = "eos"
  /\ UNCHANGED <<platform, params, app, flags, cnframe_queue_, frame_count_, scratch,
                 header, avail, out, seen, ends>>

\* CNCODEC_EVENT_EOS: the promise first, then the application's OnEos.
OnEos ==
  /\ cpc = "idle" /\ out = <<>> /\ work # <<>> /\ Head(work) = Eos
  /\ work' = Tail(work)
  /\ crashed' = (eos_promise_ # "unset")
  /\ eos_promise_' = IF eos_promise_ = "unset" THEN "set" ELSE eos_promise_
  /\ cpc' = "eos"
  /\ UNCHANGED <<platform, params, app, created_, eos_sent_, cnframe_queue_,
                 frame_count_, scratch, header, avail, out, seen, gaveup, ended>>

CallOnEos ==
  /\ cpc = "eos"
  /\ eoscalls' = eoscalls + 1
  /\ cpc' = "idle"
  /\ UNCHANGED <<platform, params, app, flags, cnframe_queue_, frame_count_,
                 scratch, header, avail, work, out, packets, ends>>

-----------------------------------------------------------------------------
Callback ==
  \/ \E r \in BOOLEAN : Encode(r)
  \/ OnFrameBits \/ OnFrameBitsFails \/ OnEos \/ CallOnEos

Sending == Transform \/ TransformFails \/ SendAccepted \/ SendFailed

Next ==
  \/ Refused \/ Create
  \/ \E size \in {0} \cup Sizes, b \in Bufs : SendFrame(size, b)
  \/ Sending
  \/ \E refused \in SUBSET DOMAIN cnframe_queue_, ok \in BOOLEAN :
       SendEosFrame(refused, ok) \/ DestroyBegin(refused, ok)
  \/ DestroyWait \/ DestroyJoin
  \/ Callback

Spec == Init /\ [][Next]_vars

\* A thread inside a call or a callback goes on; the library encodes what it took.
FairSpec ==
  Spec /\ WF_vars(Sending) /\ WF_vars(DestroyWait \/ DestroyJoin) /\ WF_vars(Callback)

-----------------------------------------------------------------------------
(* Properties *)

Places(b) ==
  (IF b \in avail THEN 1 ELSE 0) + (IF b = cn_frame THEN 1 ELSE 0)
  + Cardinality({i \in DOMAIN cnframe_queue_ : cnframe_queue_[i].buf = b})
  + Cardinality({i \in DOMAIN work : work[i].buf = b})

\* On MLU370 an input buffer is with the library, in the hand of SendFrame, or in
\* cnframe_queue_, never in two places: no picture overwrites one being encoded.
BufferInOnePlace == platform = "MLU370" => \A b \in Bufs : Places(b) <= 1

\* On MLU370 no input buffer is lost while the encoder is open, whatever fails:
\* a failed call leaves its buffer where the next one finds it.
NoBufferLost ==
  platform = "MLU370" /\ created_ /\ ~eos_sent_ =>
    Cardinality({b \in Bufs : Places(b) = 1}) = InputBuffers(params.input_buf_num)

\* The application gets the packets in the order of the frames, and the parameter
\* sets of a frame before the frame, although the first ones are kept back and
\* frames that failed are sent again at the end (MLU370).
PacketsInOrder ==
  platform = "MLU370" => \A i, j \in DOMAIN packets : i < j =>
    \/ packets[i].n < packets[j].n
    \/ packets[i].n = packets[j].n /\ packets[i].kind = "head"

\* The memory a picture is copied to on the device is large enough, whatever sizes
\* came before, and it is there.  The exception is the code's: when the device has no
\* memory for a larger picture, the scratch memory is gone but src_bgr_mlu_ and
\* bgr_mlu_alloc_ say that it is not, and the next picture of the old size or a
\* smaller one is copied to what was freed.
ScratchCovers ==
  /\ ~overrun
  /\ src_mlu_ = "freed" \/ usedfreed => nomemory

\* Destroy returns after the last packet and after OnEos.
DestroyDrains == ended # "early" /\ ~crashed

\* Destroy returns, unless the library refused the end of the stream.
DestroyReturns == apc \in {"waiteos", "join"} ~> apc = "closed" \/ gaveup

-----------------------------------------------------------------------------
(* Parts of the inductive invariant of CodecProofs *)

\* Every call leaves at most two buffers over or accepted, those it still may
\* leave included.
Pending == IF apc = "transform" THEN 2 ELSE IF apc = "send" THEN 1 ELSE 0
Counted == frame_count_ + Len(cnframe_queue_) + Pending <= 2 * nframes

\* The library has reported the end of the stream.
EosReported == cpc = "eos" \/ eoscalls = 1

\* The end of the stream on its way: not sent, in the library, reported.
EosOnce ==
  /\ created_ <=> apc \notin {"start", "refused", "closed"}
  /\ apc \in {"waiteos", "join", "closed"} => eos_sent_
  /\ apc \in {"start", "refused"} => work = <<>> /\ cnframe_queue_ = <<>> /\ ~eos_sent_
  /\ ~eos_sent_ => /\ ~EosReported /\ eos_promise_ = "null"
                   /\ \A i \in DOMAIN work : work[i] # Eos
  /\ \A i \in DOMAIN work : work[i] = Eos =>
       i = Len(work) /\ ~EosReported /\ eos_promise_ = "unset"
  /\ cpc = "eos" => eoscalls = 0
  /\ EosReported => work = <<>>
  /\ eos_promise_ = "set" => EosReported
  /\ apc = "join" => EosReported
  /\ apc = "closed" => work = <<>>

\* The buffer SendFrame has in its hand.
InHand ==
  /\ cn_frame # None <=> apc \in {"transform", "send"}
  /\ apc \in {"transform", "send"} => pic.n = nframes

\* On MLU370 at most one buffer is left over, that of the last picture, and the
\* next call takes it.
LeftOver ==
  platform = "MLU370" =>
    /\ Len(cnframe_queue_) <= 1
    /\ cn_frame # None => cnframe_queue_ = <<>>
    /\ cnframe_queue_ # <<>> => cnframe_queue_[1].n = nframes

\* Buffers outside the library's stock, each in one place.
BufsIn(s) == {s[i].buf : i \in DOMAIN s} \ {None}
InOnce(s) == \A i, j \in DOMAIN s : s[i].buf = s[j].buf => i = j
Apart ==
  platform = "MLU370" =>
    /\ InOnce(work)
    /\ avail \cap BufsIn(work) = {} /\ avail \cap BufsIn(cnframe_queue_) = {}
    /\ BufsIn(work) \cap BufsIn(cnframe_queue_) = {}
    /\ cn_frame \notin avail \cup BufsIn(work)

\* No buffer is missing before the end of the stream.
InUse == avail \cup BufsIn(work) \cup BufsIn(cnframe_queue_) \cup ({cn_frame} \ {None})
AllThere ==
  platform = "MLU370" /\ created_ /\ ~eos_sent_ =>
    Cardinality(InUse) = InputBuffers(params.input_buf_num)

\* The last picture that left SendFrame on MLU370, but for one left over.
LastPicture == IF cn_frame # None \/ cnframe_queue_ # <<>> THEN nframes - 1 ELSE nframes

\* Where a packet stands in the stream, and packets in that order.
Rank(b) == 2 * b.n + (IF b.kind = "frame" THEN 1 ELSE 0)
Sorted(s) == \A i, j \in DOMAIN s : i < j => Rank(s[i]) < Rank(s[j])

\* The parameter sets that OnFrameBits will hand out before the first frame.
KeptBack == first_frame_ /\ head_pkg_ # NoBits

\* Packets come one after the other, those kept back first, up to a picture.
Emitted(last) ==
  /\ Sorted(out) /\ Sorted(packets)
  /\ \A i \in DOMAIN packets, j \in DOMAIN out : Rank(packets[i]) < Rank(out[j])
  /\ \A i \in DOMAIN out : out[i].n <= last
  /\ \A i \in DOMAIN packets : packets[i].n <= last
  /\ first_frame_ => packets = <<>>
  /\ KeptBack => /\ head_pkg_.kind = "head" /\ head_pkg_.n <= last
                 /\ \A i \in DOMAIN out : Rank(head_pkg_) < Rank(out[i])

\* Pictures in the library come after the packets, one after the other.
Follows(w, last) ==
  /\ \A i \in DOMAIN w : w[i].n <= last
  /\ \A i, j \in DOMAIN w : i < j /\ w[j] # Eos => w[i].n < w[j].n
  /\ \A j \in DOMAIN w : w[j] # Eos =>
       /\ \A i \in DOMAIN out : out[i].n < w[j].n
       /\ \A i \in DOMAIN packets : packets[i].n < w[j].n
       /\ KeptBack => head_pkg_.n < w[j].n

Flowing == platform = "MLU370" => Emitted(LastPicture) /\ Follows(work, LastPicture)

EncoderInv ==
  TypeOK /\ Counted /\ EosOnce /\ InHand /\ LeftOver /\ Apart /\ AllThere /\ Flowing
  /\ ScratchCovers /\ DestroyDrains

\* The stream of an encoder: no buffer is lost or written while it is encoded,
\* the scratch memory suffices, and the packets come out in order and before the
\* end of the stream, whatever fails in between; but for an allocation of the scratch
\* memory, after which the code uses what it freed (ScratchCovers).
StreamSafe == TypeOK /\ BufferInOnePlace /\ NoBufferLost /\ PacketsInOrder /\ ScratchCovers /\ DestroyDrains
====
