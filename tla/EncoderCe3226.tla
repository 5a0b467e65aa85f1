---------------------------- MODULE EncoderCe3226 ----------------------------
(***************************************************************************)
(* EncoderCe3226, the encoder class of CE3226 between EncodeService and a  *)
(* channel of the service (module MpsCodec).  A frame of another size than *)
(* the encoder's is scaled into one surface, output_surf_, that is taken   *)
(* from a pool at the first such frame and used for all of them.  The      *)
(* channel keeps a reference to what it was sent and reads it later.       *)
(***************************************************************************)
EXTENDS Integers, Sequences

CONSTANTS
  EncSizes,   \* sizes <<width, height>> of frames
  EncSize,    \* width and height of create_params_
  EncRates,   \* bit rates asked for
  KBits,      \* 1024 in the code
  ChannelLen, \* frames the channel holds
  MaxFrames   \* bound on the frames of a stream

ASSUME EncoderCe3226Constants ==
  /\ EncSize \in EncSizes /\ EncRates \subseteq Nat /\ KBits \in Nat \ {0}
  /\ ChannelLen \in Nat \ {0} /\ MaxFrames \in Nat

VARIABLES
  venc_,         \* the channel: "none", "open", "eos", "closed"; "refused" by Create
  encFrame,      \* number and size of the frame SendFrame was called with, or NoFrame
  nframes,       \* frames so far
  output_surf_,  \* there is one
  encPools,      \* pools that live, and calls that failed after making one
  scaled,        \* the frame output_surf_ holds, 0 at first
  chan,          \* frames in the channel: number, size, surface, scaling failed
  encoded        \* what was encoded: number, and the frame that was read

encoderVars == <<venc_, encFrame, nframes, output_surf_, encPools, scaled, chan, encoded>>

NoFrame == <<0, 0>>

EncoderCe3226Init ==
  /\ venc_ = "none" /\ encFrame = NoFrame /\ nframes = 0
  /\ output_surf_ = FALSE /\ encPools = [live |-> 0, unused |-> 0] /\ scaled = 0
  /\ chan = <<>> /\ encoded = <<>>

-----------------------------------------------------------------------------
(* EncoderCe3226::Create and Destroy *)

BitrateOK(rate) == rate \div KBits >= 10 /\ rate \div KBits <= 800000

CreateEncoder(type, rate, free) ==
  /\ venc_ = "none"
  /\ venc_' = IF type # "INVALID" /\ BitrateOK(rate) /\ free THEN "open" ELSE "refused"
  /\ UNCHANGED <<encFrame, nframes, output_surf_, encPools, scaled, chan, encoded>>

\* EncodeService::Destroy then deletes the encoder, which frees the surface and
\* the pool it knows of, the last one.
DestroyEncoder ==
  /\ venc_ \in {"open", "eos"} /\ encFrame = NoFrame
  /\ venc_' = "closed" /\ chan' = <<>>
  /\ output_surf_' = FALSE
  /\ encPools' = [encPools EXCEPT !.live = IF @ = 0 THEN 0 ELSE @ - 1]
  /\ UNCHANGED <<encFrame, nframes, scaled, encoded>>

-----------------------------------------------------------------------------
(* EncoderCe3226::SendFrame *)

SendFrame(size) ==
  /\ venc_ \in {"open", "eos"} /\ encFrame = NoFrame /\ nframes < MaxFrames
  /\ encFrame' = size
  /\ nframes' = nframes + 1
  /\ UNCHANGED <<venc_, output_surf_, encPools, scaled, chan, encoded>>

SendEosFrame ==
  /\ venc_ = "open" /\ encFrame = NoFrame
  /\ venc_' = "eos"
  /\ UNCHANGED <<encFrame, nframes, output_surf_, encPools, scaled, chan, encoded>>

\* VEncSendFrame; when it fails, as it does after the end of the stream,
\* SendFrame returns -1.
ToChannel(f) ==
  /\ \/ venc_ = "open" /\ Len(chan) < ChannelLen /\ chan' = Append(chan, f)
     \/ UNCHANGED chan
  /\ encFrame' = NoFrame

SameSize == encFrame = EncSize

\* No need to scale.
SendDirect ==
  /\ encFrame # NoFrame /\ SameSize
  /\ ToChannel([n |-> nframes, size |-> encFrame, own |-> TRUE, failed |-> FALSE])
  /\ UNCHANGED <<venc_, nframes, output_surf_, encPools, scaled, encoded>>

NeedsScratch == encFrame # NoFrame /\ ~SameSize /\ ~output_surf_

\* CnedkBufPoolCreate and CnedkBufSurfaceCreateFromPool; after a failure SendFrame
\* returns -1, and the next call makes another pool.
CreateScratch(pool, surface) ==
  /\ NeedsScratch
  /\ output_surf_' = (pool /\ surface)
  /\ encPools' = [live |-> encPools.live + (IF pool THEN 1 ELSE 0),
                  unused |-> encPools.unused + (IF pool /\ ~surface THEN 1 ELSE 0)]
  /\ encFrame' = IF pool /\ surface THEN encFrame ELSE NoFrame
  /\ UNCHANGED <<venc_, nframes, scaled, chan, encoded>>

\* Mutant: the frame is scaled when the surface is new.
VguScaleCscOnce(ok) == scaled' = IF ok /\ scaled = 0 THEN nframes ELSE scaled

\* MpsService::VguScaleCsc, the result of which nobody looks at.
VguScaleCsc(ok) == scaled' = IF ok THEN nframes ELSE scaled

SendScaled(ok) ==
  /\ encFrame # NoFrame /\ ~SameSize /\ output_surf_
  /\ VguScaleCsc(ok)
  /\ ToChannel([n |-> nframes, size |-> EncSize, own |-> FALSE, failed |-> ~ok])
  /\ UNCHANGED <<venc_, nframes, output_surf_, encPools, encoded>>

\* The channel reads the surface of its oldest frame; OnFrameBits passes it on.
EncodeFrame ==
  LET f == Head(chan) IN
  /\ chan # <<>>
  /\ encoded' = Append(encoded, [n |-> f.n, from |-> IF f.own THEN f.n ELSE scaled, failed |-> f.failed])
  /\ chan' = Tail(chan)
  /\ UNCHANGED <<venc_, encFrame, nframes, output_surf_, encPools, scaled>>

EncoderCe3226Next ==
  \/ \E type \in {"H264", "INVALID"}, rate \in EncRates, free \in BOOLEAN : CreateEncoder(type, rate, free)
  \/ \E size \in EncSizes : SendFrame(size)
  \/ SendEosFrame \/ SendDirect \/ DestroyEncoder \/ EncodeFrame
  \/ \E pool, surface \in BOOLEAN : (surface => pool) /\ CreateScratch(pool, surface)
  \/ \E ok \in BOOLEAN : SendScaled(ok)

EncoderCe3226Spec == EncoderCe3226Init /\ [][EncoderCe3226Next]_encoderVars

-----------------------------------------------------------------------------
(* Properties *)

\* Whatever the application sends, the channel gets frames of its own size.
ChannelGetsItsSize == \A k \in DOMAIN chan : chan[k].size = EncSize

\* A stream uses one pool, however many frames are scaled, and it is gone with
\* the encoder, but for the pools of calls that then got no surface: the next
\* call forgets them.
OneScratchPool == encPools.live <= encPools.unused + IF venc_ = "closed" THEN 0 ELSE 1

\* Every frame is encoded once, in the order of sending, and from its own picture,
\* or, when it was scaled, from that of a later frame that was scaled over it
\* before the channel read it: never from an older one, unless the scaling failed.
NoOlderPicture ==
  /\ \A k \in DOMAIN encoded : encoded[k].from >= encoded[k].n \/ encoded[k].failed
  /\ \A j, k \in DOMAIN encoded : j < k => encoded[j].n < encoded[k].n

-----------------------------------------------------------------------------
(* Parts of the inductive invariant of UnitsProofs *)

ChannelFrames == [n : Nat, size : EncSizes, own : BOOLEAN, failed : BOOLEAN]
EncodedFrames == [n : Nat, from : Nat, failed : BOOLEAN]

EncoderTyped ==
  /\ venc_ \in {"none", "open", "eos", "closed", "refused"}
  /\ nframes \in Nat /\ scaled \in Nat /\ output_surf_ \in BOOLEAN
  /\ encPools \in [live : Nat, unused : Nat]
  /\ chan \in Seq(ChannelFrames) /\ encoded \in Seq(EncodedFrames)

\* Every pool is the one of output_surf_ or one that a failed call left.
ScratchCounted ==
  IF venc_ = "closed"
  THEN encFrame = NoFrame /\ encPools.live <= encPools.unused
  ELSE encPools.live = encPools.unused + (IF output_surf_ THEN 1 ELSE 0)

\* A frame that SendFrame is busy with is newer than all that were sent.
Sent(n) == n <= nframes /\ (encFrame # NoFrame => n < nframes)

ChannelOrdered ==
  /\ \A k \in DOMAIN chan : chan[k].size = EncSize /\ Sent(chan[k].n)
  /\ \A j, k \in DOMAIN chan : j < k => chan[j].n < chan[k].n

\* output_surf_ holds the frame of a scaled entry or a later one.
ScratchFresh ==
  /\ scaled <= nframes
  /\ \A k \in DOMAIN chan : ~chan[k].own /\ ~chan[k].failed => chan[k].n <= scaled

EncodedOrdered ==
  \A j \in DOMAIN encoded :
    /\ Sent(encoded[j].n)
    /\ \A k \in DOMAIN chan : encoded[j].n < chan[k].n

ScalingInv ==
  EncoderTyped /\ ScratchCounted /\ ChannelOrdered /\ ScratchFresh /\ EncodedOrdered /\ NoOlderPicture

-----------------------------------------------------------------------------
\* The channel gets frames of its size, encoded from their own picture or from a
\* later one that was scaled over it, and the encoder keeps one pool.
ScalingSafe == ChannelGetsItsSize /\ OneScratchPool /\ NoOlderPicture
==============================================================================
