------------------------------ MODULE Decoder ------------------------------
(***************************************************************************)
(* The decode service on MLU370 and MLU590: DecodeService over             *)
(* DecoderMlu370 or DecoderMlu590 over the cncodec library.                *)
(*                                                                         *)
(* An application thread creates the decoder, sends packets, and destroys  *)
(* it.  The library decodes on a thread of its own and reports through     *)
(* DecoderEventCallback.  The library is external: it keeps what it was    *)
(* sent in order (work), may refuse a packet, time out, find a packet      *)
(* corrupt or unsupported, and after an unsupported stream or parameters   *)
(* it refused it may stop (halted) and never report the end of the stream. *)
(* cncodecDecDestroy waits for the callback that is running.               *)
(***************************************************************************)
EXTENDS Integers, Sequences, FiniteSets

CONSTANTS
  Platforms,   \* which of "MLU370" and "MLU590" the library is built for
  MaxPackets,  \* bound on the packets of a stream
  Sizes        \* picture sizes: a positive number stands for width and height

ASSUME DecoderConstants ==
  /\ Platforms \subseteq {"MLU370", "MLU590"}
  /\ MaxPackets \in Nat \ {0} /\ Sizes \subseteq Nat \ {0}
  /\ \E s \in Sizes : \A t \in Sizes : t <= s

DECODE_MAX_TRY_SEND_TIME == 3
JpegMaxSize == CHOOSE s \in Sizes : \A t \in Sizes : t <= s

\* What CnedkVdecCreateParams says: codec, whether the color format, the function
\* pointers and the device are acceptable, the largest picture (0: not given).
Params == [type : {"H264", "JPEG", "INVALID"}, nv : BOOLEAN, callbacks : BOOLEAN,
           device : BOOLEAN, max : {0} \cup Sizes]

VARIABLES
  platform, params,
  apc,                               \* the application
  tries, sending,                    \* SendStream: attempts left, packet
  nsent,                             \* packets the library has accepted
  created_, eos_sent_, error_flag_, eos_promise_,
  receive_seq_time_, max_width, configured,
  cpc, work, cursize, halted,        \* the library and its callback thread
  delivered, eoscalls, errors, lost, \* what the application has seen
  gaveup, crashed,                   \* SetEos failed; a null promise was used
  ended                              \* how Destroy found the library

app == <<apc, tries, sending, nsent>>
flags == <<created_, eos_sent_, error_flag_, eos_promise_>>
geometry == <<receive_seq_time_, max_width, configured>>
codec == <<cpc, work, cursize, halted>>
seen == <<delivered, eoscalls, errors, lost>>
vars == <<platform, params, app, flags, geometry, codec, seen, gaveup, crashed, ended>>

Packets == [n : 1 .. MaxPackets, size : Sizes]
NoPacket == [n |-> 1, size |-> JpegMaxSize]
Eos == [n |-> 0, size |-> 0]

\* The surface holds the picture, copied or transformed to the surface's size;
\* when that fails it holds what it held before (size 0).
Filled(p, ok) == [n |-> p.n, size |-> IF ok THEN p.size ELSE 0]

Frames == {Filled(p, ok) : p \in Packets, ok \in BOOLEAN}

TypeOK ==
  /\ platform \in Platforms /\ params \in Params
  /\ apc \in {"start", "open", "send", "destroy", "waiteos", "join", "closed", "refused"}
  /\ tries \in 0 .. DECODE_MAX_TRY_SEND_TIME /\ sending \in Packets
  /\ nsent \in 0 .. MaxPackets
  /\ created_ \in BOOLEAN /\ eos_sent_ \in BOOLEAN /\ error_flag_ \in BOOLEAN
  /\ configured \in BOOLEAN /\ halted \in BOOLEAN
  /\ gaveup \in BOOLEAN /\ crashed \in BOOLEAN
  /\ eos_promise_ \in {"null", "unset", "set"}
  /\ receive_seq_time_ \in Nat /\ max_width \in {0} \cup Sizes
  /\ cpc \in {"idle", "frame", "eos"} /\ work \in Seq(Packets \cup {Eos})
  /\ cursize \in {0} \cup Sizes
  /\ ended \in {"no", "drained", "error", "early"}
  /\ delivered \in Seq(Frames) /\ eoscalls \in 0 .. 1
  /\ errors \in BOOLEAN /\ lost \in Nat

Init ==
  /\ platform \in Platforms /\ params \in Params
  /\ apc = "start" /\ tries = 0 /\ sending = NoPacket /\ nsent = 0
  /\ created_ = FALSE /\ eos_sent_ = FALSE /\ error_flag_ = FALSE
  /\ eos_promise_ = "null"
  /\ receive_seq_time_ = 0 /\ max_width = 0 /\ configured = FALSE
  /\ cpc = "idle" /\ work = <<>> /\ cursize = 0 /\ halted = FALSE
  /\ delivered = <<>> /\ eoscalls = 0 /\ errors = FALSE /\ lost = 0
  /\ gaveup = FALSE /\ crashed = FALSE /\ ended = "no"

-----------------------------------------------------------------------------
(* DecodeService::Create.                                                   *)

CheckParams(p) == p.type # "INVALID" /\ p.nv /\ p.callbacks /\ p.device

\* One decoder class is compiled in; no platform information is no decoder.
CreateDecoder(found) == found

ResetFlags ==
  /\ eos_sent_' = FALSE /\ error_flag_' = FALSE

Refused ==
  /\ apc = "start"
  /\ ~CheckParams(params) \/ ~CreateDecoder(FALSE)
  /\ apc' = "refused"
  /\ UNCHANGED <<platform, params, tries, sending, nsent, flags, geometry, codec,
                 seen, gaveup, crashed, ended>>

\* Decoder::Create after CheckParams.  A JPEG decoder is configured at once;
\* SetDecParams returns true or false, neither is negative, so Create succeeds
\* whether the library took the parameters or not.
Create(accepted) ==
  /\ apc = "start" /\ CheckParams(params) /\ CreateDecoder(TRUE)
  /\ created_' = TRUE /\ ResetFlags
  /\ max_width' = IF params.type = "JPEG" /\ params.max = 0 THEN JpegMaxSize ELSE params.max
  /\ configured' = (params.type = "JPEG" /\ accepted)
  /\ apc' = "open"
  /\ UNCHANGED <<platform, params, tries, sending, nsent, eos_promise_,
                 receive_seq_time_, codec, seen, gaveup, crashed, ended>>

-----------------------------------------------------------------------------
(* Decoder::SendStream.                                                     *)

\* A packet: refused after the end of the stream or an error, else tried up to
\* DECODE_MAX_TRY_SEND_TIME times.
SendStream(s) ==
  /\ apc = "open" /\ created_ /\ nsent < MaxPackets
  /\ ~eos_sent_ /\ ~error_flag_
  /\ sending' = [n |-> nsent + 1, size |-> s]
  /\ tries' = DECODE_MAX_TRY_SEND_TIME
  /\ apc' = "send"
  /\ UNCHANGED <<platform, params, nsent, flags, geometry, codec, seen, gaveup, crashed, ended>>

\* Mutant: the loop goes on after the library has taken the packet.
SendAcceptedGoesOn ==
  /\ apc = "send" /\ tries > 0
  /\ work' = Append(work, sending)
  /\ nsent' = sending.n
  /\ tries' = tries - 1
  /\ apc' = IF tries = 1 THEN "open" ELSE "send"
  /\ UNCHANGED <<platform, params, sending, flags, geometry, cpc, cursize, halted,
                 seen, gaveup, crashed, ended>>

\* cncodecDecSendStream returns CNCODEC_SUCCESS.
SendAccepted ==
  /\ apc = "send" /\ tries > 0
  /\ work' = Append(work, sending)
  /\ nsent' = sending.n
  /\ tries' = 0 /\ apc' = "open"
  /\ UNCHANGED <<platform, params, sending, flags, geometry, cpc, cursize, halted,
                 seen, gaveup, crashed, ended>>

\* It times out: the next attempt, or SendStream returns -2.
SendTimeout ==
  /\ apc = "send" /\ tries > 0
  /\ tries' = tries - 1
  /\ apc' = IF tries = 1 THEN "open" ELSE "send"
  /\ UNCHANGED <<platform, params, sending, nsent, flags, geometry, codec, seen,
                 gaveup, crashed, ended>>

\* A bad stream is reported through OnError by the MLU370 decoder only.
BadStream370 == platform = "MLU370" /\ errors' = TRUE
BadStream590 == platform = "MLU590" /\ UNCHANGED errors

SendFailed ==
  /\ apc = "send" /\ tries > 0
  /\ BadStream370 \/ BadStream590 \/ UNCHANGED errors
  /\ tries' = 0 /\ apc' = "open"
  /\ UNCHANGED <<platform, params, sending, nsent, flags, geometry, codec,
                 delivered, eoscalls, lost, gaveup, crashed, ended>>

\* The packet without bits; cncodecDecSetEos may fail, which is only logged.
SetEos(ok) ==
  /\ eos_sent_' = TRUE
  /\ eos_promise_' = "unset"
  /\ work' = IF ok THEN Append(work, Eos) ELSE work
  /\ gaveup' = (gaveup \/ ~ok)

SendEos(ok) ==
  /\ apc = "open" /\ created_ /\ ~eos_sent_
  /\ SetEos(ok)
  /\ UNCHANGED <<platform, params, app, created_, error_flag_, geometry, cpc, cursize,
                 halted, seen, crashed, ended>>

-----------------------------------------------------------------------------
(* DecodeService::Destroy.                                                  *)

\* error_flag_ and eos_sent_ are tested; the end of the stream is sent in a
\* later step, when the library may have reported an error.
DestroyBegin ==
  /\ apc = "open" /\ created_
  /\ apc' = IF ~error_flag_ /\ ~eos_sent_ THEN "destroy"
            ELSE IF eos_sent_ THEN "waiteos" ELSE "join"
  /\ UNCHANGED <<platform, params, tries, sending, nsent, flags, geometry, codec, seen,
                 gaveup, crashed, ended>>

DestroySendEos(ok) ==
  /\ apc = "destroy"
  /\ SetEos(ok)
  /\ apc' = "waiteos"
  /\ UNCHANGED <<platform, params, tries, sending, nsent, created_, error_flag_, geometry,
                 cpc, cursize, halted, seen, crashed, ended>>

DestroyWait ==
  /\ apc = "waiteos" /\ eos_promise_ = "set"
  /\ eos_promise_' = "null"
  /\ apc' = "join"
  /\ UNCHANGED <<platform, params, tries, sending, nsent, created_, eos_sent_, error_flag_,
                 geometry, codec, seen, gaveup, crashed, ended>>

\* cncodecDecDestroy: the running callback ends, the rest of the work is dropped.
DestroyJoin ==
  /\ apc = "join" /\ cpc = "idle"
  /\ ResetFlags /\ created_' = FALSE
  /\ work' = <<>> /\ cursize' = 0 /\ halted' = TRUE /\ cpc' = "idle"
  /\ apc' = "closed"
  /\ ended' = IF work = <<>> /\ eoscalls = 1 THEN "drained"
              ELSE IF error_flag_ THEN "error" ELSE "early"
  /\ UNCHANGED <<platform, params, tries, sending, nsent, eos_promise_, geometry, seen,
                 gaveup, crashed>>

-----------------------------------------------------------------------------
(* The library's callback thread.                                           *)

Running == cpc = "idle" /\ ~halted /\ work # <<>>

\* A later sequence must fit the parameters the first one fixed.
Fits(s) == s <= max_width

\* OnError(-1) with error_flag_ set; the library may stop after it.
Fail ==
  /\ error_flag_' = TRUE
  /\ errors' = TRUE
  /\ halted' \in {halted, TRUE}

\* CNCODEC_EVENT_SEQUENCE, before the first picture of a new size.  The first
\* one fixes the parameters (accepted is what the library says to them).
ReceiveSequence(accepted) ==
  LET s == Head(work).size IN
  /\ Running /\ Head(work) # Eos /\ s # cursize
  /\ cursize' = s
  /\ receive_seq_time_' = receive_seq_time_ + 1
  /\ IF receive_seq_time_ > 0
     THEN /\ UNCHANGED <<max_width, configured>>
          /\ IF Fits(s) THEN UNCHANGED <<error_flag_, errors, halted>> ELSE Fail
     ELSE /\ max_width' = IF max_width # 0 THEN max_width ELSE s
          /\ configured' = accepted
          /\ IF accepted THEN UNCHANGED <<error_flag_, errors, halted>> ELSE Fail
  /\ UNCHANGED <<platform, params, app, created_, eos_sent_, eos_promise_, cpc, work,
                 delivered, eoscalls, lost, gaveup, crashed, ended>>

\* CNCODEC_EVENT_NEW_FRAME, in the three ways it ends.
FrameReady == Running /\ Head(work) # Eos /\ Head(work).size = cursize

\* GetBufSurf fails: OnError, without error_flag_.
FrameNoSurface ==
  /\ FrameReady
  /\ errors' = TRUE
  /\ work' = Tail(work)
  /\ UNCHANGED <<platform, params, app, flags, geometry, cpc, cursize, halted, delivered,
                 eoscalls, lost, gaveup, crashed, ended>>

\* The surface is not in device memory, and is lost.
FrameWrongMemory ==
  /\ FrameReady
  /\ lost' = lost + 1
  /\ work' = Tail(work)
  /\ UNCHANGED <<platform, params, app, flags, geometry, cpc, cursize, halted, delivered,
                 eoscalls, errors, gaveup, crashed, ended>>

\* OnFrame, even when the picture could not be copied.
FrameDelivered(ok) ==
  /\ FrameReady
  /\ delivered' = Append(delivered, Filled(Head(work), ok))
  /\ work' = Tail(work)
  /\ UNCHANGED <<platform, params, app, flags, geometry, cpc, cursize, halted, eoscalls,
                 errors, lost, gaveup, crashed, ended>>

\* CNCODEC_EVENT_STREAM_CORRUPT and unknown events are logged.
HandleStreamCorrupt ==
  /\ Running /\ Head(work) # Eos
  /\ work' = Tail(work)
  /\ UNCHANGED <<platform, params, app, flags, geometry, cpc, cursize, halted, seen, gaveup,
                 crashed, ended>>

HandleStreamNotSupport ==
  /\ Running /\ Head(work) # Eos
  /\ Fail
  /\ work' = Tail(work)
  /\ UNCHANGED <<platform, params, app, created_, eos_sent_, eos_promise_, geometry, cpc,
                 cursize, delivered, eoscalls, lost, gaveup, crashed, ended>>

\* Mutant: the promise is not fulfilled.
OnEosSilent ==
  /\ Running /\ Head(work) = Eos
  /\ work' = Tail(work)
  /\ cpc' = "eos"
  /\ UNCHANGED <<platform, params, app, flags, geometry, cursize, halted, seen, gaveup,
                 crashed, ended>>

\* CNCODEC_EVENT_EOS: the promise first, then the application's OnEos.
OnEos ==
  /\ Running /\ Head(work) = Eos
  /\ work' = Tail(work)
  /\ crashed' = (eos_promise_ # "unset")
  /\ eos_promise_' = IF eos_promise_ = "unset" THEN "set" ELSE eos_promise_
  /\ cpc' = "eos"
  /\ UNCHANGED <<platform, params, app, created_, eos_sent_, error_flag_, geometry,
                 cursize, halted, seen, gaveup, ended>>

CallOnEos ==
  /\ cpc = "eos"
  /\ eoscalls' = eoscalls + 1
  /\ cpc' = "idle"
  /\ UNCHANGED <<platform, params, app, flags, geometry, work, cursize, halted,
                 delivered, errors, lost, gaveup, crashed, ended>>

-----------------------------------------------------------------------------
Callback ==
  \/ \E accepted \in BOOLEAN : ReceiveSequence(accepted)
  \/ FrameNoSurface \/ FrameWrongMemory
  \/ \E ok \in BOOLEAN : FrameDelivered(ok)
  \/ HandleStreamCorrupt \/ HandleStreamNotSupport \/ OnEos \/ CallOnEos

Sending == SendAccepted \/ SendTimeout \/ SendFailed

Destroying == (\E ok \in BOOLEAN : DestroySendEos(ok)) \/ DestroyWait \/ DestroyJoin

Next ==
  \/ Refused
  \/ \E accepted \in BOOLEAN : Create(accepted)
  \/ \E s \in Sizes : SendStream(s)
  \/ Sending
  \/ \E ok \in BOOLEAN : SendEos(ok)
  \/ DestroyBegin \/ Destroying
  \/ Callback

Spec == Init /\ [][Next]_vars

\* A thread inside a call or a callback goes on, and the library goes through
\* what it was sent until it stops.
FairSpec == Spec /\ WF_vars(Sending) /\ WF_vars(Destroying) /\ WF_vars(Callback)

-----------------------------------------------------------------------------
(* Properties *)

\* Frames are handed to OnFrame in the order of their packets and at most once,
\* though SendStream retries a packet after a timeout.
FramesInOrder ==
  \A i, j \in DOMAIN delivered : i < j => delivered[i].n < delivered[j].n

\* The end of the stream is the last thing the library is sent, and it is sent
\* once, whether by the application or by Destroy (eos_sent_).
NothingAfterEos ==
  \A i \in DOMAIN work : work[i] = Eos => i = Len(work) /\ eoscalls = 0

\* OnEos always finds the promise that Destroy waits for.
PromiseThere == ~crashed

\* When Destroy returns every packet was decoded and OnEos was called, except
\* after an error of the decoder: then the rest of the stream may be dropped.
DestroyDrains == ended # "early"

\* As long as no error was raised, the parameters given to the library cover the
\* sequence that is being decoded, after any change of resolution.
SequenceCovered ==
  receive_seq_time_ > 1 /\ ~error_flag_ /\ apc # "closed" => cursize <= max_width

\* Destroy returns, unless the library was asked for the end of the stream and
\* stopped before reporting it.
DestroyReturns ==
  apc \in {"destroy", "waiteos", "join"} ~> apc = "closed" \/ halted \/ gaveup

-----------------------------------------------------------------------------
(* Parts of the inductive invariant of DecoderProofs *)

\* Packets are numbered as they are accepted, work through the library in that
\* order, and the one being sent is the next.
Numbered ==
  /\ apc = "send" => sending.n = nsent + 1
  /\ \A i \in DOMAIN work : work[i].n <= nsent
  /\ \A i, j \in DOMAIN work : i < j /\ work[j] # Eos => work[i].n < work[j].n
  /\ \A i \in DOMAIN delivered : delivered[i].n <= nsent
  /\ \A i \in DOMAIN delivered, j \in DOMAIN work :
       work[j] # Eos => delivered[i].n < work[j].n

\* The library has reported the end of the stream.
EosReported == cpc = "eos" \/ eoscalls = 1

\* The end of the stream on its way: not sent, in the library, reported.
EosOnce ==
  /\ apc \in {"start", "send", "destroy"} => ~eos_sent_
  /\ ~eos_sent_ /\ apc # "closed" =>
       /\ ~EosReported /\ eos_promise_ = "null"
       /\ \A i \in DOMAIN work : work[i] # Eos
  /\ \A i \in DOMAIN work : work[i] = Eos =>
       i = Len(work) /\ ~EosReported /\ eos_promise_ = "unset"
  /\ cpc = "eos" => eoscalls = 0
  /\ EosReported => work = <<>>
  /\ eos_promise_ = "set" => EosReported
  /\ apc = "join" => error_flag_ \/ EosReported
  /\ apc = "closed" => halted /\ work = <<>> /\ cpc = "idle"
  /\ apc = "start" => receive_seq_time_ = 0 /\ work = <<>>

StreamInv ==
  TypeOK /\ Numbered /\ FramesInOrder /\ EosOnce /\ PromiseThere /\ DestroyDrains
  /\ SequenceCovered

-----------------------------------------------------------------------------
\* The stream of a decoder: every packet comes out once and in order, with the
\* parameters of its sequence, and the end of the stream once and last, whoever
\* sends it and whatever is retried.
StreamSafe == TypeOK /\ FramesInOrder /\ NothingAfterEos /\ PromiseThere /\ DestroyDrains /\ SequenceCovered
====
