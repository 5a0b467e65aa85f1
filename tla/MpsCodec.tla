----------------------------- MODULE MpsCodec -----------------------------
(***************************************************************************)
(* MpsVdec and MpsVenc, the decoder and encoder channels of the CE3226     *)
(* service, used by DecoderCe3226 and EncoderCe3226.  The two classes are  *)
(* the same code but for what the driver is asked: ids are handed out from *)
(* a queue, a call of SendStream or SendFrame sends one unit, with a few   *)
(* retries when the driver is full, and collects what is ready; the call   *)
(* that sends the end of the stream collects everything.  There is no      *)
(* thread: all callbacks run inside these calls.                           *)
(***************************************************************************)
EXTENDS Integers, Sequences, FiniteSets, Sublists

CONSTANTS
  Users,      \* threads, each with one channel at a time
  Senders,    \* those that send on it (or use JPEG); the others create and destroy
  kMax,       \* kMaxMpsVdecNum and kMaxMpsVencNum
  CodecStart, \* codec_id_start
  Tries,      \* value of count before the loop (4 in the code)
  StreamBuf,  \* units the driver takes before it is full
  MaxUnits    \* bound on the units sent on a channel

ASSUME MpsCodecConstants ==
  /\ Senders \subseteq Users /\ kMax \in Nat /\ CodecStart \in 0 .. kMax /\ Tries \in Nat
  /\ StreamBuf \in Nat \ {0} /\ MaxUnits \in Nat

Kinds == {"vdec", "venc"}
Handles == 1 .. kMax

VARIABLES
  id_q_,  \* free ids of each kind
  ctx,    \* VDecCtx and VEncCtx, with the driver's channel behind it
  call    \* what each thread is doing, and its handle (0 is nullptr)

codecVars == <<id_q_, ctx, call>>

\* eos_sent_, error_flag_, created_, PT_JPEG; the channel exists, its units in
\* and pictures out; units sent, pictures delivered and calls of OnEos so far.
Closed == [created |-> FALSE, eos_sent |-> FALSE, error |-> FALSE, jpeg |-> FALSE,
           open |-> FALSE, stream |-> 0, pics |-> 0, sent |-> 0, got |-> 0, eos |-> FALSE]
Idle == [pc |-> "idle", kind |-> "vdec", handle |-> 0, null |-> FALSE,
         send_done |-> FALSE, count |-> 0, destroy |-> FALSE]

CodecTypeOK ==
  /\ \A k \in Kinds : \A n \in 1 .. Len(id_q_[k]) : id_q_[k][n] \in CodecStart .. kMax - 1
  /\ \A k \in Kinds, h \in Handles :
       /\ ctx[k][h].stream \in 0 .. StreamBuf /\ ctx[k][h].pics \in 0 .. MaxUnits
       /\ ctx[k][h].got <= ctx[k][h].sent
  /\ \A u \in Users : /\ call[u].pc \in {"idle", "send", "poll", "stop"}
                      /\ call[u].handle \in 0 .. kMax /\ call[u].count \in 0 .. Tries

CodecInit ==
  /\ id_q_ = [k \in Kinds |-> <<>>]
  /\ ctx = [k \in Kinds |-> [h \in Handles |-> Closed]]
  /\ call = [u \in Users |-> Idle]

\* Config appends the ids, whatever is in the queue.
ConfigIds(q) == q \o [n \in 1 .. kMax - CodecStart |-> CodecStart + n - 1]

Of(u) == ctx[call[u].kind][call[u].handle]
SetCtx(u, c) == ctx' = [ctx EXCEPT ![call[u].kind][call[u].handle] = c]
SetCall(u, c) == call' = [call EXCEPT ![u] = c]

-----------------------------------------------------------------------------
(* Create: GetId, the channel, its parameters, StartRecv.                   *)

GetId(k) == Head(id_q_[k]) + 1
\* The last handle is refused, and its id lost.
ReturnId(q, h) == IF h < CodecStart + 1 \/ h >= kMax THEN q ELSE Append(q, h - 1)

CreateChn(u, k, jpeg) ==
  /\ call[u].pc = "idle" /\ call[u].handle = 0 /\ id_q_[k] # <<>>
  /\ ~ctx[k][GetId(k)].created /\ ~ctx[k][GetId(k)].open
  /\ ctx' = [ctx EXCEPT ![k][GetId(k)] =
               [Closed EXCEPT !.created = TRUE, !.open = TRUE, !.jpeg = jpeg]]
  /\ SetCall(u, [Idle EXCEPT !.kind = k, !.handle = GetId(k)])
  /\ id_q_' = [id_q_ EXCEPT ![k] = Tail(@)]

\* "Duplicated": the channel is in use, and its handle is returned all the same.
CreateDuplicated(u, k) ==
  /\ call[u].pc = "idle" /\ call[u].handle = 0 /\ id_q_[k] # <<>>
  /\ ctx[k][GetId(k)].created
  /\ SetCall(u, [Idle EXCEPT !.kind = k, !.handle = GetId(k)])
  /\ id_q_' = [id_q_ EXCEPT ![k] = Tail(@)]
  /\ UNCHANGED ctx

\* The driver refuses the channel, or err_exit destroys it again.
CreateFails(u, k) ==
  /\ call[u].pc = "idle" /\ call[u].handle = 0 /\ id_q_[k] # <<>>
  /\ ~ctx[k][GetId(k)].created
  /\ id_q_' = [id_q_ EXCEPT ![k] = ReturnId(Tail(@), GetId(k))]
  /\ UNCHANGED <<ctx, call>>

\* The parameters of a JPEG encoder: the id is returned, the channel stays.
CreateFailsOpen(u) ==
  /\ call[u].pc = "idle" /\ call[u].handle = 0 /\ id_q_["venc"] # <<>>
  /\ ~ctx["venc"][GetId("venc")].created
  /\ ctx' = [ctx EXCEPT !["venc"][GetId("venc")] = [Closed EXCEPT !.open = TRUE, !.jpeg = TRUE]]
  /\ id_q_' = [id_q_ EXCEPT !["venc"] = ReturnId(Tail(@), GetId("venc"))]
  /\ UNCHANGED call

-----------------------------------------------------------------------------
(* SendStream and SendFrame.                                                *)

\* The checks before the loop; a null unit is the end of the stream.
SendBegin(u, null, destroy) ==
  /\ ~null => ~Of(u).eos_sent /\ ~Of(u).error
  /\ SetCtx(u, [Of(u) EXCEPT !.eos_sent = @ \/ null])
  /\ SetCall(u, [call[u] EXCEPT !.pc = "send", !.null = null, !.count = Tries,
                                !.send_done = null /\ Of(u).eos_sent, !.destroy = destroy])
  /\ UNCHANGED id_q_

Send(u, null) ==
  /\ u \in Senders /\ call[u].pc = "idle" /\ call[u].handle # 0 /\ Of(u).created
  /\ ~null => Of(u).sent < MaxUnits
  /\ SendBegin(u, null, FALSE)

\* The call returns, to the application or to Destroy.
Returned(u) == [call[u] EXCEPT !.pc = IF call[u].destroy THEN "stop" ELSE "idle",
                               !.null = FALSE, !.send_done = FALSE, !.count = 0]

\* error_flag_, OnError, return -1.
Fail(u) == /\ SetCtx(u, [Of(u) EXCEPT !.error = TRUE])
           /\ SetCall(u, Returned(u))
           /\ UNCHANGED id_q_

InLoop(u) == call[u].pc = "send" /\ ~Of(u).error

\* while (!ctx.error_flag_)
SendLoopEnds(u) ==
  /\ call[u].pc = "send" /\ Of(u).error
  /\ SetCall(u, Returned(u)) /\ UNCHANGED <<ctx, id_q_>>

MustSend(u) == InLoop(u) /\ ~call[u].send_done
               /\ ~(call[u].null /\ (call[u].kind = "venc" \/ Of(u).jpeg))

\* Nothing to send, or sent already; the end of the stream of a JPEG decoder and
\* of an encoder is not sent at all.
NothingToSend(u) ==
  /\ InLoop(u) /\ ~MustSend(u)
  /\ SetCall(u, [call[u] EXCEPT !.pc = "poll", !.send_done = TRUE])
  /\ UNCHANGED <<ctx, id_q_>>

UnitAccepted(u) ==
  /\ MustSend(u) /\ (call[u].null \/ Of(u).stream < StreamBuf)
  /\ SetCtx(u, IF call[u].null THEN Of(u)
               ELSE [Of(u) EXCEPT !.stream = @ + 1, !.sent = @ + 1])
  /\ SetCall(u, [call[u] EXCEPT !.pc = "poll", !.send_done = TRUE])
  /\ UNCHANGED id_q_

\* Full: the decoder takes a picture if there is one; both then poll.
SendFull(u) ==
  /\ MustSend(u) /\ ~call[u].null /\ Of(u).stream = StreamBuf /\ call[u].count > 0
  /\ SetCtx(u, IF call[u].kind = "vdec" /\ Of(u).pics > 0
               THEN [Of(u) EXCEPT !.pics = @ - 1, !.got = @ + 1] ELSE Of(u))
  /\ SetCall(u, [call[u] EXCEPT !.pc = "poll", !.count = @ - 1])
  /\ UNCHANGED id_q_

\* Too many tries, or another error of the driver.
SendFails(u) ==
  /\ MustSend(u)
  /\ call[u].kind = "vdec" \/ call[u].count = 0
  /\ Fail(u)

\* Mutant: pictures the driver still holds are not looked at.
CheckHandleEosEarly(c) == c.pics = 0

\* Nothing is left in the driver.
CheckHandleEos(c) == c.stream = 0 /\ c.pics = 0

Finishing(u) == Of(u).eos_sent /\ call[u].send_done

\* A picture is ready: OnFrame, and the end when it was the last one.
PollFrame(u) ==
  /\ call[u].pc = "poll" /\ Of(u).pics > 0
  /\ LET c == [Of(u) EXCEPT !.pics = @ - 1, !.got = @ + 1]
         end == Finishing(u) /\ CheckHandleEos(c)
     IN /\ SetCtx(u, [c EXCEPT !.eos = @ \/ end])
        /\ SetCall(u, IF end THEN Returned(u) ELSE call[u])
  /\ UNCHANGED id_q_

\* Mutant: a timeout never ends the inner loop.
PollTimeoutStays(u) ==
  /\ call[u].pc = "poll" /\ Of(u).pics = 0
  /\ UNCHANGED codecVars

\* select ends without a picture.
PollTimeout(u) ==
  /\ call[u].pc = "poll" /\ Of(u).pics = 0
  /\ LET end == Finishing(u) /\ CheckHandleEos(Of(u))
     IN /\ SetCtx(u, [Of(u) EXCEPT !.eos = @ \/ end])
        /\ SetCall(u, IF end \/ (~Of(u).eos_sent /\ call[u].send_done) THEN Returned(u)
                      ELSE IF Finishing(u) THEN call[u]
                      ELSE [call[u] EXCEPT !.pc = "send"])
  /\ UNCHANGED id_q_

\* GetFrame, GetStream or QueryStatus fails; select fails, without a flag.
PollFails(u) ==
  /\ call[u].pc = "poll"
  /\ \/ Fail(u)
     \/ SetCall(u, Returned(u)) /\ UNCHANGED <<ctx, id_q_>>

\* The driver.
Decode(k, h) ==
  /\ ctx[k][h].open /\ ctx[k][h].stream > 0
  /\ ctx' = [ctx EXCEPT ![k][h].stream = @ - 1, ![k][h].pics = @ + 1]
  /\ UNCHANGED <<id_q_, call>>

-----------------------------------------------------------------------------
(* Destroy                                                                  *)

\* The end of the stream is sent first, unless it was or an error happened.
Destroy(u) ==
  /\ call[u].pc = "idle" /\ call[u].handle # 0
  /\ \/ ~Of(u).created /\ SetCall(u, Idle) /\ UNCHANGED <<ctx, id_q_>>
     \/ Of(u).created /\ ~Of(u).error /\ ~Of(u).eos_sent /\ SendBegin(u, TRUE, TRUE)
     \/ /\ Of(u).created /\ (Of(u).error \/ Of(u).eos_sent)
        /\ SetCall(u, [call[u] EXCEPT !.pc = "stop"]) /\ UNCHANGED <<ctx, id_q_>>

DestroyChn(u) ==
  /\ call[u].pc = "stop"
  /\ SetCtx(u, Closed)
  /\ id_q_' = [id_q_ EXCEPT ![call[u].kind] = ReturnId(@, call[u].handle)]
  /\ SetCall(u, Idle)

InCall(u) ==
  \/ SendLoopEnds(u) \/ NothingToSend(u) \/ UnitAccepted(u) \/ SendFull(u) \/ SendFails(u)
  \/ PollFrame(u) \/ PollTimeout(u) \/ DestroyChn(u)

CreateStep(u) ==
  \/ \E k \in Kinds : \/ \E jpeg \in BOOLEAN : (jpeg => u \in Senders) /\ CreateChn(u, k, jpeg)
                      \/ CreateDuplicated(u, k) \/ CreateFails(u, k)
  \/ CreateFailsOpen(u)

UseStep(u) ==
  (\E null \in BOOLEAN : Send(u, null)) \/ Destroy(u) \/ InCall(u) \/ PollFails(u)

-----------------------------------------------------------------------------
(* Properties, for a service that was configured once.                      *)

\* No two threads have the same channel.
HandleUnique ==
  \A u, v \in Users : u # v /\ call[u].handle # 0 =>
    <<call[u].kind, call[u].handle>> # <<call[v].kind, call[v].handle>>

HeldIds(k) ==
  {i \in CodecStart .. kMax - 1 : \E u \in Users : call[u].kind = k /\ call[u].handle = i + 1}

\* No id is lost or handed out twice, whatever fails; but the last handle is
\* refused by ReturnId, so its id is used once.
IdsKept ==
  \A k \in Kinds :
    /\ Distinct(id_q_[k]) /\ Elems(id_q_[k]) \cap HeldIds(k) = {}
    /\ CodecStart .. kMax - 2 \subseteq Elems(id_q_[k]) \cup HeldIds(k)

\* created_ says whether the driver has the channel, so that it is closed once;
\* a JPEG encoder whose parameters are refused is the exception.
OpenIffCreated ==
  \A k \in Kinds, h \in Handles :
    /\ ctx[k][h].created => ctx[k][h].open
    /\ ctx[k][h].open /\ ~ctx[k][h].created => k = "venc" /\ ctx[k][h].jpeg

\* OnEos comes when every unit sent has come out of the driver.
AllFramesBeforeEos ==
  \A k \in Kinds, h \in Handles :
    ctx[k][h].eos => ctx[k][h].got = ctx[k][h].sent \/ ctx[k][h].error

\* SendStream, SendFrame and Destroy return: the polls of the end of the stream
\* have no limit but the driver's progress.
CallsReturn == \A u \in Users : call[u].pc # "idle" ~> call[u].pc = "idle"
====
