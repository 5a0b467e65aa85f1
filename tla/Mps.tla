-------------------------------- MODULE Mps --------------------------------
(***************************************************************************)
(* The CE3226 service as a whole: MpsServiceImpl owns the devices (module  *)
(* MpsService) and the codec channels (module MpsCodec).  Config of the    *)
(* channels is part of Init, so a second Init after one that failed        *)
(* appends the ids again; the channels can be used while impl_ lives.      *)
(***************************************************************************)
EXTENDS MpsService, MpsCodec

mpsVars == <<service, codecVars>>

MpsTypeOK == ServiceTypeOK /\ CodecTypeOK

MpsInit == ServiceInit /\ CodecInit

\* MpsServiceImpl::Init: Config of the devices and of the channels.
Start(c) ==
  /\ ServiceStart(c)
  /\ id_q_' = [k \in Kinds |-> ConfigIds(id_q_[k])]
  /\ UNCHANGED <<ctx, call>>

\* MpsService::Destroy; no thread is inside a call then.
Shutdown ==
  /\ ServiceDestroy
  /\ \A u \in Users : call[u].pc = "idle"
  /\ UNCHANGED codecVars

DevicesNext ==
  \/ ServiceReturns
  \/ CallSucceeds \/ CallFails \/ CallIgnored \/ StopRefused
  \/ \E i \in Ids : \/ VinCaptureFrame(i) \/ GetBufSurf(i) \/ GetBufSurfFails(i)
                    \/ CaptureNoConversion(i) \/ VinCaptureFrameRelease(i)

\* The channels do not depend on the devices, and are used here with a
\* configuration that has none.
CodecsUsable == state = "ready" /\ cfg.sensors = <<>> /\ ~cfg.vout

\* After a second Init two threads may share a channel; only Create is followed.
CodecNext ==
  \/ \E u \in Users : CreateStep(u)
  \/ inits = 1 /\ \E u \in Users : UseStep(u)
  \/ \E k \in Kinds, h \in Handles : Decode(k, h)

MpsNext ==
  \/ \E c \in Configs : Start(c)
  \/ Shutdown
  \/ DevicesNext /\ UNCHANGED codecVars
  \/ CodecsUsable /\ CodecNext /\ UNCHANGED service

\* A thread inside a call goes on, the driver works on what it was given, and
\* the calls of Init and Destroy are made.  No call is assumed to succeed, and
\* no poll to fail.
Fairness ==
  /\ \A u \in Users : WF_mpsVars(CodecsUsable /\ InCall(u) /\ UNCHANGED service)
  /\ \A k \in Kinds, h \in Handles :
       WF_mpsVars(CodecsUsable /\ Decode(k, h) /\ UNCHANGED service)
  /\ WF_mpsVars((ServiceReturns \/ CallSucceeds \/ CallFails \/ CallIgnored \/ StopRefused)
             /\ UNCHANGED codecVars)

MpsSpec == MpsInit /\ [][MpsNext]_mpsVars /\ Fairness

-----------------------------------------------------------------------------
(* Properties of the whole *)

\* Channels are not shared, ids are not lost, if Init was called once.  (A second
\* Init, after one that failed, puts every id into the queue a second time.)
ChannelsSafe == inits = 1 => HandleUnique /\ IdsKept

\* Init and Destroy come to an end, whatever fails on the way.
InitReturns == state \in {"up", "undo", "down"} ~> state \notin {"up", "undo", "down"}

\* The devices are brought up completely or not at all, whichever driver call
\* fails, and are stopped in an order they can bear; the tables of a sensor, the
\* size reported to the application and the memory that was asked for fit each other.
DevicesSafe ==
  /\ MpsTypeOK
  /\ ReadyComplete /\ NothingLeftOn /\ IspNeedsClocks
  /\ SensorsAgree /\ ReportedSize /\ VbCovered

\* Channels, ids and frames are neither shared nor lost, and all units of a stream
\* come out before its end is reported.
UnitsKept == ChannelsSafe /\ OpenIffCreated /\ AllFramesBeforeEos /\ FramesReleased

\* Every call of a channel and of the service returns, whatever fails on the way.
ServiceReturnsAlways == CallsReturn /\ InitReturns

-----------------------------------------------------------------------------
(* The inductive invariant of UnitsKept *)

Contexts == [created : BOOLEAN, eos_sent : BOOLEAN, error : BOOLEAN, jpeg : BOOLEAN, open : BOOLEAN,
             stream : Nat, pics : Nat, sent : Nat, got : Nat, eos : BOOLEAN]
Calls == [pc : {"idle", "send", "poll", "stop"}, kind : Kinds, handle : 0 .. kMax, null : BOOLEAN,
          send_done : BOOLEAN, count : Nat, destroy : BOOLEAN]

ChannelsTyped ==
  /\ id_q_ \in [Kinds -> Seq(CodecStart .. kMax - 1)]
  /\ ctx \in [Kinds -> [Handles -> Contexts]]
  /\ call \in [Users -> Calls]
  /\ inits \in Nat

\* A driver call is made inside Init or Destroy, a channel is used between them,
\* and nothing of a channel exists before the first Init.
Phases ==
  /\ todo # <<>> => state \in {"up", "undo", "down"}
  /\ \A u \in Users : call[u].pc # "idle" => inits = 1 /\ state = "ready"
  /\ inits = 0 => /\ state = "new"
                  /\ \A k \in Kinds : id_q_[k] = <<>>
                  /\ \A u \in Users : call[u].handle = 0

\* Who has a handle has a channel, and only who has one is in a call.
Created ==
  inits = 1 => \A u \in Users : /\ call[u].handle # 0 => Of(u).created
                                /\ call[u].pc # "idle" => call[u].handle # 0

\* A call with a unit began before the end of the stream.
UnitBeforeEos ==
  \A u \in Users : call[u].pc \in {"send", "poll"} /\ ~call[u].null => ~Of(u).eos_sent

\* What was sent is in the driver or has come out, and after OnEos nothing is in it.
Balance(c) ==
  /\ c.sent = c.got + c.stream + c.pics
  /\ c.eos => c.eos_sent /\ c.stream = 0 /\ c.pics = 0
Conserved == \A k \in Kinds, h \in Handles : Balance(ctx[k][h])

ChannelsInv ==
  /\ ChannelsTyped /\ Phases /\ ChannelsSafe /\ Created
  /\ UnitBeforeEos /\ Conserved /\ OpenIffCreated

CaptureInv ==
  /\ captured \in [Ids -> Nat] /\ noconv \in [Ids -> Nat]
  /\ reader \in [Ids -> {"idle", "surface", "copy"}]
  /\ FramesReleased

MpsInv == ChannelsInv /\ CaptureInv
====
