---------------------------- MODULE MpsService ----------------------------
(***************************************************************************)
(* MpsService: Init and Destroy of the CE3226 multimedia devices, and the  *)
(* frames captured from the sensors.  Init and Destroy are sequences of    *)
(* driver calls (module MpsDevices); todo is what is left of the sequence. *)
(* Any call that starts something may fail, and the error labels then      *)
(* decide what is undone.                                                  *)
(*                                                                         *)
(* Two kinds of driver: a strict one refuses to start what runs and to     *)
(* stop what does not, another lets it pass.  The code runs on either.     *)
(***************************************************************************)
EXTENDS MpsDevices, FiniteSets

CONSTANTS
  Configs,     \* configurations (and drivers) Init may be called with
  MaxInits,    \* bound on the calls of Init
  MaxLost      \* bound on the captures that fail in the conversion

ASSUME MpsConstants == MaxInits \in Nat /\ MaxLost \in Nat

VARIABLES
  state,       \* of the service
  cfg,         \* mps_config_, vi_config_'s uninitialised switches, the driver
  inits,       \* calls of Init so far
  wasReady,    \* history: Init has succeeded
  todo,        \* driver calls to make
  on,          \* what runs
  pool_cfgs_,  \* blocks of each size asked for
  captured,    \* frames taken from each sensor and not released
  reader,      \* the thread in VinCaptureCe3226::Capture, by sensor
  noconv       \* history: captures that failed in the conversion

capture == <<captured, reader, noconv>>
service == <<state, cfg, inits, wasReady, todo, on, pool_cfgs_, capture>>

VbUnit == Unit("vb", 0)
NoConfig == [sensors |-> <<>>, vout |-> FALSE, switching |-> FALSE, strict |-> FALSE]
Ids == DOMAIN cfg.sensors

ServiceTypeOK ==
  /\ state \in {"new", "up", "undo", "ready", "failed", "down", "gone"}
  /\ cfg \in Configs \cup {NoConfig} /\ inits \in 0 .. MaxInits /\ wasReady \in BOOLEAN
  /\ todo # <<>> => state \in {"up", "undo", "down"}
  /\ captured \in [Ids -> 0 .. MaxLost + 1] /\ noconv \in [Ids -> 0 .. MaxLost]
  /\ reader \in [Ids -> {"idle", "surface", "copy"}]

ServiceInit ==
  /\ state = "new" /\ cfg = NoConfig /\ inits = 0 /\ wasReady = FALSE /\ todo = <<>>
  /\ on = {} /\ pool_cfgs_ = <<>>
  /\ captured = <<>> /\ reader = <<>> /\ noconv = <<>>

-----------------------------------------------------------------------------
(* Config of the parts: how many buffers of which size they need.           *)

\* Size of the pictures of a sensor; the device crops the larger IMX305.
VinSize(t) ==
  LET p == GetSizeBySensor(t)
  IN SysGetPicSize(IF p = "PIC_3840x2173" THEN "PIC_3840x2160" ELSE p)

\* The size of the output of VPPS that the samples ask for.
OutSize == <<1920, 1080>>

\* vin_[i].w and h, for GetVinOutSize.
VinOutSize(s) == IF s.vpps THEN OutSize ELSE VinSize(s.type)

VinDemand(s) ==
  <<<<<<"raw", VinSize(s.type)>>, 8>>>> \o
  (IF s.vpps THEN <<<<<<"yuv", OutSize>>, 10>>, <<<<"block", OutSize>>, 6>>>> ELSE <<>>)
VoutDemand == <<<<<<"yuv", OutSize>>, 4>>, <<<<"yuv", OutSize>>, 4>>, <<<<"block", OutSize>>, 6>>>>

Demand(c) == (IF c.vout THEN VoutDemand ELSE <<>>)
             \o ForEach(c.sensors, LAMBDA i : VinDemand(c.sensors[i]))

OnVBInfo(pools, d) ==
  [k \in DOMAIN pools \cup {d[1]} |->
     (IF k \in DOMAIN pools THEN pools[k] ELSE 0) + (IF k = d[1] THEN d[2] ELSE 0)]

-----------------------------------------------------------------------------
(* MpsService::Init and Destroy                                             *)

\* Config of all parts, then the driver calls of InitSys and Init.  VBExit
\* throws the old pools away.
ServiceStart(c) ==
  /\ state \in {"new", "failed"} /\ inits < MaxInits
  /\ inits > 0 => c.strict = cfg.strict /\ c.switching = cfg.switching
  /\ state' = "up" /\ cfg' = c /\ inits' = inits + 1
  /\ todo' = ImplInit(c)
  /\ UNCHANGED wasReady
  /\ on' = on \ {VbUnit}
  /\ pool_cfgs_' = FoldLeft(OnVBInfo, pool_cfgs_, Demand(c))
  /\ captured' = [i \in DOMAIN c.sensors |-> 0]
  /\ reader' = [i \in DOMAIN c.sensors |-> "idle"]
  /\ noconv' = [i \in DOMAIN c.sensors |-> 0]

\* impl_ is deleted afterwards, and Init refuses from then on.
ServiceDestroy ==
  /\ state \in {"ready", "failed"}
  /\ \A i \in Ids : reader[i] = "idle"
  /\ state' = "down"
  /\ todo' = IF state = "ready" THEN ImplDestroy(cfg, cfg.vout)
             ELSE ImplDestroy([cfg EXCEPT !.sensors = <<>>], FALSE)
  /\ UNCHANGED <<cfg, inits, wasReady, on, pool_cfgs_, capture>>

ServiceReturns ==
  /\ state \in {"up", "undo", "down"} /\ todo = <<>>
  /\ state' = CASE state = "up" -> "ready" [] state = "undo" -> "failed" [] OTHER -> "gone"
  /\ wasReady' = (wasReady \/ state = "up")
  /\ UNCHANGED <<cfg, inits, todo, on, pool_cfgs_, capture>>

-----------------------------------------------------------------------------
(* The driver.                                                              *)

CallRefused(c) ==
  cfg.strict /\ \/ c.op \in {"on", "try"} /\ c.res \subseteq on
                \/ c.op = "off" /\ c.res \cap on = {}

CallSucceeds ==
  /\ todo # <<>> /\ Head(todo).op # "no" /\ ~CallRefused(Head(todo))
  /\ on' = IF Head(todo).op = "off" THEN on \ Head(todo).res ELSE on \cup Head(todo).res
  /\ todo' = Tail(todo)
  /\ UNCHANGED <<state, cfg, inits, wasReady, pool_cfgs_, capture>>

\* A call that starts or sets something may fail whatever the driver.
CallFails ==
  /\ todo # <<>> /\ Head(todo).op \in {"on", "set", "no"}
  /\ todo' = Head(todo).undo
  /\ state' = "undo"
  /\ UNCHANGED <<cfg, inits, wasReady, on, pool_cfgs_, capture>>

CallIgnored ==
  /\ todo # <<>> /\ Head(todo).op = "try"
  /\ todo' = Tail(todo)
  /\ UNCHANGED <<state, cfg, inits, wasReady, on, pool_cfgs_, capture>>

\* The driver has nothing to stop: the function returns early.
StopRefused ==
  /\ todo # <<>> /\ Head(todo).op = "off" /\ CallRefused(Head(todo))
  /\ todo' = SubSeq(todo, Head(todo).skip + 2, Len(todo))
  /\ UNCHANGED <<state, cfg, inits, wasReady, on, pool_cfgs_, capture>>

-----------------------------------------------------------------------------
(* VinCaptureCe3226::Capture: a frame is taken from the sensor, a BufSurface  *)
(* asked for, the frame copied and released.                                *)

devices == <<state, cfg, inits, wasReady, todo, on, pool_cfgs_>>

\* GetVinId finds the sensor; without VPPS the channel itself is read.
VinCaptureFrame(i) ==
  /\ state = "ready" /\ i \in Ids /\ reader[i] = "idle"
  /\ (IF cfg.sensors[i].vpps THEN Unit("run", i) ELSE Unit("chn", i)) \in on
  /\ captured' = [captured EXCEPT ![i] = @ + 1]
  /\ reader' = [reader EXCEPT ![i] = "surface"]
  /\ UNCHANGED <<devices, noconv>>

\* The application has a BufSurface, ...
GetBufSurf(i) ==
  /\ state = "ready" /\ i \in Ids /\ reader[i] = "surface"
  /\ reader' = [reader EXCEPT ![i] = "copy"]
  /\ UNCHANGED <<devices, captured, noconv>>

\* ... or has none.
GetBufSurfFails(i) ==
  /\ state = "ready" /\ i \in Ids /\ reader[i] = "surface"
  /\ captured' = [captured EXCEPT ![i] = @ - 1]
  /\ reader' = [reader EXCEPT ![i] = "idle"]
  /\ UNCHANGED <<devices, noconv>>

\* BufSurfaceToVideoFrameInfo refuses: Capture returns as it is.
CaptureNoConversion(i) ==
  /\ state = "ready" /\ i \in Ids /\ reader[i] = "copy" /\ noconv[i] < MaxLost
  /\ reader' = [reader EXCEPT ![i] = "idle"]
  /\ noconv' = [noconv EXCEPT ![i] = @ + 1]
  /\ UNCHANGED <<devices, captured>>

VinCaptureFrameRelease(i) ==
  /\ state = "ready" /\ i \in Ids /\ reader[i] = "copy"
  /\ captured' = [captured EXCEPT ![i] = @ - 1]
  /\ reader' = [reader EXCEPT ![i] = "idle"]
  /\ UNCHANGED <<devices, noconv>>

-----------------------------------------------------------------------------
(* Properties *)

SensorUnits(i) == {Unit(k, i) : k \in {"dev", "pipe", "piperun", "chn", "mipiclk", "snsclk"}}
IspUnits(i) == {Unit("isp", i), Unit("isprun", i)}
VppsUnits(i) == {Unit("grp", i), Unit("gchn", i), Unit("run", i)}
VoutUnits == {Unit(k, 0) : k \in {"vodev", "layer", "vochn", "grp", "gchn", "run", "bind"}}

\* When Init has succeeded everything the configuration asks for runs: each
\* sensor from its clocks to its ISP and VPPS, and the display.  (With the
\* uninitialised switches of vi_config_ set, no ISP is started.)
ReadyComplete ==
  state = "ready" =>
    /\ \A i \in Ids :
         /\ SensorUnits(i) \subseteq on
         /\ ~cfg.switching => IspUnits(i) \subseteq on
         /\ cfg.sensors[i].vpps => VppsUnits(i) \subseteq on
    /\ cfg.vout => VoutUnits \subseteq on

\* After Destroy, and after an Init that failed, nothing runs but the buffer
\* pools.  A strict driver can be left with more when Init fails: StopMipi and
\* VppsStop return at the first thing they find stopped.  It is not when the
\* first Init succeeds.
NothingLeftOn ==
  state \in {"failed", "gone"} => on \subseteq {VbUnit} \cup
    (IF cfg.strict /\ ~(wasReady /\ inits = 1) THEN {u \in on : u[1] \in {"mipiclk", "snsclk"} \/ u \in VppsUnits(0)}
                   ELSE {})

\* The ISP of a sensor runs only with its pipe and its clocks (the labels that
\* undo a failed Init stop the clocks before the ISP of an earlier sensor).
IspNeedsClocks ==
  state # "undo" => \A i \in Ids : Unit("isprun", i) \in on => SensorUnits(i) \subseteq on

\* For a sensor that runs all tables agree: size, bits, lanes and exposures.
\* (Two types have no entry in IspGetSensorCfgBySns, and nobody notices.)
SensorsAgree ==
  \A i \in Ids : Unit("isprun", i) \in on /\ HasSensorCfg(cfg.sensors[i].type)
                   => StagesAgree(cfg.sensors[i].type)

\* GetVinOutSize reports the size of the frames that Capture delivers.  (The
\* exception is the IMX305 with 2172 lines, which are cropped to 2160.)
ReportedSize ==
  state = "ready" =>
    \A i \in Ids : ~cfg.sensors[i].vpps /\ cfg.sensors[i].type # IMX305_3584
      => VinOutSize(cfg.sensors[i]) = GetChnAttrBySns(cfg.sensors[i].type)

\* The pools asked for have the buffers all parts need, also when two of them
\* need the same size.
SumOf(ds, k) == FoldLeft(LAMBDA n, d : n + IF d[1] = k THEN d[2] ELSE 0, 0, ds)
VbCovered ==
  VbUnit \in on => \A k \in {d[1] : d \in Range(Demand(cfg))} :
                     k \in DOMAIN pool_cfgs_ /\ pool_cfgs_[k] >= SumOf(Demand(cfg), k)

\* Every captured frame is released, but for those of a failed conversion.
FramesReleased ==
  \A i \in Ids : captured[i] = noconv[i] + (IF reader[i] = "idle" THEN 0 ELSE 1)
====
