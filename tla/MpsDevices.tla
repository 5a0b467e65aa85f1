---------------------------- MODULE MpsDevices ----------------------------
(***************************************************************************)
(* What the CE3226 service asks of the driver, as sequences of calls: one  *)
(* operator per function of mps_internal and of MpsVout and MpsVin.  The   *)
(* functions only differ in what they switch on and in what their error    *)
(* labels switch off, so a call is a record                                *)
(*   op    "on", "try" (the result is ignored), "set", "no" (the code      *)
(*         itself refuses) or "off"                                        *)
(*   res   what it switches                                                *)
(*   undo  the calls that follow when an "on", "set" or "no" fails         *)
(*   skip  how many of the next calls an "off" that is refused skips       *)
(* Module MpsService runs the sequences.  A sensor is a record of its type *)
(* and of whether its pictures go through VPPS; its place in the           *)
(* configuration is its device, its pipe and its clock.                    *)
(***************************************************************************)
EXTENDS Sensors, Sequences, SequencesExt

\* A unit of hardware: its kind and number.
Unit(k, i) == <<k, i>>

Call(op, res) == [op |-> op, res |-> res, undo |-> <<>>, skip |-> 0]
On(u) == <<Call("on", {u})>>
Try(u) == <<Call("try", {u})>>
Off(U) == <<Call("off", U)>>
Set == <<Call("set", {})>>
Require(b) == IF b THEN <<>> ELSE <<Call("no", {})>>

\* A function that goes to its error label when one of its calls fails.
Guarded(calls, undo) ==
  [k \in DOMAIN calls |-> [calls[k] EXCEPT !.undo = @ \o undo]]

\* A function that returns at the first call that is refused.
Chain(calls) == [k \in DOMAIN calls |-> [calls[k] EXCEPT !.skip = Len(calls) - k]]

\* for (i = 0; i < s32WorkingViNum; i++)
ForEach(sensors, F(_)) == FlattenSeq([i \in DOMAIN sensors |-> F(i)])

-----------------------------------------------------------------------------
(* cnsample_comm_vi.cpp *)

\* A device with a crop has one more call to make.
StartDev(s, i) ==
  Set \o (IF DevCrop(s.type) # GetDevAttrBySns(s.type).size THEN Set ELSE <<>>)
      \o On(Unit("dev", i))
StopDev(i) == Off({Unit("dev", i)})

BindPipeDev == Set

StopSingleViPipe(i) == Chain(Off({Unit("piperun", i)}) \o Off({Unit("pipe", i)}))
StartSingleViPipe(i) ==
  On(Unit("pipe", i)) \o Guarded(On(Unit("piperun", i)), Off({Unit("pipe", i)}))
\* EXIT stops the pipe that StartSingleViPipe has destroyed.
StartViPipe(i) == Guarded(StartSingleViPipe(i), StopSingleViPipe(i))

StartViChn(i) == Set \o On(Unit("chn", i))
StopViChn(i) == Off({Unit("chn", i)})

CreateSingleVi(s, i) ==
  StartDev(s, i)
    \o Guarded(BindPipeDev \o StartViPipe(i), StopDev(i))
    \o Guarded(StartViChn(i), StopSingleViPipe(i) \o StopDev(i))
DestroySingleVi(i) == StopViChn(i) \o StopSingleViPipe(i) \o StopDev(i)

DestroyVi(sensors) == ForEach(sensors, DestroySingleVi)
CreateVi(sensors) ==
  ForEach(sensors, LAMBDA i : Guarded(CreateSingleVi(sensors[i], i),
                                      DestroyVi(SubSeq(sensors, 1, i - 1))))

\* The sensor of number 0 decides for all of them.
SlaveMode(sensors) == sensors # <<>> /\ IsSlaveModeBySensor(sensors[1].type)
StartSlaveMode(sensors) == ForEach(sensors, LAMBDA i : Try(Unit("vs", i)))
StopSlaveMode(sensors) == ForEach(sensors, LAMBDA i : Off({Unit("vs", i)}))

-----------------------------------------------------------------------------
(* cnsample_comm_mipi.cpp *)

SetHsMode == Set \o Set

EnableMipiClock(sensors) == ForEach(sensors, LAMBDA i : On(Unit("mipiclk", i)))
EnableSensorClock(sensors) == ForEach(sensors, LAMBDA i : On(Unit("snsclk", i)))
DisableMipiClock(sensors) == ForEach(sensors, LAMBDA i : Off({Unit("mipiclk", i)}))
DisableSensorClock(sensors) == ForEach(sensors, LAMBDA i : Off({Unit("snsclk", i)}))
SetSensorClock(sensors) == ForEach(sensors, LAMBDA i : Set)
SetMipiAttr(sensors) == ForEach(sensors, LAMBDA i : Set)
ResetMipi == Set
ResetSensor == Set
UnresetMipi == Set
UnresetSensor == Set
SetLvdsDelayMode(sensors) ==
  ForEach(sensors, LAMBDA i : IF sensors[i].type = IMX305_8M THEN Set ELSE <<>>)

StartMipi(sensors) ==
  SetHsMode \o EnableMipiClock(sensors) \o ResetMipi
    \o SetSensorClock(sensors) \o EnableSensorClock(sensors) \o ResetSensor
    \o SetMipiAttr(sensors) \o UnresetMipi \o UnresetSensor
    \o SetLvdsDelayMode(sensors)

\* The resets on the way down are taken to succeed.
StopMipi(sensors) == Chain(DisableSensorClock(sensors) \o DisableMipiClock(sensors))

-----------------------------------------------------------------------------
(* cnsample_comm_isp.cpp *)

IspStop(i) == Off({Unit("isp", i), Unit("isprun", i)})

\* RegSensor, SetSensorByEnum and SetSensorBusInfo; the work mode is not checked.
IspBindSensor(s) == Require(GetSensorObj(s.type) # "null") \o Set \o Set \o Set

\* GetSensorCfg, ConvertSensorcfgToIsp, MemInit and SetPub, then Run.
IspStart(i) == Set \o Set \o Set \o On(Unit("isprun", i))

ViStartIsp(s, i) ==
  Guarded(On(Unit("isp", i)) \o IspBindSensor(s) \o IspStart(i), IspStop(i))

\* switching is what bModeSwitch and bSwitch of vi_config_ say; nobody sets them.
CreateIsp(sensors, switching) ==
  ForEach(sensors, LAMBDA i :
    IF ~switching THEN ViStartIsp(sensors[i], i)
    ELSE Require(GetIspAttrBySns(sensors[i].type).bits # 0) \o Guarded(Set, IspStop(i)))
DestroyIsp(sensors, switching) ==
  IF switching THEN <<>> ELSE ForEach(sensors, IspStop)

StartVi(sensors, switching) ==
  CreateVi(sensors)
    \o Guarded(StartMipi(sensors), DestroyVi(sensors))
    \o Guarded(CreateIsp(sensors, switching), StopMipi(sensors) \o DestroyVi(sensors))
    \o (IF SlaveMode(sensors) THEN StartSlaveMode(sensors) ELSE <<>>)

\* Mutant: the clocks stop before the ISP does.
StopViLate(sensors, switching) ==
  (IF SlaveMode(sensors) THEN StopSlaveMode(sensors) ELSE <<>>)
    \o StopMipi(sensors) \o DestroyIsp(sensors, switching) \o DestroyVi(sensors)

StopVi(sensors, switching) ==
  (IF SlaveMode(sensors) THEN StopSlaveMode(sensors) ELSE <<>>)
    \o DestroyIsp(sensors, switching) \o StopMipi(sensors) \o DestroyVi(sensors)

-----------------------------------------------------------------------------
(* MpsVin *)

\* The calls of every sensor whose pictures go through VPPS.
ThroughVpps(sensors, calls) ==
  ForEach(sensors, LAMBDA i : IF sensors[i].vpps THEN calls[i] ELSE <<>>)

\* The labels are crossed: a channel that cannot be set is stopped and disabled,
\* one that cannot be enabled is not.
InitVpps(i) ==
  On(Unit("grp", i))
    \o Guarded(Set, Off({Unit("run", i)}) \o Off({Unit("gchn", i)}) \o Off({Unit("grp", i)}))
    \o Guarded(On(Unit("gchn", i)), Off({Unit("grp", i)}))
    \o Guarded(On(Unit("run", i)),
               Off({Unit("run", i)}) \o Off({Unit("gchn", i)}) \o Off({Unit("grp", i)}))
StopVpps(i) == Off({Unit("gchn", i)}) \o Off({Unit("run", i)}) \o Off({Unit("grp", i)})
ViBindVpps(i) == Try(Unit("bind", i))
ViUnBindVpps(i) == Off({Unit("bind", i)})

VinInit(sensors, switching) ==
  StartVi(sensors, switching)
    \o ThroughVpps(sensors, [i \in DOMAIN sensors |-> InitVpps(i)])
    \o ThroughVpps(sensors, [i \in DOMAIN sensors |-> ViBindVpps(i)])

VinDestroy(sensors, switching) ==
  IF sensors = <<>> THEN <<>>
  ELSE ThroughVpps(sensors, [i \in DOMAIN sensors |-> ViUnBindVpps(i)])
         \o ThroughVpps(sensors, [i \in DOMAIN sensors |-> StopVpps(i)])
         \o StopVi(sensors, switching)

-----------------------------------------------------------------------------
(* cnsample_comm_vo.cpp, cnsample_comm_vpps.cpp and MpsVout, with one window. *)

VoStopDev == Off({Unit("vodev", 0)})
VoStopLayer == Off({Unit("layer", 0)})
VoStopChn == Off({Unit("vochn", 0)})
VoStopVo == VoStopChn \o VoStopLayer \o VoStopDev

VoStartDev == Set \o On(Unit("vodev", 0))
VoStartLayer == Set \o On(Unit("layer", 0))
VoStartChn == Set \o Set \o On(Unit("vochn", 0))
\* SetDisplayBufLen, the layer, and the channel in it.
VoStartVo ==
  VoStartDev
    \o Guarded(Set \o VoStartLayer, VoStopDev)
    \o Guarded(VoStartChn, VoStopLayer \o VoStopDev)

VppsStart == On(Unit("grp", 0)) \o Set \o On(Unit("gchn", 0)) \o On(Unit("run", 0))
VppsStop == Chain(Off({Unit("run", 0)}) \o Off({Unit("gchn", 0)}) \o Off({Unit("grp", 0)}))
VppsBindVo == On(Unit("bind", 0))
VppsUnBindVo == Off({Unit("bind", 0)})

VoutInit ==
  Guarded(VoStartVo, VoStopVo)
    \o Guarded(VppsStart \o VppsBindVo, VppsStop \o VoStopVo)
VoutDestroy == VppsUnBindVo \o VoStopVo \o VppsStop

-----------------------------------------------------------------------------
(* cnsample_comm_sys.cpp and MpsServiceImpl *)

SysInit == Set \o On(Unit("vb", 0)) \o On(Unit("sys", 0)) \o Set
SysExit == Off({Unit("sys", 0)})

ImplDestroy(cfg, voutInit) ==
  VinDestroy(cfg.sensors, cfg.switching)
    \o (IF voutInit THEN VoutDestroy ELSE <<>>) \o SysExit

ImplInit(cfg) ==
  Guarded(SysInit \o (IF cfg.vout THEN VoutInit ELSE <<>>), ImplDestroy(cfg, FALSE))
    \o Guarded(VinInit(cfg.sensors, cfg.switching), ImplDestroy(cfg, cfg.vout))
====
