------------------------------ MODULE Sensors ------------------------------
(***************************************************************************)
(* What the CE3226 bring-up code tells the driver about each image sensor. *)
(* Every stage (receiver, device, pipe, channel, ISP, sensor) has a table  *)
(* of its own, in three files, indexed by cnEnSampleSnsType_t.  A table is *)
(* an operator here; attributes the stages must agree on are kept: size,   *)
(* bits per pixel, lanes, frames per picture and who drives the sync.      *)
(***************************************************************************)
EXTENDS Integers

\* cnEnSampleSnsType_t; the first is the value of a zeroed structure.
IMX305_3584 == "SONY_IMX305_LVDS_3584x2172_40FPS_12BIT"
IMX305_8M   == "SONY_IMX305_LVDS_8M_40FPS_12BIT"
IMX327      == "SONY_IMX327_MIPI_2M_30FPS_12BIT"
IMX327_WDR  == "SONY_IMX327_MIPI_2M_30FPS_12BIT_WDR2TO1"
IMX327_SLV  == "SONY_IMX327_SLAVE_2M_30FPS_12BIT"
IMX334      == "SONY_IMX334_MIPI_8M_30FPS_12BIT"
OV08_8M     == "OV_08A20_MIPI_8M_30FPS_12BIT"
OV08_60     == "OV_08A20_MIPI_8M_60FPS_10BIT"
OV08_8M_WDR == "OV_08A20_MIPI_8M_30FPS_10BIT_WDR2TO1"
OV08_4M     == "OV_08A20_MIPI_4M_30FPS_12BIT"
OV08_2688   == "OV_08A20_MIPI_2688x1520_30FPS_12BIT"
OV08_2688_WDR == "OV_08A20_MIPI_2688x1520_30FPS_10BIT_WDR2TO1"
OV04_2560   == "OV_04A10_MIPI_SLAVE_2560x1440_25FPS_10BIT"
OV04_2688   == "OV_04A10_MIPI_SLAVE_2688x1520_25FPS_10BIT"

IMX305s == {IMX305_3584, IMX305_8M}
IMX327s == {IMX327, IMX327_WDR, IMX327_SLV}
OV04s == {OV04_2560, OV04_2688}
OV08s == {OV08_8M, OV08_60, OV08_8M_WDR, OV08_4M, OV08_2688, OV08_2688_WDR}
SensorTypes == IMX305s \cup IMX327s \cup {IMX334} \cup OV04s \cup OV08s

TwoToOne == {IMX327_WDR, OV08_8M_WDR, OV08_2688_WDR}
Of2688 == {OV04_2688, OV08_2688, OV08_2688_WDR}
Of8M == {IMX334, OV08_8M, OV08_60, OV08_8M_WDR}

-----------------------------------------------------------------------------
(* cnsample_comm_vi.cpp *)

IsSlaveModeBySensor(t) == t \in OV04s \cup {IMX327_SLV}

\* The DEV_ATTR tables: what arrives from the sensor ...
DevAttr(size, bits) == [size |-> size, bits |-> bits]

GetDevAttrBySns(t) ==
  CASE t = OV04_2560 -> DevAttr(<<2560, 1440>>, 10)
    [] t \in {OV04_2688, OV08_2688_WDR} -> DevAttr(<<2688, 1520>>, 10)
    [] t = OV08_2688 -> DevAttr(<<2688, 1520>>, 12)
    [] t = OV08_4M -> DevAttr(<<2688, 1592>>, 12)
    [] t \in {OV08_60, OV08_8M_WDR} -> DevAttr(<<3840, 2160>>, 10)
    [] t \in {IMX334, OV08_8M} -> DevAttr(<<3840, 2160>>, 12)
    [] t = IMX305_8M -> DevAttr(<<3840, 2173>>, 12)
    [] t = IMX305_3584 -> DevAttr(<<3584, 2172>>, 12)
    [] OTHER -> DevAttr(<<1920, 1080>>, 12)

\* ... of which the device keeps this much.
DevCrop(t) == CASE t = IMX305_8M -> <<3840, 2160>>
                [] t = IMX305_3584 -> <<3584, 2160>>
                [] OTHER -> GetDevAttrBySns(t).size

\* The PIPE_ATTR tables.
PipeAttr(size, bits) == [size |-> size, bits |-> bits, frames |-> 1]

GetPipeAttrBySns(t) ==
  CASE t = OV04_2560 -> PipeAttr(<<2560, 1440>>, 10)
    [] t = OV04_2688 -> PipeAttr(<<2688, 1520>>, 10)
    [] t = OV08_2688 -> PipeAttr(<<2688, 1520>>, 12)
    [] t = OV08_2688_WDR -> [PipeAttr(<<2688, 1520>>, 10) EXCEPT !.frames = 2]
    [] t = OV08_4M -> PipeAttr(<<2688, 1592>>, 12)
    [] t = OV08_60 -> PipeAttr(<<3840, 2160>>, 10)
    [] t \in {IMX334, IMX305_8M, OV08_8M} -> PipeAttr(<<3840, 2160>>, 12)
    [] t = IMX305_3584 -> PipeAttr(<<3584, 2160>>, 12)
    [] t = OV08_8M_WDR -> [PipeAttr(<<3840, 2160>>, 10) EXCEPT !.frames = 2]
    [] OTHER -> PipeAttr(<<1920, 1080>>, 12)

\* The CHN_ATTR tables; the last of them is changed for the IMX305.
GetChnAttrBySns(t) ==
  CASE t = OV04_2560 -> <<2560, 1440>>
    [] t \in Of2688 -> <<2688, 1520>>
    [] t = OV08_4M -> <<2688, 1592>>
    [] t \in Of8M \cup {IMX305_8M} -> <<3840, 2160>>
    [] t = IMX305_3584 -> <<3584, 2160>>
    [] OTHER -> <<1920, 1080>>

GetFrameRateBySensor(t) ==
  CASE t = OV08_60 -> 60 [] t \in OV04s -> 25 [] t \in IMX305s -> 40 [] OTHER -> 30

\* GetSizeBySensor followed by cnsampleCommSysGetPicSize.
GetSizeBySensor(t) ==
  CASE t = OV04_2560 -> "PIC_2560x1440"
    [] t \in Of2688 -> "PIC_2688x1520"
    [] t = OV08_4M -> "PIC_2688x1592"
    [] t \in Of8M -> "PIC_3840x2160"
    [] t = IMX305_8M -> "PIC_3840x2173"
    [] t = IMX305_3584 -> "PIC_3584x2172"
    [] t \in IMX327s -> "PIC_1080P"
    [] OTHER -> "PIC_720P"

SysGetPicSize(p) ==
  CASE p = "PIC_2560x1440" -> <<2560, 1440>>
    [] p = "PIC_2688x1520" -> <<2688, 1520>>
    [] p = "PIC_2688x1592" -> <<2688, 1592>>
    [] p = "PIC_3840x2160" -> <<3840, 2160>>
    [] p = "PIC_3840x2173" -> <<3840, 2173>>
    [] p = "PIC_3584x2172" -> <<3584, 2172>>
    [] p = "PIC_1080P" -> <<1920, 1080>>
    [] p = "PIC_720P" -> <<1280, 720>>

\* WDR modes as the number of exposures in a picture.
GetWdrModeBySensor(t) == IF t \in TwoToOne THEN 2 ELSE 1

-----------------------------------------------------------------------------
(* cnsample_comm_mipi.cpp: the receiver. *)

GetMipiComboModeBySns(t) ==
  IF t \in {IMX327_SLV, OV08_4M, OV08_2688} \cup OV04s THEN 7 ELSE 0

ComboAttr(mode, lanes, bits, frames) ==
  [mode |-> mode, lanes |-> lanes, bits |-> bits, frames |-> frames]

GetComboAttrBySns(t) ==
  CASE t \in OV04s -> ComboAttr("mipi", 2, 10, 1)
    [] t \in {OV08_4M, OV08_2688} -> ComboAttr("mipi", 2, 12, 1)
    [] t = OV08_60 -> ComboAttr("mipi", 4, 10, 1)
    [] t \in {OV08_8M, IMX334, IMX327} -> ComboAttr("mipi", 4, 12, 1)
    [] t \in {OV08_2688_WDR, OV08_8M_WDR} -> ComboAttr("mipi", 4, 10, 2)
    [] t \in IMX305s -> ComboAttr("lvds", 16, 12, 1)
    [] t = IMX327_SLV -> ComboAttr("mipi", 2, 12, 1)
    [] t = IMX327_WDR -> ComboAttr("mipi", 4, 12, 2)

\* kHz of the clock fed to the sensor.
GetClockBySensor(t) ==
  CASE t \in OV04s \cup OV08s -> 24000
    [] t \in IMX305s \cup {IMX334} -> 74250
    [] OTHER -> 37125

-----------------------------------------------------------------------------
(* cnsample_comm_isp.cpp: the ISP and the sensor itself. *)

GetSnsWorkModeBySns(t) ==
  IF t \in {IMX327_SLV} \cup OV04s THEN "slave" ELSE "master"

\* The driver of the sensor; none was written for the IMX334.
GetSensorObj(t) ==
  CASE t \in OV04s -> "ov04a10" [] t \in OV08s -> "ov08a20"
    [] t \in IMX305s -> "imx305" [] t \in IMX327s -> "imx327"
    [] OTHER -> "null"

SensorFmt(size, bits, frames, lanes) ==
  [size |-> size, bits |-> bits, frames |-> frames, lanes |-> lanes]

\* The format the sensor is set to.  For the types of the default case the
\* result is not looked at, and the initial values stay.
GetSensorCfgBySns(t) ==
  CASE t = IMX305_8M -> SensorFmt(<<3840, 2160>>, 12, 1, 16)
    [] t = IMX305_3584 -> SensorFmt(<<3584, 2160>>, 12, 1, 16)
    [] t = IMX327 -> SensorFmt(<<1920, 1080>>, 12, 1, 4)
    [] t = IMX327_SLV -> SensorFmt(<<1920, 1080>>, 12, 1, 2)
    [] t = OV08_8M -> SensorFmt(<<3840, 2160>>, 12, 1, 4)
    [] t = OV08_60 -> SensorFmt(<<3840, 2160>>, 10, 1, 4)
    [] t = OV08_4M -> SensorFmt(<<2688, 1592>>, 12, 1, 2)
    [] t = OV04_2688 -> SensorFmt(<<2688, 1520>>, 10, 1, 2)
    [] t = OV04_2560 -> SensorFmt(<<2560, 1440>>, 10, 1, 2)
    [] t = OV08_2688 -> SensorFmt(<<2688, 1520>>, 12, 1, 2)
    [] t = OV08_2688_WDR -> SensorFmt(<<2688, 1520>>, 10, 2, 4)
    [] t = OV08_8M_WDR -> SensorFmt(<<3840, 2160>>, 10, 2, 4)
    [] OTHER -> SensorFmt(<<3840, 2160>>, 10, 2, 0)

\* The ISP_PUB_ATTR tables, used when the mode of a running sensor is switched.
IspPubAttr(size, bits, frames) == [size |-> size, bits |-> bits, frames |-> frames]

GetIspAttrBySns(t) ==
  CASE t = OV08_4M -> IspPubAttr(<<2688, 1592>>, 12, 1)
    [] t = OV08_8M -> IspPubAttr(<<3840, 2160>>, 12, 1)
    [] t = OV08_8M_WDR -> IspPubAttr(<<3840, 2160>>, 10, 2)
    [] t = OV08_2688_WDR -> IspPubAttr(<<2688, 1520>>, 10, 2)
    [] OTHER -> IspPubAttr(<<0, 0>>, 0, 0)

\* Ticks of the sensor's clock between two triggers of a slave.
VsyncCycle(t) ==
  IF t = IMX327_SLV
  THEN LET active == 37125000 \div 33750
           line == active + 37125000 \div 4640625
       IN line * 1125 + 4 * line
  ELSE 20 + 24000000 \div GetFrameRateBySensor(t)

\* Types for which IspGetSensorCfgBySns has an entry.
HasSensorCfg(t) == t \notin {IMX327_WDR, IMX334}

\* What the tables must agree on for a picture to come through.
StagesAgree(t) ==
  LET dev == GetDevAttrBySns(t) pipe == GetPipeAttrBySns(t)
      rx == GetComboAttrBySns(t) sns == GetSensorCfgBySns(t)
  IN /\ DevCrop(t) = pipe.size /\ GetChnAttrBySns(t) = pipe.size /\ sns.size = pipe.size
     /\ dev.bits = pipe.bits /\ rx.bits = pipe.bits /\ sns.bits = pipe.bits
     /\ rx.lanes = sns.lanes
     /\ rx.frames = pipe.frames /\ sns.frames = pipe.frames
     /\ GetWdrModeBySensor(t) = pipe.frames
     /\ IsSlaveModeBySensor(t) <=> GetSnsWorkModeBySns(t) = "slave"
     /\ GetMipiComboModeBySns(t) = 7 <=> rx.lanes = 2
     /\ \A o \in SensorTypes :
          GetSensorObj(o) = GetSensorObj(t) => GetClockBySensor(o) = GetClockBySensor(t)
     /\ IsSlaveModeBySensor(t) =>  \* triggered at its frame rate, within 2%
          LET ticks == 1000 * GetClockBySensor(t)
              late == GetFrameRateBySensor(t) * VsyncCycle(t) - ticks
          IN late \in -(ticks \div 50) .. ticks \div 50
     /\ GetIspAttrBySns(t).bits # 0 => GetIspAttrBySns(t) = pipe
====
