------------------------------- MODULE MCMps -------------------------------
(* Instance of Mps: every sensor type alone, two sensors with display on both *)
(* kinds of driver, the switches set, no device at all; two channels.        *)
EXTENDS Mps

CONSTANTS u1, u2

TwoUsers == {u1, u2}
OneUser == {u1}

Sns(t, v) == [type |-> t, vpps |-> v]
Cfg(s, vo, sw, st) == [sensors |-> s, vout |-> vo, switching |-> sw, strict |-> st]
TwoSensors == <<Sns(OV04_2688, TRUE), Sns(IMX305_8M, FALSE)>>

SomeConfigs ==
  {Cfg(<<Sns(t, FALSE)>>, FALSE, FALSE, FALSE) : t \in SensorTypes}
  \cup {Cfg(TwoSensors, TRUE, FALSE, st) : st \in BOOLEAN}
  \cup {Cfg(<<Sns(OV08_8M, TRUE)>>, FALSE, TRUE, st) : st \in BOOLEAN}
  \cup {Cfg(<<>>, TRUE, FALSE, TRUE), Cfg(<<>>, FALSE, FALSE, FALSE)}
====
