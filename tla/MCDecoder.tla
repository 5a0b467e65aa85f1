----------------------------- MODULE MCDecoder -----------------------------
(* Instance of Decoder: both platforms, two picture sizes.                  *)
EXTENDS Decoder

BothPlatforms == {"MLU370", "MLU590"}
TwoSizes == {1, 2}
====
