----------------------------- MODULE MCEncoder -----------------------------
(* Instance of Encoder: both platforms, three interchangeable buffers.      *)
EXTENDS Encoder

BothPlatforms == {"MLU370", "MLU590"}
TwoSizes == {1, 2}
====
