----------------------------- MODULE Letterbox -----------------------------
(***************************************************************************)
(* The handlers of a detection network in the samples: OnPreproc puts a    *)
(* picture into the middle of the input of the network without changing    *)
(* its proportions, OnPostproc turns the boxes the network finds into      *)
(* boxes of the picture.  DetectionRunner and the handlers of the pipeline *)
(* (PreprocYolov3, PostprocYolov3) differ in the size OnPostproc compares  *)
(* the input with: 1280 x 720 whatever the picture, or the picture's.      *)
(* Coordinates of boxes are fractions [num, den]; the rounding of float is *)
(* left out.                                                               *)
(***************************************************************************)
EXTENDS Integers, Sequences, FiniteSets

CONSTANTS
  PictureSizes,  \* sizes of pictures, <<width, height>>
  NetSizes,      \* sizes of inputs
  SampleOutput,  \* SAMPLE_OUTPUT_WIDTH and SAMPLE_OUTPUT_HEIGHT
  BoxSteps,      \* coordinates of boxes in steps of 1/BoxSteps, some outside of 0 .. 1
  Crops,         \* rectangles of the caller: left, top, width, height
  RectMod        \* uint32_t wraps at this value

ASSUME LetterboxConstants ==
  /\ \A s \in PictureSizes \cup NetSizes \cup {SampleOutput} : s[1] \in Nat \ {0} /\ s[2] \in Nat \ {0}
  /\ BoxSteps \in Nat \ {0} /\ RectMod \in Nat /\ RectMod % 2 = 0

VARIABLES
  sample,      \* "pipeline" or "demo"
  pic,         \* size of the picture
  input_order, \* order of the dimensions of the input
  input_shape, \* the dimensions
  handled,     \* "new", "fed", "answered" or "failed"
  crop,        \* part of the picture that is used
  dst_rect,    \* part of the input that is filled
  objs         \* objects of the frame

letterVars == <<sample, pic, input_order, input_shape, handled, crop, dst_rect, objs>>

Orders == {"NHWC", "NCHW", "NTC"}
ShapeOf(order, size) ==
  IF order = "NCHW" THEN <<1, 3, size[2], size[1]>> ELSE <<1, size[2], size[1], 3>>
NoRect == [left |-> 0, top |-> 0, width |-> 0, height |-> 0]

LetterboxInit ==
  /\ sample \in {"pipeline", "demo"}
  /\ pic \in PictureSizes
  /\ input_order \in Orders
  /\ \E size \in NetSizes : input_shape = ShapeOf(input_order, size)
  /\ handled = "new" /\ crop = NoRect /\ dst_rect = NoRect /\ objs = <<>>

-----------------------------------------------------------------------------
(* OnPreproc *)

\* dst_desc.shape, and model_input_w and model_input_h of OnPostproc.
InputSize ==
  IF input_order = "NHWC" THEN <<input_shape[3], input_shape[2]>> ELSE <<input_shape[4], input_shape[3]>>

Ceil(a, b) == -((-a) \div b)
EvenPad(pad) == IF pad % 2 = 1 THEN pad - 1 ELSE pad

\* The sides are compared by their products; a pad is truncated to an integer.
KeepAspectRatio(src, dst) ==
  LET padW == EvenPad(dst[1] - Ceil(src[1] * dst[2], src[2]))
      padH == EvenPad(dst[2] - Ceil(src[2] * dst[1], src[1]))
  IN  CASE src[1] * dst[2] < dst[1] * src[2] ->
             [left |-> padW \div 2, top |-> 0, width |-> dst[1] - padW, height |-> dst[2]]
        [] src[1] * dst[2] > dst[1] * src[2] ->
             [left |-> 0, top |-> padH \div 2, width |-> dst[1], height |-> dst[2] - padH]
        [] OTHER -> [left |-> 0, top |-> 0, width |-> dst[1], height |-> dst[2]]

\* while (left + width > limit) width -= 2, in uint32_t.
FitInto(left, width, limit) ==
  LET fits(k) == (left + width - 2 * k) % RectMod <= limit
      k == CHOOSE k \in 0 .. (RectMod \div 2) : fits(k) /\ \A j \in 0 .. (k - 1) : ~fits(j)
  IN  (width - 2 * k) % RectMod

\* Both sides and the origin are made even, the sides after that made to fit.
Validate(r, size) ==
  LET even(x) == x - (x % 2) IN
  [left |-> even(r.left), top |-> even(r.top),
   width |-> FitInto(even(r.left), even(r.width), size[1]),
   height |-> FitInto(even(r.top), even(r.height), size[2])]

\* The rest of the input keeps the grey of CnedkBufSurfaceMemSet.
OnPreproc(rects) ==
  /\ handled = "new" /\ input_order # "NTC"
  /\ crop' = IF rects = <<>> THEN NoRect ELSE Validate(rects[1], pic)
  /\ dst_rect' = Validate(KeepAspectRatio(pic, InputSize), InputSize)
  /\ handled' = "fed"
  /\ UNCHANGED <<sample, pic, input_order, input_shape, objs>>

\* An order the handlers do not know, or CnedkTransform fails.
PreprocFails ==
  /\ handled = "new" /\ handled' = "failed"
  /\ UNCHANGED <<sample, pic, input_order, input_shape, crop, dst_rect, objs>>

-----------------------------------------------------------------------------
(* OnPostproc *)

Frac(n, d) == [num |-> n, den |-> d]
Below(a, b) == a.num * b.den < b.num * a.den
ClipUnit(a) == IF a.num < 0 THEN Frac(0, 1) ELSE IF a.num > a.den THEN Frac(1, 1) ELSE a

Reference == IF sample = "demo" THEN SampleOutput ELSE pic

\* Mutant: the factors of the two axes are exchanged.
ScalingFactorCrossed(axis) ==
  LET w == InputSize[1] * Reference[2]
      h == InputSize[2] * Reference[1]
  IN  IF axis = "h" THEN (IF w > h THEN Frac(w, h) ELSE Frac(1, 1))
                    ELSE (IF h > w THEN Frac(h, w) ELSE Frac(1, 1))

\* scaling_w / scaling and scaling_h / scaling.
ScalingFactor(axis) ==
  LET w == InputSize[1] * Reference[2]
      h == InputSize[2] * Reference[1]
  IN  IF axis = "w" THEN (IF w > h THEN Frac(w, h) ELSE Frac(1, 1))
                    ELSE (IF h > w THEN Frac(h, w) ELSE Frac(1, 1))

\* (c - 0.5) * factor + 0.5, clipped before and after.
Unboxed(c, axis) ==
  LET a == ClipUnit(c)
      f == ScalingFactor(axis)
  IN  ClipUnit(Frac((2 * a.num - a.den) * f.num + a.den * f.den, 2 * a.den * f.den))

\* What becomes of the boxes with a score, in the order of the network.
Objects(boxes) ==
  LET placed == [i \in DOMAIN boxes |->
                   [score |-> boxes[i].score,
                    l |-> Unboxed(boxes[i].l, "w"), r |-> Unboxed(boxes[i].r, "w"),
                    t |-> Unboxed(boxes[i].t, "h"), b |-> Unboxed(boxes[i].b, "h")]]
  IN  SelectSeq(placed, LAMBDA p : p.score /\ Below(p.l, p.r) /\ Below(p.t, p.b))

OnPostproc(boxes) ==
  /\ handled = "fed" /\ handled' = "answered"
  /\ objs' = Objects(boxes)
  /\ UNCHANGED <<sample, pic, input_order, input_shape, crop, dst_rect>>

\* The output cannot be copied to the host.
PostprocFails ==
  /\ handled = "fed" /\ handled' = "failed"
  /\ UNCHANGED <<sample, pic, input_order, input_shape, crop, dst_rect, objs>>

\* A box of the network: two intervals in steps, some of them empty or too long.
Coordinates == {-1, 0, 1, BoxSteps - 1, BoxSteps + 1}
NetBoxes ==
  { [score |-> s, l |-> Frac(l, BoxSteps), r |-> Frac(r, BoxSteps), t |-> Frac(1, BoxSteps), b |-> Frac(b, BoxSteps)] :
      s \in BOOLEAN, l \in Coordinates, r \in Coordinates, b \in Coordinates }

LetterboxNext ==
  \/ \E c \in Crops : OnPreproc(<<c>>)
  \/ OnPreproc(<<>>) \/ PreprocFails \/ PostprocFails
  \/ \E b \in NetBoxes : OnPostproc(<<b>>)

-----------------------------------------------------------------------------
\* The filled part is inside the input and begins and ends at even places, and so
\* is the part of the picture that is read when the caller's rectangle begins in
\* the picture.
RegionsInside ==
  LET inside(r, size) == /\ r.left + r.width <= size[1] /\ r.top + r.height <= size[2]
                         /\ \A x \in {r.left, r.top, r.width, r.height} : x % 2 = 0
  IN  handled \in {"fed", "answered"} =>
        /\ inside(dst_rect, InputSize)
        /\ crop.left <= pic[1] /\ crop.top <= pic[2] => inside(crop, pic)

\* Where a point of the picture is in the input: at position num/den of the filled part.
Boxed(p, from, length, size) == Frac(from * p.den + p.num * length, p.den * size)

\* |x - y| * unit <= pixels.
Within(x, y, unit, pixels) ==
  LET d == x.num * y.den - y.num * x.den IN (IF d < 0 THEN -d ELSE d) * unit <= pixels * x.den * y.den

\* A point of the picture comes back to its place, up to two pixels of the input
\* that the rounding of the filled part costs; the demo does so for pictures with
\* the proportions of its output.
BoxesComeBack ==
  handled \in {"fed", "answered"} /\ Reference[1] * pic[2] = Reference[2] * pic[1] =>
    \A n \in 0 .. 2 :
      LET p == Frac(n, 2) IN
      /\ Within(Unboxed(Boxed(p, dst_rect.left, dst_rect.width, InputSize[1]), "w"), p, dst_rect.width, 2)
      /\ Within(Unboxed(Boxed(p, dst_rect.top, dst_rect.height, InputSize[2]), "h"), p, dst_rect.height, 2)

\* Objects have an extent and lie on the picture, whatever the network says.
ObjectsOnPicture ==
  \A i \in DOMAIN objs :
    /\ Below(objs[i].l, objs[i].r) /\ Below(objs[i].t, objs[i].b)
    /\ \A c \in {objs[i].l, objs[i].r, objs[i].t, objs[i].b} : 0 <= c.num /\ c.num <= c.den

\* The way of a picture into the input of a network and of a box back to it.
LetterboxExact == RegionsInside /\ BoxesComeBack /\ ObjectsOnPicture
==============================================================================
