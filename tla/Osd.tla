-------------------------------- MODULE Osd --------------------------------
(***************************************************************************)
(* Drawing on a frame (CE3226): MpsService::OsdDrawBboxes collects the     *)
(* rectangles of each colour and hands them to the hardware in batches.    *)
(* OsdFillBboxes and OsdPutText compare the format with two values at once *)
(* and return -1 for every frame (Refuse).                                 *)
(***************************************************************************)
EXTENDS Integers, Sequences, Sublists

CONSTANTS
  FrameW, FrameH,  \* u32Width and u32Height of the frame
  Boxes,           \* boxes of the caller: x, y, w, h and color
  MaxBoxes,        \* bound on the boxes of a call
  MaxOsdNum,       \* kMaxOsdNum
  OsdMod,          \* uint32_t wraps at this value
  Colors           \* colours in the order of the map

ASSUME OsdConstants ==
  /\ FrameW \in Nat \ {0} /\ FrameH \in Nat \ {0} /\ MaxBoxes \in Nat /\ MaxOsdNum \in Nat \ {0}
  /\ OsdMod \in Nat /\ OsdMod > FrameW /\ OsdMod > FrameH /\ OsdMod % 2 = 0
  /\ \A b \in Boxes : /\ b.x \in 0 .. (OsdMod - 1) /\ b.y \in 0 .. (OsdMod - 1)
                      /\ b.w \in 0 .. (OsdMod - 1) /\ b.h \in 0 .. (OsdMod - 1)
                      /\ b.color \in Elems(Colors)
  /\ Colors \in Seq(Elems(Colors)) /\ Distinct(Colors)

VARIABLES
  todo,     \* boxes of the call
  batches,  \* what was drawn: lists of places in todo
  osd       \* "idle", "drawing", "done", "failed" or "refused"

osdVars == <<todo, batches, osd>>

Even(x) == x - (x % 2)

\* while (x1 + w >= width) w -= 2, in uint32_t.
Shrunk(x1, w, width) ==
  LET k == CHOOSE k \in 0 .. (OsdMod \div 2) :
             /\ (x1 + w - 2 * k) % OsdMod < width
             /\ \A j \in 0 .. (k - 1) : (x1 + w - 2 * j) % OsdMod >= width
  IN (w - 2 * k) % OsdMod

RectOf(b) ==
  [x |-> Even(b.x), y |-> Even(b.y),
   w |-> Shrunk(Even(b.x), Even(b.w), FrameW), h |-> Shrunk(Even(b.y), Even(b.h), FrameH)]

Empty(b) == RectOf(b).w = 0 \/ RectOf(b).h = 0

\* rects_map[color]: the boxes that are left, in the order of the call.
Rects(color) ==
  Without([i \in DOMAIN todo |-> i], {i \in DOMAIN todo : todo[i].color # color \/ Empty(todo[i])})

\* Mutant: the array is not emptied after it was drawn when it was full.
BatchedKeeps(rects) ==
  [k \in 1 .. (IF Len(rects) < MaxOsdNum THEN Len(Parts(rects, MaxOsdNum)) ELSE Len(rects) - MaxOsdNum + 2) |->
     SubSeq(rects, 1, Least(MaxOsdNum, Len(rects)))]

\* The loop over the boxes of a colour: a full array is drawn and emptied, and
\* what is in it at the end is drawn.
Batched(rects) == Parts(rects, MaxOsdNum)

BatchesOf(k) == Batched(Rects(Colors[k]))

Plan == Flat([k \in DOMAIN Colors |-> BatchesOf(k)])

\* CnedkDrawRect with the boxes of the caller.
DrawRect(s) ==
  /\ osd = "idle"
  /\ todo' = s /\ batches' = <<>> /\ osd' = "drawing"

\* cng2dDrawRect and cng2dSubmit of the next batch.
Submit ==
  /\ osd = "drawing" /\ Len(batches) < Len(Plan)
  /\ batches' = Append(batches, Plan[Len(batches) + 1])
  /\ UNCHANGED <<todo, osd>>

\* One of them fails: the batches before it stay drawn.
SubmitFails ==
  /\ osd = "drawing" /\ Len(batches) < Len(Plan)
  /\ osd' = "failed"
  /\ UNCHANGED <<todo, batches>>

\* cng2dWaitAllDone.
Drawn ==
  /\ osd = "drawing" /\ Len(batches) = Len(Plan)
  /\ osd' \in {"done", "failed"}
  /\ UNCHANGED <<todo, batches>>

\* CnedkFillRect and CnedkDrawBitmap.
Refuse(s) ==
  /\ osd = "idle"
  /\ todo' = s /\ batches' = <<>> /\ osd' = "refused"

OsdInit == todo = <<>> /\ batches = <<>> /\ osd = "idle"

OsdNext ==
  \/ \E n \in 0 .. MaxBoxes : \E s \in [1 .. n -> Boxes] : DrawRect(s)
  \/ \E b \in Boxes : Refuse(<<b>>)
  \/ Submit \/ SubmitFails \/ Drawn

OsdSpec == OsdInit /\ [][OsdNext]_osdVars

-----------------------------------------------------------------------------
\* A side that starts on the frame and does not wrap ends inside the frame; a box
\* with a negative size may still be drawn outside of it.
Inside(b1, bw, x1, w, width) == b1 < width /\ b1 + bw < OsdMod => x1 + w <= width - 1

DrawnInside ==
  \A i \in Contents(batches) :
    LET b == todo[i]
        r == RectOf(b)
    IN Inside(b.x, b.w, r.x, r.w, FrameW) /\ Inside(b.y, b.h, r.y, r.h, FrameH)

Wanted == {i \in DOMAIN todo : ~Empty(todo[i])}

\* A box is drawn at most once, in a batch of its colour that is not too long, and
\* when the call returned 0 every box that is not empty was drawn.
DrawnOnce ==
  /\ Scattered(batches) /\ Contents(batches) \subseteq Wanted
  /\ \A q \in Elems(batches) : /\ Len(q) \in 1 .. MaxOsdNum
                               /\ \A i, j \in Elems(q) : todo[i].color = todo[j].color
  /\ osd = "done" => Contents(batches) = Wanted

\* Every box is drawn once and inside the frame, whatever the batches.
BoxesDrawn == DrawnInside /\ DrawnOnce

-----------------------------------------------------------------------------
(* The inductive invariant of BoxesDrawn *)

\* What was drawn is the first batches of the plan.
OsdInv ==
  /\ todo \in Seq(Boxes) /\ osd \in {"idle", "drawing", "done", "failed", "refused"}
  /\ batches \in Seq(Elems(Plan)) /\ Len(batches) <= Len(Plan)
  /\ \A k \in DOMAIN batches : batches[k] = Plan[k]
  /\ osd = "done" => Len(batches) = Len(Plan)
==============================================================================
