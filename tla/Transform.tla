----------------------------- MODULE Transform -----------------------------
(***************************************************************************)
(* CnedkTransform on one thread: the dispatch of the transformers, the     *)
(* CNCV contexts a thread keeps between calls (device buffers, workspace   *)
(* and queue), the VGU of CE3226 with its fall back to CNCV, and the       *)
(* session parameters of the thread.  All of this state is thread_local.   *)
(*                                                                         *)
(* A surface is its format, memory type, size class and number of          *)
(* elements.  A kernel of CNCV or a job of the VGU (external) writes the   *)
(* elements of the target from the elements of the source it is given;     *)
(* out[i] is the element of the source that element i of the target was    *)
(* made from.  A device buffer is its capacity in pointers: Null is a      *)
(* nullptr and Freed a pointer that was freed and not replaced.            *)
(*                                                                         *)
(* The contexts loop over batch_size of the source, the transformers       *)
(* compare num_filled with the target.  What a context does past the last  *)
(* element of its target is undefined: the model notes the context in      *)
(* overran and stops there.  shape.n of a description is the batch size of *)
(* the target.                                                             *)
(***************************************************************************)
EXTENDS Integers, Sequences, Sublists

CONSTANTS
  Transforms,  \* calls of CnedkTransform, see TransformConstants
  Workspaces,  \* sizes of a workspace CNCV asks for
  Queues,      \* queues of the caller; 1 is the one the transformer makes
  MinVgu,      \* least width and height the VGU takes (64)
  UintMod,     \* uint32_t wraps at this value
  MaxTransforms

\* A call: formats, memory types and width of the source and the target, the
\* batch sizes of both, num_filled of the source, the format and data type of
\* the tensor description, the flag MEAN_STD, and the rectangle to crop.
ASSUME TransformConstants ==
  /\ Workspaces \subseteq Nat \ {0} /\ Queues \subseteq Nat \ {0, 1}
  /\ MinVgu \in Nat /\ UintMod \in Nat /\ MaxTransforms \in Nat
  /\ \A c \in Transforms :
       /\ {c.n, c.dn} \subseteq Nat \ {0} /\ c.filled \in 1 .. c.n
       /\ {c.width, c.dwidth} \subseteq 1 .. (UintMod - 1)
       /\ c.mean_std \in BOOLEAN /\ c.crop \in BOOLEAN
       /\ {c.left, c.w} \subseteq 0 .. (UintMod - 1)

Null == 0
Freed == -1

Yuv == {"NV12", "NV21"}
Rgbx == {"RGB", "BGR", "RGBA", "BGRA", "ABGR", "ARGB"}
VbTypes == {"VB", "VB_CACHED"}
DeviceTypes == VbTypes \cup {"UNIFIED", "UNIFIED_CACHED", "DEVICE"}

VARIABLES
  platform,     \* "CE3226" or "MLU": CreateTransformer
  mode, queue,  \* config_params_ of the thread; Null is no queue, 1 its own
  ctx,          \* the contexts that were made, by name
  made,         \* their names, in the order they were made
  scratch,      \* mlu_ptr_ and src_yuv_mlu_: pointer and size
  deadq,        \* queues that were destroyed
  call,         \* the last call and what it did: result, out, roi
  failed,       \* contexts and scratch buffers an allocation of which failed
  misused,      \* those of which a short or freed buffer was used or freed
  overran,      \* contexts that indexed their target past its last element
  replaced,     \* a context has another queue than the thread
  badq,         \* a queue was used or destroyed after it was destroyed
  transforms

transformVars == <<platform, mode, queue, ctx, made, scratch, deadq, call, failed,
                   misused, overran, replaced, badq, transforms>>

OwnQueue == 1
ScratchNames == {"mlu_ptr_", "src_yuv_mlu_"}

NewContext(q) ==
  [queue |-> q, batch_size_ |-> 0, mlu_input_ |-> Null, mlu_output_ |-> Null,
   cpu |-> 0, workspace_ |-> Null, workspace_size_ |-> 0]

-----------------------------------------------------------------------------
(* Process of a context, as a function of the context.  fail names the      *)
(* allocation that fails, if any.  batch_size_ and workspace_size_ are set  *)
(* before the allocations they describe.                                    *)

Released(b) == IF b = Null THEN Null ELSE Freed

\* Mutant: the arrays are made once.
GrowOnce(c, n, pi, po, fail) ==
  IF c.batch_size_ > 0 THEN c
  ELSE IF fail = "input" THEN [c EXCEPT !.batch_size_ = n, !.mlu_input_ = Released(@)]
  ELSE IF fail = "output"
       THEN [c EXCEPT !.batch_size_ = n, !.mlu_input_ = pi * n, !.mlu_output_ = Released(@)]
  ELSE [c EXCEPT !.batch_size_ = n, !.mlu_input_ = pi * n, !.mlu_output_ = po * n, !.cpu = n]

\* The arrays of pointers, pi to the planes of an input and po of an output.
Grow(c, n, pi, po, fail) ==
  IF c.batch_size_ >= n THEN c
  ELSE IF fail = "input" THEN [c EXCEPT !.batch_size_ = n, !.mlu_input_ = Released(@)]
  ELSE IF fail = "output"
       THEN [c EXCEPT !.batch_size_ = n, !.mlu_input_ = pi * n, !.mlu_output_ = Released(@)]
  ELSE [c EXCEPT !.batch_size_ = n, !.mlu_input_ = pi * n, !.mlu_output_ = po * n, !.cpu = n]

Workspace(c, req, fail) ==
  IF c.workspace_size_ = req THEN c
  ELSE [c EXCEPT !.workspace_size_ = req,
                 !.workspace_ = IF fail = "workspace" THEN Released(@) ELSE req]

\* The context after n elements of the source and a target of len elements, whether
\* the call returned 0, whether an allocation failed in it, whether all buffers it
\* used or freed were good, and whether it left the target.
Process(c, n, len, pi, po, req, fail) ==
  LET grows == c.batch_size_ < n
      g == Grow(c, n, pi, po, fail)
      short == grows /\ fail \in {"input", "output"}
      w == IF short THEN g ELSE Workspace(g, req, fail)
      nows == ~short /\ c.workspace_size_ # req /\ fail = "workspace"
      freedwell == /\ grows => c.mlu_input_ # Freed /\ (fail # "input" => c.mlu_output_ # Freed)
                   /\ ~short /\ c.workspace_size_ # req => c.workspace_ # Freed
      usedwell == short \/ ( /\ w.cpu >= n /\ w.mlu_input_ >= pi * n /\ w.mlu_output_ >= po * n
                             /\ nows \/ w.workspace_ >= req )
  IN [ctx |-> w, ok |-> ~short /\ ~nows /\ fail # "kernel", nomem |-> short \/ nows,
      good |-> freedwell /\ usedwell, over |-> ~short /\ n > len]

\* Planes of the input and the output of each kind of context.
PlanesIn(k) == IF k \in {"MeanStd", "rms.MeanStd"} THEN 1 ELSE 2
PlanesOut(k) == IF k \in {"YuvResize", "r2y.YuvResize"} THEN 2 ELSE 1

\* mlu_ptr_ (compared with nullptr and its size) and src_yuv_mlu_ (its size).
\* Here the size is set after the allocation.
Scratch(b, need, fail) ==
  LET grows == b.size < need IN
  [buf |-> IF ~grows THEN b
           ELSE IF fail = "scratch" THEN [b EXCEPT !.ptr = Released(@)]
           ELSE [ptr |-> need, size |-> need],
   ok |-> ~(grows /\ fail = "scratch"),
   good |-> IF grows THEN b.ptr # Freed ELSE b.ptr >= need]

-----------------------------------------------------------------------------
(* The region of interest in one dimension.                                 *)

RoiCncv(c) ==
  IF ~c.crop THEN [x |-> 0, w |-> c.width]
  ELSE [x |-> IF c.left >= c.width THEN 0 ELSE c.left,
        w |-> IF c.w = 0 THEN (c.width - c.left) % UintMod ELSE c.w]

RoiVgu(c) == IF ~c.crop THEN [x |-> 0, w |-> c.width] ELSE [x |-> c.left, w |-> c.w]

-----------------------------------------------------------------------------
(* DoCncvTransform.  The effect of a call is a record of the new state.     *)

\* The format CNCV writes; a tensor has the format of its description.
Target(c) == IF c.dst = "TENSOR" THEN c.dfmt ELSE c.dst

Op(c) ==
  IF c.src = "TENSOR" THEN "unsupported"
  ELSE IF c.dst = "TENSOR" /\ c.mean_std
  THEN IF c.src \in Yuv /\ c.dfmt \in Rgbx THEN "resize_meanstd"
       ELSE IF c.src = c.dfmt THEN "meanstd" ELSE "unsupported"
  ELSE IF c.src \in Rgbx /\ Target(c) \in Yuv THEN "rgbx2yuv"
  ELSE IF c.src \in Yuv /\ Target(c) \in Rgbx THEN "convert"
  ELSE IF c.src \in Yuv /\ c.src = Target(c) THEN "resize" ELSE "unsupported"

\* The contexts behind an operation, in the order they are made.
Contexts(op) ==
  IF op = "resize" THEN <<"YuvResize">>
  ELSE IF op = "convert" THEN <<"Yuv2Rgbx">>
  ELSE IF op = "meanstd" THEN <<"MeanStd">>
  ELSE IF op = "resize_meanstd" THEN <<"rms.MeanStd", "rms.Yuv2Rgbx">>
  ELSE IF op = "rgbx2yuv" THEN <<"r2y.RgbxToYuv", "r2y.YuvResize">>
  ELSE <<>>

\* mean_std_->Process refuses a data type; with a return value of 1 it succeeds.
FloatType(c) == c.data_type \in {"FLOAT16", "FLOAT32"}

\* The contexts when those of the operation were made.
Now(op) ==
  [k \in DOMAIN ctx \cup Elems(Contexts(op)) |->
     IF k \in DOMAIN ctx THEN ctx[k]
     ELSE NewContext(IF queue = Null THEN OwnQueue ELSE queue)]

\* No element of the target is written.
Nothing(c) == [i \in 0 .. (c.dn - 1) |-> -1]

\* Elements of the target, from the element of the source at the same place or from
\* the first one.  What a larger source makes of the memory after them is left out.
FromEach(c) == [i \in 0 .. (c.dn - 1) |-> IF i < c.n THEN i ELSE -1]
FromFirst(c, n) == [i \in 0 .. (c.dn - 1) |-> IF i < n THEN 0 ELSE -1]

\* x, if something went wrong.
Unless(b, x) == IF b THEN {} ELSE {x}

\* One context, then what it wrote.
Single(c, k, new, req, fail) ==
  LET r == Process(new[k], c.n, c.dn, PlanesIn(k), PlanesOut(k), req, fail) IN
  [ctx |-> [new EXCEPT ![k] = r.ctx], scratch |-> scratch,
   ret |-> IF r.ok THEN 0 ELSE -1, out |-> IF r.ok THEN FromEach(c) ELSE Nothing(c),
   nomem |-> Unless(~r.nomem, k), bad |-> Unless(r.good, k),
   over |-> Unless(~r.over, k), used |-> {k}]

Refused(c, new) ==
  [ctx |-> new, scratch |-> scratch, ret |-> -1, out |-> Nothing(c),
   nomem |-> {}, bad |-> {}, over |-> {}, used |-> {}]

\* Process of the three contexts that stand alone.
YuvResize(c, new, req, fail) == Single(c, "YuvResize", new, req, fail)
Yuv2Rgbx(c, new, req, fail) == Single(c, "Yuv2Rgbx", new, req, fail)
MeanStd(c, new, req, fail) ==
  IF FloatType(c) THEN Single(c, "MeanStd", new, req, fail) ELSE Refused(c, new)

\* Yuv2RgbxResizeWithMeanStdCncv: convert into mlu_ptr_, which has as many elements
\* as the target, then normalise all of those.
ResizeMeanStd(c, new, req, stage, fail) ==
  LET b == Scratch(scratch["mlu_ptr_"], c.dn * c.dwidth, fail)
      r == Process(new["rms.Yuv2Rgbx"], c.n, c.dn, 2, 1, req, IF stage = 1 THEN fail ELSE "none")
      m == Process(new["rms.MeanStd"], c.dn, c.dn, 1, 1, req, IF stage = 2 THEN fail ELSE "none")
      norms == b.ok /\ r.ok /\ FloatType(c)
      conv == IF b.ok THEN [new EXCEPT !["rms.Yuv2Rgbx"] = r.ctx] ELSE new
  IN [ctx |-> IF norms THEN [conv EXCEPT !["rms.MeanStd"] = m.ctx] ELSE conv,
      scratch |-> [scratch EXCEPT !["mlu_ptr_"] = b.buf],
      ret |-> IF norms /\ m.ok THEN 0 ELSE -1,
      out |-> IF norms /\ m.ok THEN FromEach(c) ELSE Nothing(c),
      nomem |-> Unless(b.ok, "mlu_ptr_") \cup Unless(~(b.ok /\ r.nomem), "rms.Yuv2Rgbx")
                  \cup Unless(~(norms /\ m.nomem), "rms.MeanStd"),
      bad |-> Unless(b.good, "mlu_ptr_") \cup Unless(~b.ok \/ r.good, "rms.Yuv2Rgbx")
                \cup Unless(~norms \/ m.good, "rms.MeanStd"),
      over |-> Unless(~(b.ok /\ r.over), "rms.Yuv2Rgbx") \cup Unless(~(norms /\ m.over), "rms.MeanStd"),
      used |-> Unless(~b.ok, "rms.Yuv2Rgbx") \cup Unless(~norms, "rms.MeanStd")]

\* Rgbx2YuvResizeAndConvert: RgbxToYuv reads element 0 of the source for every
\* element ...
RgbxToYuv(c, new, fail) ==
  [ctx |-> new, scratch |-> scratch, ret |-> IF fail = "kernel" THEN -1 ELSE 0,
   out |-> IF fail = "kernel" THEN Nothing(c) ELSE FromFirst(c, c.n),
   nomem |-> {}, bad |-> {}, over |-> Unless(fail = "kernel" \/ c.n <= c.dn, "r2y.RgbxToYuv"),
   used |-> {"r2y.RgbxToYuv"}]

\* ... with a resize, into src_yuv_mlu_, which is a surface of one element on the
\* stack, whatever the source has: the elements after the first leave it.
RgbxToYuvResize(c, new, req, stage, fail) ==
  LET b == Scratch(scratch["src_yuv_mlu_"], c.width, fail)
      r == Process(new["r2y.YuvResize"], 1, c.dn, 2, 2, req, IF stage = 2 THEN fail ELSE "none")
      resizes == b.ok /\ ~(stage = 1 /\ fail = "kernel")
  IN [ctx |-> IF resizes THEN [new EXCEPT !["r2y.YuvResize"] = r.ctx] ELSE new,
      scratch |-> [scratch EXCEPT !["src_yuv_mlu_"] = b.buf],
      ret |-> IF resizes /\ r.ok THEN 0 ELSE -1,
      out |-> IF resizes /\ r.ok THEN FromFirst(c, 1) ELSE Nothing(c),
      nomem |-> Unless(b.ok, "src_yuv_mlu_") \cup Unless(~(resizes /\ r.nomem), "r2y.YuvResize"),
      bad |-> Unless(b.good, "src_yuv_mlu_") \cup Unless(~resizes \/ r.good, "r2y.YuvResize"),
      over |-> Unless(~resizes \/ c.n <= 1, "r2y.RgbxToYuv") \cup Unless(~(resizes /\ r.over), "r2y.YuvResize"),
      used |-> Unless(~b.ok, "r2y.RgbxToYuv") \cup Unless(~resizes, "r2y.YuvResize")]

Rgbx2Yuv(c, new, req, stage, fail) ==
  IF c.width = c.dwidth THEN RgbxToYuv(c, new, fail) ELSE RgbxToYuvResize(c, new, req, stage, fail)

CncvTransform(c, req, stage, fail) ==
  LET op == Op(c)
      new == Now(op)
  IN IF op = "unsupported" THEN Refused(c, new)
     ELSE IF op = "meanstd" THEN MeanStd(c, new, req, fail)
     ELSE IF op = "resize_meanstd" THEN ResizeMeanStd(c, new, req, stage, fail)
     ELSE IF op = "rgbx2yuv" THEN Rgbx2Yuv(c, new, req, stage, fail)
     ELSE IF op = "resize" THEN YuvResize(c, new, req, fail)
     ELSE Yuv2Rgbx(c, new, req, fail)

-----------------------------------------------------------------------------
(* The transformers.                                                        *)

\* TransformerMlu370 and TransformerMlu590.
MluAccepts(c) ==
  /\ mode \in {"MLU", "DEFAULT"} /\ c.filled <= c.dn
  /\ c.smem = "DEVICE" /\ c.dmem = "DEVICE"

\* TransformerCe3226 refuses memory only when both sides are wrong.
Ce3226Accepts(c) ==
  /\ c.filled <= c.dn
  /\ c.smem \in DeviceTypes \/ c.dmem \in DeviceTypes

Accepts(c) == IF platform = "MLU" THEN MluAccepts(c) ELSE Ce3226Accepts(c)

\* The VGU is tried first for video buffers.
UsesVgu(c) ==
  /\ platform = "CE3226" /\ mode \in {"VGU", "DEFAULT"}
  /\ c.smem \in VbTypes /\ c.dmem \in VbTypes /\ ~c.mean_std

\* What TransformHw checks of every element before its job.
VguTakes(c) ==
  /\ c.src \in Yuv /\ Target(c) = "BGR"
  /\ RoiVgu(c).w >= MinVgu /\ c.dwidth >= MinVgu

\* The job of element j fails; elements 0 .. j - 1 are written.
VguWrote(c, j) == [i \in 0 .. (c.dn - 1) |-> IF i < j THEN i ELSE -1]

\* What CNCV left of the target, where it did not write.
Over(out, before) == [i \in DOMAIN out |-> IF out[i] = -1 THEN before[i] ELSE out[i]]

Effect(c, e, before) ==
  /\ ctx' = e.ctx /\ scratch' = e.scratch
  /\ made' = made \o Without(Contexts(Op(c)), DOMAIN ctx)
  /\ queue' = IF DOMAIN e.ctx # DOMAIN ctx /\ queue = Null THEN OwnQueue ELSE queue
  /\ failed' = failed \cup e.nomem /\ misused' = misused \cup e.bad
  /\ overran' = overran \cup e.over
  /\ badq' = (badq \/ \E k \in e.used : e.ctx[k].queue \in deadq)
  /\ call' = [args |-> c, result |-> e.ret, out |-> Over(e.out, before), roi |-> RoiCncv(c)]
  /\ UNCHANGED <<platform, mode, deadq, replaced>>

TransformCall ==
  overran = {} /\ transforms < MaxTransforms /\ transforms' = transforms + 1

NoRoi == [x |-> 0, w |-> 0]
NoTransform == [args |-> [n |-> 0], result |-> -1, out |-> <<>>, roi |-> NoRoi]

Rejected(c) ==
  /\ TransformCall /\ ~Accepts(c)
  /\ call' = [args |-> c, result |-> -1, out |-> Nothing(c), roi |-> NoRoi]
  /\ UNCHANGED <<platform, mode, queue, ctx, made, scratch, deadq, failed, misused, overran, replaced, badq>>

\* The VGU did all elements of num_filled.
TransformHw(c) ==
  /\ TransformCall /\ Accepts(c) /\ UsesVgu(c) /\ VguTakes(c)
  /\ call' = [args |-> c, result |-> 0, out |-> VguWrote(c, c.filled), roi |-> RoiVgu(c)]
  /\ UNCHANGED <<platform, mode, queue, ctx, made, scratch, deadq, failed, misused, overran, replaced, badq>>

\* CNCV from the start, or after the VGU did a part (it is done again).
Transform(c, req, stage, fail, j) ==
  /\ TransformCall /\ Accepts(c)
  /\ IF UsesVgu(c) /\ VguTakes(c) THEN j \in 0 .. (c.filled - 1) ELSE j = 0
  /\ Effect(c, CncvTransform(c, req, stage, fail), VguWrote(c, j))

-----------------------------------------------------------------------------
(* Session parameters and the end of the thread.                            *)

\* A queue is replaced by destroying the old one; contexts keep theirs.
Session(st, q) ==
  IF q = Null \/ q = st.queue THEN st
  ELSE [queue |-> q, dead |-> IF st.queue = Null THEN st.dead ELSE st.dead \cup {st.queue},
        bad |-> st.bad \/ st.queue \in st.dead]

SetSessionParams(m, q) ==
  LET st == Session([queue |-> queue, dead |-> deadq, bad |-> badq], q) IN
  /\ TransformCall /\ q \notin deadq
  /\ mode' = m /\ queue' = st.queue /\ deadq' = st.dead /\ badq' = st.bad
  /\ replaced' = (replaced \/ \E k \in DOMAIN ctx : ctx[k].queue # st.queue)
  /\ UNCHANGED <<platform, ctx, made, scratch, call, failed, misused, overran>>

\* ~CncvContext hands the parameters it was made with to SetSessionParams: the
\* session after the last n contexts that were made are gone, for every n.
Unwound ==
  LET f[n \in 0 .. Len(made)] ==
        IF n = 0 THEN [queue |-> queue, dead |-> deadq, bad |-> badq]
        ELSE Session(f[n - 1], ctx[made[Len(made) + 1 - n]].queue)
  IN  f

ThreadExits ==
  LET st == Unwound[Len(made)] IN
  /\ overran = {} /\ made # <<>>
  /\ queue' = st.queue /\ deadq' = st.dead /\ badq' = st.bad
  /\ ctx' = <<>> /\ made' = <<>>
  /\ scratch' = [k \in DOMAIN scratch |-> [ptr |-> Null, size |-> 0]]
  /\ misused' = misused \cup {k \in DOMAIN scratch : scratch[k].ptr = Freed}
       \cup {k \in DOMAIN ctx : Freed \in {ctx[k].mlu_input_, ctx[k].mlu_output_, ctx[k].workspace_}}
  /\ transforms' = MaxTransforms
  /\ UNCHANGED <<platform, mode, call, failed, overran, replaced>>

TransformInit ==
  /\ platform \in {"CE3226", "MLU"}
  /\ mode = "DEFAULT" /\ queue = Null /\ ctx = <<>> /\ made = <<>>
  /\ scratch = [k \in ScratchNames |-> [ptr |-> Null, size |-> 0]]
  /\ deadq = {} /\ call = NoTransform /\ failed = {} /\ misused = {} /\ overran = {}
  /\ replaced = FALSE /\ badq = FALSE /\ transforms = 0

\* Which of the two contexts of an operation meets the failure.
Stages(c) == IF Op(c) \in {"resize_meanstd", "rgbx2yuv"} THEN 1 .. 2 ELSE {1}
Fails == {"none", "input", "output", "workspace", "scratch", "kernel"}

TransformNext ==
  \/ \E c \in Transforms :
       \/ Rejected(c) \/ TransformHw(c)
       \/ \E req \in Workspaces, stage \in Stages(c), fail \in Fails, j \in 0 .. (c.filled - 1) :
            Transform(c, req, stage, fail, j)
  \/ \E m \in {"MLU", "VGU", "DEFAULT"}, q \in Queues \cup {Null} : SetSessionParams(m, q)
  \/ ThreadExits

TransformSpec == TransformInit /\ [][TransformNext]_transformVars

-----------------------------------------------------------------------------
TransformTypeOK ==
  /\ platform \in {"CE3226", "MLU"}
  /\ mode \in {"MLU", "VGU", "DEFAULT"} /\ queue \in Queues \cup {Null, OwnQueue}
  /\ Elems(made) = DOMAIN ctx /\ deadq \subseteq Queues \cup {OwnQueue}
  /\ \A k \in DOMAIN ctx :
       /\ ctx[k].queue \in Queues \cup {OwnQueue}
       /\ {ctx[k].mlu_input_, ctx[k].mlu_output_, ctx[k].workspace_} \subseteq Nat \cup {Freed}
  /\ overran \subseteq DOMAIN ctx /\ {replaced, badq} \subseteq BOOLEAN /\ transforms \in 0 .. MaxTransforms

\* The arrays, the workspace and the scratch memory a context keeps from one
\* call to the next are large enough for every later call, and none is used or
\* freed after it was freed, unless one of its allocations failed before.
BuffersSuffice == misused \subseteq failed

\* A call that returns 0 has made element i of the target from element i of the
\* source for all of num_filled, whether the VGU, CNCV or both in turn worked on
\* it.  RgbxToYuv is right for one element only.
EveryElementTransformed ==
  overran = {} /\ call.args.n # 0 /\ call.result = 0 /\ (Op(call.args) # "rgbx2yuv" \/ call.args.filled = 1) =>
    \A i \in 0 .. (call.args.filled - 1) : i \in DOMAIN call.out /\ call.out[i] = i

\* The elements the first context of a call writes to.
Room(c) == IF Op(c) = "rgbx2yuv" /\ c.width # c.dwidth THEN 1 ELSE c.dn

\* No context reads or writes surfaces past the elements of its target.  The code
\* compares num_filled with the target's batch size but loops over the source's, so
\* the exception is a source with a larger batch_size than the target, or than one
\* where Rgbx2YuvResizeAndConvert converts into its one element before the resize.
InsideTarget == overran # {} => call.args.n > Room(call.args)

\* A rectangle inside the surface, or an open one that starts in it, gives a
\* region inside the surface.
RoiInside ==
  LET c == call.args IN
  c.n # 0 /\ call.result = 0 /\ (c.crop => c.left < c.width /\ c.left + c.w <= c.width) =>
    call.roi.x + call.roi.w <= c.width

\* The contexts run on a queue that exists and no queue is destroyed twice, as
\* long as the queue of the thread was not replaced after a context was made.
QueueAlive == badq => replaced

\* What a context keeps from call to call suffices for every later call, every
\* element is transformed from its own source, on a queue that exists, and no context
\* leaves the rectangle it is given, nor its target unless the batch of the source is
\* larger.
TransformCorrect ==
  /\ TransformTypeOK /\ BuffersSuffice /\ EveryElementTransformed /\ InsideTarget
  /\ RoiInside /\ QueueAlive

-----------------------------------------------------------------------------
(* The inductive invariant of TransformCorrect *)

Pointers == Nat \cup {Freed}
ContextNames == {"YuvResize", "Yuv2Rgbx", "MeanStd", "rms.MeanStd", "rms.Yuv2Rgbx",
                 "r2y.RgbxToYuv", "r2y.YuvResize"}
ContextRecords ==
  [queue : Queues \cup {OwnQueue}, batch_size_ : Nat, mlu_input_ : Pointers, mlu_output_ : Pointers,
   cpu : Nat, workspace_ : Pointers, workspace_size_ : Nat]
ScratchRecords == [ptr : Pointers, size : Nat]

KeptTyped ==
  /\ DOMAIN ctx \subseteq ContextNames /\ ctx \in [DOMAIN ctx -> ContextRecords]
  /\ made \in Seq(ContextNames) /\ scratch \in [ScratchNames -> ScratchRecords]

\* What a context has is what its sizes say.
Suits(k, c) ==
  /\ c.cpu = c.batch_size_ /\ c.workspace_ = c.workspace_size_
  /\ c.mlu_input_ = PlanesIn(k) * c.batch_size_ /\ c.mlu_output_ = PlanesOut(k) * c.batch_size_

SizesTrue ==
  /\ \A k \in DOMAIN ctx \ failed : Suits(k, ctx[k])
  /\ \A b \in ScratchNames \ failed : scratch[b].ptr = scratch[b].size

\* The contexts have the queue of the thread, which lives; nothing was destroyed
\* before there was one.
OneQueue ==
  /\ ~replaced => ~badq /\ queue \notin deadq /\ \A k \in DOMAIN ctx : ctx[k].queue = queue
  /\ queue = Null => deadq = {} /\ DOMAIN ctx = {}

TransformInv ==
  /\ TransformTypeOK /\ KeptTyped /\ SizesTrue /\ OneQueue
  /\ BuffersSuffice /\ EveryElementTransformed /\ InsideTarget /\ RoiInside
==============================================================================
