------------------------------- MODULE Model -------------------------------
(***************************************************************************)
(* A loaded model, the ModelRunner and the pools a processor makes of it,  *)
(* and the tensors and shapes of the packages that go through them.        *)
(*                                                                         *)
(* A description is what MagicMind (external) says of the model: layout,   *)
(* dimensions and data types of the first input and of the outputs, and    *)
(* the output dimensions it infers for a fixed input; -1 is a dimension    *)
(* that is not fixed.  Tensors are numbered in the order they are made.    *)
(***************************************************************************)
EXTENDS Integers, Sequences, Sublists

CONSTANTS
  Descs,       \* descriptions of models
  UserShapes,  \* in_shape of Load; <<>> is none
  PackShapes,  \* shapes[0] of the input of a package; <<>> is none
  UintLimit,   \* uint32_t wraps at this value
  MaxRuns      \* bound on the packages and the runners that are destroyed

Orders4 == {"NCHW", "NHWC", "HWCN"}
Orders3 == {"NTC", "TNC"}
DataTypes == {"UINT8", "INT16", "INT32", "FLOAT16", "FLOAT32"}

\* A dimension is a positive number below the limit, or -1; no dimension is 0.
Dims == {-1} \cup 1 .. (UintLimit - 1)

ASSUME ModelConstants ==
  /\ MaxRuns \in Nat /\ UintLimit \in Nat /\ UintLimit > 1
  /\ \A d \in Descs : /\ d.in \in Seq(Dims) /\ d.in # <<>> /\ d.infers \in BOOLEAN
                      /\ d.out \in Seq(Seq(Int)) /\ d.out # <<>>
                      /\ d.inferred \in Seq(Seq(Int)) /\ Len(d.inferred) = Len(d.out)
  /\ UserShapes \subseteq Seq(Dims) /\ PackShapes \subseteq Seq(Int)

VARIABLES
  desc, info,  \* the model, and what Model knows of it (NoInfo)
  runner,      \* ModelRunner (NoRunner)
  pools,       \* output_pools of Predictor: block size and batch size
  inpool,      \* pool_ of Solver (NoPool)
  tensors,     \* number of tensors that were made
  dead,        \* tensors that were destroyed
  held,        \* tensors behind the surfaces of packages
  misuse,      \* tensors that were used or destroyed after they were destroyed
  unlocated,   \* a tensor was neither on the host nor on the device
  io,          \* the last package
  modelruns

modelVars == <<desc, info, runner, pools, inpool, tensors, dead, held, misuse, unlocated, io, modelruns>>

NoInfo == [batch |-> 0]
NoRunner == [fixed_input_shape_ |-> TRUE]
NoPool == [size |-> 0, batch |-> 0]
NoIo == [status |-> "none"]

-----------------------------------------------------------------------------
(* Shape and data types.                                                    *)

\* All dimensions are positive; a shape without dimensions is fixed too.
FixedShape(s) == \A i \in DOMAIN s : s[i] > 0

\* The product of the first k dimensions, for every k.
Products(s) ==
  LET f[k \in 0 .. Len(s)] == IF k = 0 THEN 1 ELSE f[k - 1] * s[k]
  IN  f

BatchDataCount(s) == Products(s)[Len(s)]

CastDataType(t) == IF t \in DataTypes THEN t ELSE "INVALID"

CastDimOrder(l) == IF l \in Orders4 \cup Orders3 \cup {"ARRAY"} THEN l ELSE "INVALID"

GetTypeSize(t) ==
  IF t = "UINT8" THEN 1
  ELSE IF t \in {"INT16", "FLOAT16"} THEN 2
  ELSE IF t \in {"INT32", "FLOAT32"} THEN 4 ELSE 0

-----------------------------------------------------------------------------
(* Model.                                                                   *)

Order(d) == IF CastDimOrder(d.layout) = "INVALID" THEN "NHWC" ELSE CastDimOrder(d.layout)

RankMatches(order, s) ==
  /\ order \in Orders4 => Len(s) = 4
  /\ order \in Orders3 => Len(s) = 3

\* model_batch_size_ is a uint32_t.
BatchAxis(order) == IF order = "TNC" THEN 2 ELSE IF order = "HWCN" THEN 4 ELSE 1

BatchSize(order, s) == s[BatchAxis(order)] % UintLimit

\* The user's shape replaces an input that is not fixed; ok is the result of
\* InferOutputShape, whose failure leaves the output shapes as they were.
InShape(d, user) == IF FixedShape(d.in) \/ user = <<>> THEN d.in ELSE user
GetModelInfo(d, user, ok) ==
  [order |-> Order(d), in |-> InShape(d, user), itype |-> CastDataType(d.itype),
   otype |-> CastDataType(d.otype),
   out |-> IF ~FixedShape(d.in) /\ user # <<>> /\ ok THEN d.inferred ELSE d.out,
   batch |-> BatchSize(Order(d), InShape(d, user))]

Load(d, user, ok) ==
  /\ info = NoInfo /\ (ok => d.infers)
  /\ desc' = d
  /\ info' = IF RankMatches(Order(d), InShape(d, user)) THEN GetModelInfo(d, user, ok) ELSE NoInfo
  /\ UNCHANGED <<runner, pools, inpool, tensors, dead, held, misuse, unlocated, io, modelruns>>

FixedOutputShape == \A i \in DOMAIN info.out : FixedShape(info.out[i])

-----------------------------------------------------------------------------
(* Predictor::Init with ModelRunner::Init.                                  *)

OutputNum == Len(desc.out)
NewTensors == [i \in 1 .. OutputNum |-> tensors + i]

OutputBytes(i) == BatchDataCount(info.out[i]) * GetTypeSize(info.otype)

\* size is a uint32_t.
OutputPool(i) ==
  [batch |-> info.batch, size |-> (OutputBytes(i) % UintLimit) \div info.batch]

\* Output tensors are kept when the output shape can be inferred.  When the input
\* is not fixed they are destroyed, when InferOutputShape fails only forgotten.
PredictorInit(ok) ==
  LET fixed == FixedShape(info.in) IN
  /\ info # NoInfo /\ runner = NoRunner /\ (ok => desc.infers)
  /\ runner' = [fixed_input_shape_ |-> FixedShape(desc.in), i_shape |-> IF fixed THEN info.in ELSE <<>>,
                outputs_ |-> IF fixed /\ ok THEN NewTensors ELSE <<>>]
  /\ tensors' = tensors + OutputNum
  /\ dead' = IF fixed THEN dead ELSE dead \cup Elems(NewTensors)
  /\ pools' = IF FixedOutputShape THEN [i \in 1 .. OutputNum |-> OutputPool(i)] ELSE <<>>
  /\ UNCHANGED <<desc, info, inpool, held, misuse, unlocated, io, modelruns>>

\* PreprocImpl::GetTensorParams: what the preprocessor knows of the model.
GetTensorParams ==
  [input_order |-> IF CastDimOrder(info.order) # "INVALID" THEN info.order ELSE "CUSTOM",
   input_dtype |-> CastDataType(info.itype), input_shape |-> info.in, batch_num |-> info.batch]

\* Solver::CreatePool with the parameters of GetTensorParams, before the first
\* package.  A dimension of -1 asks for more than there is, and CreatePool fails.
InputDim(nhwc, nchw) ==
  GetTensorParams.input_shape[IF GetTensorParams.input_order = "NHWC" THEN nhwc ELSE nchw]
InputW == InputDim(3, 4)
InputH == InputDim(2, 3)
InputC == InputDim(4, 2)

InputBlock(fmt) ==
  IF fmt \in {"RGB", "BGR"} THEN InputW * InputH * 3
  ELSE IF fmt = "GRAY" THEN InputW * InputH
  ELSE InputW * InputH * InputC * GetTypeSize(GetTensorParams.input_dtype)

Formats == {"RGB", "BGR", "GRAY", "TENSOR"}

Poolable(fmt) ==
  /\ info # NoInfo /\ FixedShape(info.in) /\ GetTensorParams.input_order \in {"NHWC", "NCHW"}
  /\ fmt \in {"RGB", "BGR"} => InputC = 3
  /\ fmt = "TENSOR" => GetTensorParams.input_dtype # "INVALID"

InputPool(fmt) == [fmt |-> fmt, batch |-> GetTensorParams.batch_num, size |-> InputBlock(fmt) % UintLimit]

CreateInputPool(fmt) ==
  /\ inpool = NoPool /\ modelruns = 0 /\ Poolable(fmt)
  /\ inpool' = InputPool(fmt)
  /\ UNCHANGED <<desc, info, runner, pools, tensors, dead, held, misuse, unlocated, io, modelruns>>

-----------------------------------------------------------------------------
(* Predictor::Process with ModelRunner::Run.                                *)

\* CanInferOutputShape() && FixedOutputShape()
IntoPools == runner.outputs_ # <<>> /\ FixedOutputShape

\* Dimensions the input tensor gets.  The last are <<>> when none were set, and
\* <<>> is fixed: the error for an unknown shape is never returned.
InputDims(given) ==
  IF runner.fixed_input_shape_ THEN desc.in
  ELSE IF given # <<>> /\ FixedShape(given) THEN given ELSE runner.i_shape

Package(status, dims, pooled, n) ==
  [status |-> status, dims |-> dims, pooled |-> pooled, tensors |-> n, items |-> <<>>]

ModelRun == modelruns < MaxRuns /\ modelruns' = modelruns + 1 /\ io = NoIo /\ runner # NoRunner

\* The outputs are in buffers of the pools.
RunPooled(given, ok) ==
  /\ ModelRun /\ IntoPools
  /\ misuse' = misuse \cup (Elems(runner.outputs_) \cap dead)
  /\ io' = Package(IF ok THEN "SUCCESS" ELSE "ERROR_BACKEND", InputDims(given), TRUE, Len(runner.outputs_))
  /\ UNCHANGED <<desc, info, runner, pools, inpool, tensors, dead, held, unlocated>>

\* Mutant: the runner keeps the tensors it handed out.
HandedOutKept == [runner EXCEPT !.outputs_ = NewTensors]

\* MagicMind makes the output tensors; surfaces own them from then on.
HandedOut == [runner EXCEPT !.outputs_ = <<>>]

RunUnpooled(given) ==
  /\ ModelRun /\ ~IntoPools
  /\ tensors' = tensors + OutputNum /\ held' = held \cup Elems(NewTensors)
  /\ runner' = HandedOut
  /\ io' = Package("SUCCESS", InputDims(given), FALSE, OutputNum)
  /\ UNCHANGED <<desc, info, pools, inpool, dead, misuse, unlocated>>

RunUnpooledFails(given) ==
  /\ ModelRun /\ ~IntoPools
  /\ io' = Package("ERROR_BACKEND", InputDims(given), FALSE, 0)
  /\ UNCHANGED <<desc, info, runner, pools, inpool, tensors, dead, held, misuse, unlocated>>

\* Tensor k is at no known location: the surfaces before it own theirs, and
\* outputs_ keeps all of them.
RunUnlocated(given, k) ==
  /\ ModelRun /\ ~IntoPools /\ k \in 1 .. OutputNum
  /\ tensors' = tensors + OutputNum /\ held' = held \cup Elems(SubSeq(NewTensors, 1, k - 1))
  /\ runner' = [runner EXCEPT !.outputs_ = NewTensors]
  /\ unlocated' = TRUE
  /\ io' = Package("ERROR_BACKEND", InputDims(given), FALSE, k - 1)
  /\ UNCHANGED <<desc, info, pools, inpool, dead, misuse>>

\* The element of the output that item i gets; -1 is outside of surface_list.
Item(i) == IF io.pooled THEN i ELSE IF i = 1 THEN 1 ELSE -1

\* Postprocessor::Process without a handler: the items get copies.
Postprocess(n) ==
  /\ io.status = "SUCCESS" /\ io.items = <<>> /\ n \in 1 .. info.batch
  /\ io' = [io EXCEPT !.items = [i \in 1 .. n |-> Item(i)]]
  /\ misuse' = misuse \cup (held \cap dead)
  /\ UNCHANGED <<desc, info, runner, pools, inpool, tensors, dead, held, unlocated, modelruns>>

\* The package leaves the engine; its surfaces may stay with the user.
Deliver ==
  /\ io # NoIo /\ io' = NoIo
  /\ UNCHANGED <<desc, info, runner, pools, inpool, tensors, dead, held, misuse, unlocated, modelruns>>

\* The last reference to a surface goes and ~TensorDeleter destroys the tensor.
Release(t) ==
  /\ misuse' = misuse \cup ({t} \cap dead) /\ dead' = dead \cup {t} /\ held' = held \ {t}
  /\ UNCHANGED <<desc, info, runner, pools, inpool, tensors, unlocated, io, modelruns>>

\* ~ModelRunner, when no package is in the processor; a result may still be held.
DestroyRunner ==
  /\ runner # NoRunner /\ io = NoIo /\ modelruns < MaxRuns /\ modelruns' = modelruns + 1
  /\ misuse' = misuse \cup (Elems(runner.outputs_) \cap dead)
  /\ dead' = dead \cup Elems(runner.outputs_)
  /\ runner' = NoRunner /\ pools' = <<>>
  /\ UNCHANGED <<desc, info, inpool, tensors, held, unlocated, io>>

-----------------------------------------------------------------------------
ModelInit ==
  /\ desc \in Descs /\ info = NoInfo /\ runner = NoRunner /\ pools = <<>> /\ inpool = NoPool
  /\ tensors = 0 /\ dead = {} /\ held = {} /\ misuse = {} /\ unlocated = FALSE
  /\ io = NoIo /\ modelruns = 0

ModelNext ==
  \/ \E user \in UserShapes, ok \in BOOLEAN : Load(desc, user, ok)
  \/ \E ok \in BOOLEAN : PredictorInit(ok)
  \/ \E fmt \in Formats : CreateInputPool(fmt)
  \/ \E s \in PackShapes :
       \/ RunUnpooled(s) \/ RunUnpooledFails(s)
       \/ \E ok \in BOOLEAN : RunPooled(s, ok)
       \/ \E k \in 1 .. OutputNum : RunUnlocated(s, k)
  \/ \E n \in 1 .. 2 : Postprocess(n)
  \/ Deliver \/ DestroyRunner \/ \E t \in held : Release(t)

ModelSpec == ModelInit /\ [][ModelNext]_modelVars

-----------------------------------------------------------------------------
\* No tensor is used or destroyed after it was destroyed, whoever owns it: the
\* runner, MagicMind's caller or the surface of a package that outlives the
\* runner (ModelRunner::Run, ~ModelRunner, ~TensorDeleter).  The exception is a
\* tensor at an unknown location.
TensorsOwnedOnce == misuse # {} => unlocated

\* A run into buffers of the pools has one tensor and one buffer per output, and
\* a pool block of a batch holds the output when the batch divides it and its size
\* is a uint32_t.
PooledOutputsFit ==
  io # NoIo /\ io.pooled =>
    /\ io.tensors = OutputNum
    /\ Len(pools) = OutputNum
    /\ \A i \in DOMAIN pools :
         OutputBytes(i) < UintLimit /\ OutputBytes(i) % info.batch = 0 =>
           pools[i].size * pools[i].batch = OutputBytes(i)

\* The input pool holds what the model reads, unless the format is an image and
\* the model reads more than a byte per element or, for GRAY, several channels,
\* or the size of a block is no uint32_t.
InputPoolFits ==
  /\ inpool # NoPool /\ InputBlock(inpool.fmt) < UintLimit
  /\ inpool.fmt # "TENSOR" => info.itype = "UINT8"
  /\ inpool.fmt = "GRAY" => InputC = 1
  => inpool.size * inpool.batch >= BatchDataCount(info.in) * GetTypeSize(info.itype)

\* The model is never started with a dimension that is not positive, and with no
\* dimensions at all only when neither the user nor the package has given any:
\* FixedShape takes the shape that was never set for a fixed one.
InputDimsKnown ==
  io # NoIo => /\ \A i \in DOMAIN io.dims : io.dims[i] > 0
               /\ io.dims = <<>> => ~FixedShape(info.in)

\* Without a handler every item gets its own element of the output, except for
\* the later items of a batch whose output came from MagicMind.
ItemsGetTheirOutput ==
  io # NoIo => \A i \in DOMAIN io.items : io.items[i] = i \/ (~io.pooled /\ i > 1)

\* Tensors are freed once, the blocks of the pools hold what the model reads and
\* writes, the model runs with known dimensions and every item gets its output.
ModelCorrect ==
  TensorsOwnedOnce /\ PooledOutputsFit /\ InputPoolFits /\ InputDimsKnown /\ ItemsGetTheirOutput

-----------------------------------------------------------------------------
(* The inductive invariant of ModelCorrect *)

\* What is known of the model is what GetModelInfo found out.
InfoKnown ==
  /\ desc \in Descs
  /\ info # NoInfo =>
       \E user \in UserShapes, ok \in BOOLEAN :
         info = GetModelInfo(desc, user, ok) /\ RankMatches(Order(desc), InShape(desc, user))

\* The runner knows the input of the model, has no output or all of them, and its
\* pools are those of the outputs when their shapes are known.
RunnerKnown ==
  runner # NoRunner =>
    /\ info # NoInfo
    /\ runner \in [fixed_input_shape_ : {FixedShape(desc.in)}, outputs_ : Seq(1 .. tensors),
                    i_shape : {IF FixedShape(info.in) THEN info.in ELSE <<>>}]
    /\ runner.outputs_ # <<>> => Len(runner.outputs_) = OutputNum
    /\ pools = IF FixedOutputShape THEN [i \in 1 .. OutputNum |-> OutputPool(i)] ELSE <<>>

InputPoolKnown == inpool # NoPool => \E fmt \in Formats : Poolable(fmt) /\ inpool = InputPool(fmt)

\* Dead tensors have no owner, and the others have one, until a tensor is at an
\* unknown location.
TensorsApart ==
  /\ tensors \in Nat /\ dead \subseteq 1 .. tensors /\ held \subseteq 1 .. tensors
  /\ ~unlocated => /\ misuse = {} /\ held \cap dead = {}
                   /\ runner # NoRunner => Elems(runner.outputs_) \cap (dead \cup held) = {}

PackageKnown ==
  io # NoIo =>
    /\ runner # NoRunner
    /\ io \in [status : {"SUCCESS", "ERROR_BACKEND"}, dims : Seq(Int), pooled : BOOLEAN,
               tensors : Nat, items : Seq(Int)]
    /\ io.pooled => FixedOutputShape /\ io.tensors = OutputNum

ModelInv ==
  /\ InfoKnown /\ RunnerKnown /\ InputPoolKnown /\ TensorsApart /\ PackageKnown
  /\ InputDimsKnown /\ ItemsGetTheirOutput
==============================================================================
