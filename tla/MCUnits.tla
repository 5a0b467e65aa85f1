------------------------------ MODULE MCUnits ------------------------------
(* One instance of each of the modules below.  They share no state; a       *)
(* behaviour takes steps of one of them.                                    *)
EXTENDS Surface, Transform, Osd, Model, Cache, Profiler, EncoderCe3226, TimeCounter, Pipeline, StreamRunner,
        Letterbox, TLC

VARIABLE unit

\* Surfaces: two layouts of one picture, cached and plain memory, batches.
Param(m, f, w, h, n, a, c) ==
  [mem_type |-> m, color_format |-> f, width |-> w, height |-> h, size |-> 0,
   batch_size |-> n, force_align_1 |-> a, is_contiguous |-> c]
Sized(m, n, z) == [Param(m, "TENSOR", 0, 0, n, TRUE, TRUE) EXCEPT !.size = z]

MCSurfs == {"s1", "s2"}
MCValues == {"v1", "v2"}
MCCreateParams ==
  "s1" :> { Param("DEFAULT", "NV12", 6, 4, 2, TRUE, TRUE), Param("VB_CACHED", "YUV420", 6, 4, 1, FALSE, TRUE),
            Param("DEVICE", "BGR", 6, 4, 2, FALSE, FALSE), Param("PINNED", "BGR", 6, 4, 0, FALSE, FALSE),
            Param("UNIFIED", "YUV420", 6, 5, 1, FALSE, TRUE), Param("DEVICE", "BGR", 6, 4, 1, FALSE, FALSE) }
  @@
  "s2" :> { Param("DEVICE", "NV12", 6, 4, 2, FALSE, TRUE), Param("UNIFIED_CACHED", "NV12", 6, 4, 2, TRUE, TRUE),
            Param("VB", "YUV420", 6, 4, 1, TRUE, TRUE), Param("SYSTEM", "BGR", 6, 4, 2, FALSE, TRUE),
            Param("VB", "INVALID", 6, 4, 1, TRUE, TRUE), Param("UNIFIED", "YUV420", 6, 5, 1, TRUE, TRUE),
            Sized("DEVICE", 2, 5) }

\* Transforms: each operation, both platforms' memory, batches of 1 and 2.
Trans(s, sm, d, dm, n, f, dn, wd, dw, df, ms, dt) ==
  [src |-> s, smem |-> sm, dst |-> d, dmem |-> dm, n |-> n, filled |-> f, dn |-> dn, width |-> wd,
   dwidth |-> dw, dfmt |-> df, mean_std |-> ms, data_type |-> dt, crop |-> FALSE, left |-> 0, w |-> 0]
Crop(c, l, w) == [c EXCEPT !.crop = TRUE, !.left = l, !.w = w]
MCTransforms ==
  { Trans("NV12", "DEVICE", "NV12", "DEVICE", n, n, 2, 8, 4, "NV12", FALSE, "UINT8") : n \in {1, 2} }
  \cup { Trans("NV12", m, "TENSOR", m, 2, n, 2, 8, 4, "BGR", ms, "FLOAT32") :
           n \in {1, 2}, m \in {"DEVICE", "VB"}, ms \in BOOLEAN }
  \cup { Trans("NV12", "DEVICE", "TENSOR", "DEVICE", 1, 1, 1, 8, 4, "BGR", TRUE, t) : t \in {"FLOAT32", "UINT8"} }
  \cup { Trans("BGR", "DEVICE", "TENSOR", "DEVICE", n, 1, 2, 8, 8, "BGR", TRUE, "FLOAT16") : n \in {1, 2} }
  \cup { Trans("BGR", "DEVICE", "NV12", "DEVICE", 2, n, 2, w, 8, "BGR", FALSE, "UINT8") : n \in {1, 2}, w \in {4, 8} }
  \cup { Trans("BGR", "DEVICE", "NV12", "DEVICE", n, 1, 1, 4, w, "BGR", FALSE, "UINT8") : n \in {1, 2}, w \in {4, 8} }
  \cup { Trans("NV12", "DEVICE", "TENSOR", "DEVICE", 2, 1, 1, 8, 4, "BGR", b, "FLOAT32") : b \in BOOLEAN }
  \cup { Trans("BGR", m, "BGR", "SYSTEM", 2, 2, 1, 8, 8, "BGR", FALSE, "UINT8") : m \in {"DEVICE", "SYSTEM"} }
  \cup { Trans("NV12", "DEVICE", "NV12", "DEVICE", 2, 2, 1, 8, 8, "NV12", FALSE, "UINT8") }
  \cup { Crop(Trans("NV12", m, "BGR", m, 1, 1, 1, 8, 8, "BGR", FALSE, "UINT8"), l, w) :
           m \in {"DEVICE", "VB"}, l \in {3, 8}, w \in {0, 5} }
MCWorkspaces == {1, 2}
MCQueues == {2, 3}

\* Boxes: odd, at the edge, outside of the frame, empty after the rounding, of a
\* negative width.
Box(x, y, w, h, c) == [x |-> x, y |-> y, w |-> w, h |-> h, color |-> c]
MCBoxes == { Box(0, 0, 3, 4, "red"), Box(1, 2, 4, 4, "red"), Box(4, 0, 8, 4, "green"),
             Box(6, 1, 6, 2, "red"), Box(8, 0, 2, 2, "green"), Box(2, 5, 2, 9, "red"), Box(2, 2, 30, 2, "green") }
MCColors == <<"red", "green">>

\* Models: fixed and open dimensions, every layout, types of one and four bytes.
Desc(l, in, out, inferred, t, infers) ==
  [layout |-> l, in |-> in, out |-> out, inferred |-> inferred, itype |-> t, otype |-> "FLOAT32",
   infers |-> infers]
MCDescs ==
  { Desc("NHWC", <<2, 3, 4, 3>>, <<<<2, 5>>>>, <<<<2, 5>>>>, t, TRUE) : t \in {"UINT8", "FLOAT32", "BOOL"} }
  \cup { Desc("NCHW", <<-1, 3, 4, 5>>, <<<<-1, 5>>, <<-1, 2>>>>, <<<<2, 5>>, <<2, 2>>>>, "UINT8", b) : b \in BOOLEAN }
  \cup { Desc("TNC", <<3, 2, 4>>, <<<<2, 5>>>>, <<<<2, 5>>>>, "UINT8", FALSE),
         Desc("HWCN", <<3, 4, 1, 2>>, <<<<2, 3>>>>, <<<<2, 3>>>>, "UINT8", TRUE),
         Desc("NHWC", <<2, 3, 4>>, <<<<2, 5>>>>, <<<<2, 5>>>>, "UINT8", TRUE),
         Desc("NONE", <<-1, 4, 4, 1>>, <<<<1, 7>>>>, <<<<1, 7>>>>, "UINT8", TRUE) }
MCUserShapes == { <<>>, <<2, 3, 4, 5>> }
MCPackShapes == { <<>>, <<2, 3, 4, 5>>, <<-1, 3, 4, 5>> }

\* Requests of one and of three items for a batch of two.
MCReqs == {"r1", "r2", "r3"}
MCReqSize == "r1" :> 3 @@ "r2" :> 1 @@ "r3" :> 1

\* Frames of the encoder's size, and frames that differ in one dimension.
MCEncSize == <<4, 4>>
MCEncSizes == { <<4, 4>>, <<4, 2>>, <<2, 4>> }

\* Two streams, one of them without a frame.
MCPackets == 0 :> 2 @@ 1 :> 0

\* A file that begins with a packet to be skipped and has one of another stream.
MCVideoFile == <<"delta", "key", "other", "delta", "key">>

\* Pictures that are wider and higher than the input of the network or have its
\* proportions, odd sizes, crops at the edge and beyond it.
MCPictureSizes == { <<1, 5>>, <<7, 4>>, <<16, 9>>, <<32, 18>>, <<24, 18>>, <<9, 32>> }
MCNetSizes == { <<8, 8>>, <<12, 8>>, <<9, 13>> }
MCSampleOutput == <<16, 9>>
MCCrop(l, t, w, h) == [left |-> l, top |-> t, width |-> w, height |-> h]
MCCrops == { MCCrop(0, 0, 3, 9), MCCrop(5, 1, 7, 4), MCCrop(12, 0, 2, 2) }

Init ==
  /\ unit \in {"surface", "transform", "osd", "model", "cache", "profiler", "latency", "encoder", "timer", "pipeline", "runner",
              "letterbox"}
  /\ SurfaceInit /\ TransformInit /\ OsdInit /\ ModelInit
  /\ CacheInit /\ ProfilerInit /\ LatencyInit /\ EncoderCe3226Init /\ TimeCounterInit /\ PipelineInit
  /\ RunnerInit /\ LetterboxInit
  \* what the other modules could start with is of no interest
  /\ unit # "surface" => unified
  /\ unit # "transform" => platform = "MLU"
  /\ unit # "model" => desc.layout = "TNC"
  /\ unit # "cache" => strategy = "STATIC"
  /\ unit # "pipeline" => infer_kind = "sync"
  /\ unit # "letterbox" => /\ sample = "demo" /\ pic = <<16, 9>>
                           /\ input_order = "NTC" /\ input_shape = <<1, 8, 8, 3>>

Next ==
  /\ UNCHANGED unit
  /\ \/ unit = "surface" /\ SurfaceNext
        /\ UNCHANGED <<transformVars, osdVars, modelVars, cacheVars, profilerVars, encoderVars, timerVars, pipelineVars,
                       runnerVars, letterVars>>
     \/ unit = "transform" /\ TransformNext
        /\ UNCHANGED <<surfaceVars, osdVars, modelVars, cacheVars, profilerVars, encoderVars, timerVars, pipelineVars,
                       runnerVars, letterVars>>
     \/ unit = "osd" /\ OsdNext
        /\ UNCHANGED <<surfaceVars, transformVars, modelVars, cacheVars, profilerVars, encoderVars, timerVars, pipelineVars,
                       runnerVars, letterVars>>
     \/ unit = "model" /\ ModelNext
        /\ UNCHANGED <<surfaceVars, transformVars, osdVars, cacheVars, profilerVars, encoderVars, timerVars, pipelineVars,
                       runnerVars, letterVars>>
     \/ unit = "cache" /\ CacheNext
        /\ UNCHANGED <<surfaceVars, transformVars, osdVars, modelVars, profilerVars, encoderVars, timerVars, pipelineVars,
                       runnerVars, letterVars>>
     \/ unit = "profiler" /\ ProfilerNext
        /\ UNCHANGED <<surfaceVars, transformVars, osdVars, modelVars, cacheVars, latencyVars, encoderVars, timerVars, pipelineVars,
                       runnerVars, letterVars>>
     \/ unit = "latency" /\ LatencyNext
        /\ UNCHANGED <<surfaceVars, transformVars, osdVars, modelVars, cacheVars, tagVars, encoderVars, timerVars, pipelineVars,
                       runnerVars, letterVars>>
     \/ unit = "encoder" /\ EncoderCe3226Next
        /\ UNCHANGED <<surfaceVars, transformVars, osdVars, modelVars, cacheVars, profilerVars, timerVars, pipelineVars,
                       runnerVars, letterVars>>
     \/ unit = "timer" /\ TimeCounterNext
        /\ UNCHANGED <<surfaceVars, transformVars, osdVars, modelVars, cacheVars, profilerVars, encoderVars, pipelineVars,
                       runnerVars, letterVars>>
     \/ unit = "pipeline" /\ PipelineNext
        /\ UNCHANGED <<surfaceVars, transformVars, osdVars, modelVars, cacheVars, profilerVars, encoderVars, timerVars,
                       runnerVars, letterVars>>
     \/ unit = "runner" /\ RunnerNext
        /\ UNCHANGED <<surfaceVars, transformVars, osdVars, modelVars, cacheVars, profilerVars, encoderVars, timerVars, pipelineVars,
                       letterVars>>
     \/ unit = "letterbox" /\ LetterboxNext
        /\ UNCHANGED <<surfaceVars, transformVars, osdVars, modelVars, cacheVars, profilerVars, encoderVars, timerVars, pipelineVars,
                       runnerVars>>

Spec == Init /\ [][Next]_<<unit, surfaceVars, transformVars, osdVars, modelVars, cacheVars, profilerVars, encoderVars, timerVars, pipelineVars,
                           runnerVars, letterVars>>
==============================================================================
