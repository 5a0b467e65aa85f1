SPECIFICATION Spec
CONSTANTS
  Surfs <- MCSurfs
  CreateParams <- MCCreateParams
  Values <- MCValues
  HostSlots = 2
  MaxOps = 5
  Transforms <- MCTransforms
  Workspaces <- MCWorkspaces
  Queues <- MCQueues
  MinVgu = 4
  UintMod = 64
  MaxTransforms = 2
  FrameW = 8
  FrameH = 8
  Boxes <- MCBoxes
  MaxBoxes = 3
  MaxOsdNum = 2
  OsdMod = 32
  Colors <- MCColors
  Descs <- MCDescs
  UserShapes <- MCUserShapes
  PackShapes <- MCPackShapes
  UintLimit = 4096
  MaxRuns = 3
  Reqs <- MCReqs
  ReqSize <- MCReqSize
  CacheBatch = 2
  ProfTags = {"t1", "t2"}
  ProfReqs = {1, 2, 3}
  ProfUnits = {2}
  ProfLatency = {1, 3}
  MaxRecords = 3
  MaxNow = 2
  MaxRemovals = 1
  EncSizes <- MCEncSizes
  EncSize <- MCEncSize
  EncRates = {9, 10, 800001}
  KBits = 1
  ChannelLen = 2
  MaxFrames = 3
  Timers = {"timer1", "timer2"}
  LoopTimers = {"timer1"}
  EventAddrs = {1, 2}
  MaxStarts = 3
  NumStreams = 2
  Packets <- MCPackets
  VideoFile <- MCVideoFile
  RepeatTime = 1
  PoolBlocks = 2
  PictureSizes <- MCPictureSizes
  NetSizes <- MCNetSizes
  SampleOutput <- MCSampleOutput
  BoxSteps = 4
  Crops <- MCCrops
  RectMod = 64
CHECK_DEADLOCK FALSE
INVARIANTS SurfaceCorrect TransformCorrect BoxesDrawn ModelCorrect ProfilesExact ScalingSafe TimersSafe PipelineCorrect RunnerSafe LetterboxExact
PROPERTIES CacheCorrect
