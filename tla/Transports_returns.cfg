SPECIFICATION TransportsFairSpec
CONSTANTS
  Parts = {"diag", "qmux", "qrtr", "vendor"}
  Sites = {"qmux", "qrtr"}
  Threads = {t1, t2}
  Descriptors = {f1}
  Closed = closed
  Polls = 1
  RxCap = 3
  MaxCalls = 2
  MaxLogs = 0
  AccCap = 8
  Chunk = 2
  DecodeCap = 3
  FrameKinds <- MCFrameKinds
  MaxFrames = 3
  MaxTaken = 1
  Cids = {1, 2}
  Budget = 2
  MaxTxn = 2
  MaxQueue = 2
  Kinds = {"band", "bandNr", "probe"}
  Items = 2
  Flood = FALSE
  MaxNoise = 2
  MaxOps = 2
  Services = {s1, s2, s3}
  Cap = 2
  Passes = 2
  MaxSent = 4
  Candidates = 3
  MaxOther = 2
  Libs = {"libqmi_cci"}
  Exportable = {"init_instance", "init", "get_internal_use_port"}
  MaxProbes = 2
PROPERTY EveryCallReturns
CHECK_DEADLOCK FALSE
