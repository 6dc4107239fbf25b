SPECIFICATION TransportsSpec
CONSTANTS
  Parts = {"ids", "diag", "gather", "qmux", "qrtr", "list", "probe", "vendor"}
  Sites = {"qmux", "qrtr"}
  Threads = {t1}
  Descriptors = {f1, f2}
  Closed = closed
  Polls = 2
  RxCap = 4
  MaxCalls = 2
  MaxLogs = 1
  AccCap = 8
  Chunk = 2
  DecodeCap = 3
  FrameKinds <- MCFrameKinds
  MaxFrames = 3
  MaxTaken = 1
  Cids = {1, 2}
  Budget = 2
  MaxTxn = 4
  MaxQueue = 2
  Kinds = {"bandNr", "probe", "clear"}
  Items = 3
  Flood = FALSE
  MaxNoise = 2
  MaxOps = 2
  Services = {s1, s2, s3}
  Cap = 2
  Passes = 2
  MaxSent = 4
  Candidates = 3
  MaxOther = 2
  Libs = {"libqmi_cci", "libqmi_client_qmux"}
  Exportable = {"init_instance", "init", "get_internal_use_port"}
  MaxProbes = 2
INVARIANTS
  TransportsTypeOK
  
  WholeIsPushed
  AnswerIsOwn
  
  
  ListsWhatWasHeard
  OneConnection
  Restored
  VerdictIsOfThisRun
PROPERTIES
  
  OrphansExplained
CHECK_DEADLOCK FALSE
