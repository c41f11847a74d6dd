SPECIFICATION MCFairSpec
CONSTANTS
  Routes = {"session", "upload", "list", "batch"}
  Tabs = {t1, t2}
  NoTab = notab
  Users = {u1}
  NoUser = nobody
  Unknown = somebody
  MaxRefreshes = 2
  MaxCalls = 1
  SessionFaults = {"refresh", "signout", "revoked", "network", "rejected"}
  MaxMishaps = 1
  MaxFiles = 3
  MaxRetries = 2
  Folders = {"board", "steps", "pcb"}
  DroppedFolder = "board"
  FolderFiles = {"matrix", "misc", "stephdr", "features"}
  ParentOf <- MCParentOf
  NameLength <- MCNameLength
  FileSize <- MCFileSize
  MaxFolder = 4
  NameRoom = 6
  PrefixRoom = 4
  MaxFetches = 2
  MaxJobs = 2
  NoBatch = none
  SharedJobs = {j1, j2}
  NoJob = none
  MaxLoads = 2
  MaxUploads = 2
  LayerSeq <- MCLayerSeq
  CopperLayers = {"top"}
  DrillLayers = {"hole"}
  TopLayers = {"top"}
  BottomLayers = {}
  Marks = {"m1", "m2", "m3"}
  MarkLayer <- MCMarkLayer
  MarkSeverity <- MCMarkSeverity
  MarkRule <- MCMarkRule
  NoMark = none
  Fingers = {f1, f2, f3}
  Width = 1
  PanLimit = 1
  ZoomLevels = 2
  Views = 2
  PaintLayers = {"top", "silk", "mask", "drill", "d_1_2", "rout"}
  SilkNames = {"silk"}
  MaskNames = {"mask"}
  OutlineNames = {"rout"}
  DrillNames = {"drill"}
  RoutName = "rout"
  GateLayers = {"top", "drill", "d_1_2"}
  CopperTyped = {"top"}
  DrillTyped = {"drill", "d_1_2"}
  EditRows = {r1, r2}
  NoRow = none
  MaxAdminCalls = 4
PROPERTIES
  TabsFollow
  CallsEnd
  SpinnerStops
  ListSettles
  BatchFollows
CHECK_DEADLOCK FALSE
