SPECIFICATION PartSpec
CONSTANTS
  Runs = {1, 2}
  Title <- MCTitle
  Layers = 1
  Editors = {"e", "f"}
  MaxSession = 3
  MaxQueue = 2
  LinkWorlds <- MCLinkWorlds
  Clients = {"c", "d"}
  Ops = {"home", "move", "extrude", "unload", "stop"}
  FreshFor = 2
  WaitFor = 1
  Spacing = 2
  ControlLimits <- MCTornLimits
  Objects = {1, 2}
  Contents = {"one", "twin", "other"}
  LayersOf <- MCLayersOf
  SkipWorlds <- MCSkipWorlds
  Slots = {"A", "B"}
  Trays = {1, 2}
  Primary = 1
  Backup = 2
  InferFrames = 2
  HistoryLimits <- MCHistoryLimits
  Spools = {"tag", "bare", "twin", "petg"}
  Tagged = {"tag"}
  Chemistry <- MCChemistry
  SeatWorlds <- MCSeatWorlds
  Labels = {"red", "petg"}
  Records = {"s1"}
  Viewers = {"slicer"}
  LabelOf <- MCLabelOf
  RecordOf <- MCRecordOf
  DisplayLimits <- MCDisplayLimits
INVARIANTS RecentlyIdle
CHECK_DEADLOCK FALSE
