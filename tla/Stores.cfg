SPECIFICATION PartSpec
CONSTANTS
  Items = {1, 2}
  Clients = {"c", "d"}
  MaxStarts = 2
  World = {"start", "crash", "commit"}
  Materials = {"pla", "petg"}
  DbLimits <- MCDbLimits
  Requests = {"a", "b"}
  Services <- MCServices
  QueueBound = 1
  PageLimit = 1
  FeedLimits <- MCFeedLimits
  Jobs = {"j"}
  Contents = {1, 3}
  Viewers = {"r", "s"}
  CacheMax = 1
  Size <- MCSize
  Parses <- MCParses
  PreviewCases <- MCPreviewCases
  Names = {"m", "n"}
  Sizes = {1, 2}
  Year = 4
  Recent = 1
  MemoMax = 1
  TableMax = 2
  MdtmMax = 1
  ListingLimits <- MCListingLimits
  Dirs = {"home", "sub"}
  Home = "home"
  Files = {"f"}
  FtpsLimits <- MCFtpsLimits
  Uploads = {"u"}
  Receipts = {"n"}
  Chunks = 2
  Tries = 2
  Content <- MCContent
  LibraryCases <- MCLibraryCases
INVARIANTS TablesSound FeedSound FilesSound LibrarySound FtpsSound
PROPERTIES TombstonesStay
CHECK_DEADLOCK FALSE
