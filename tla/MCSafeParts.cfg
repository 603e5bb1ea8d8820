SPECIFICATION PartsSpec
CONSTANTS
  Runners <- BothRunners
  RendererSlots = 1
  PresenterSlots = 1
  ImageCount = 3
  Hazards <- EveryHazard
  MaxFrames = 3
  MaxPools = 2
  MaxSkips = 1
  Colours <- MCColours
  Depths <- MCDepths
  Formats = {"8888", "7e3", "16_16"}
  Supported = {"8888", "7e3"}
  ConversionSets = 1
  AliasSets = 1
  MaxCommands = 3
  Textures = {"texture"}
  Pages = {"page", "alias"}
  VerifyEvery = 3
  MissLimit = 1
  Threads = {"t1", "t2", "t3"}
  Objects <- MCObjects
  Kind <- MCKind
  Limit <- MCLimit
  Waits <- MCWaits
  MaxCount = 2
  HeapPages = 4
  Requests = {1, 3, 4}
  Alignments = {1, 2}
  Kickers = {"title"}
  Blocks = 3
  PassBlocks = 2
  Padding = 0
  FrameBlocks = 4
  BufferFrames = 2
  Tails = {"whole", "split body"}
  MaxStreams = 2
CONSTRAINT UntilStrayed
INVARIANTS
  PartsTypeOK
  NoOverwriteInUse ShowsWhatItNames RefusedOnlyForFinishedFrames
  LabelsNameContents PassesKnowLayouts DepthFollowsStream
  NoLostWakeup AllWaitersCannotDeadlock
  BooksBalance
  UnreadSurvives SoundsStayApart
PROPERTIES
  ShownNeverGoesBack
  StaleOnlyThroughTheHole MissesAreTheHole
  FreshPagesAreZero InputsAreUsedUp
