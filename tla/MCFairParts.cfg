SPECIFICATION PartsSpec
CONSTANTS
  Dwords = 8
  MaxDepth = 2
  SequenceSpan = 8
  FirstFrame = 6
  Program <- MCProgram
  MaxSwaps = 2
  MaxSubmissions = 3
  MayMisread = TRUE
  Slack = 1
  BootTicks = 2
  MaxNeed = 2
  MaxPresents = 4
  Timers = {"k1", "k2"}
  Callers = {"c1", "c2"}
  Delays = {0, 1}
  Periods = {0, 1}
  MaxTime = 2
  MaxCalls = 2
  Pollers <- GuestAndPresenter
  Script <- PressAndRelease
  RemoteStates <- RemotePresses
  DesktopStates <- DesktopPresses
  HaveWindow = TRUE
  Neutral = "neutral"
  MaxInputs = 2
INVARIANTS
  PartsTypeOK NoTimerSleptThrough
  RingOnceInOrder NoFramePresentedAgain AcknowledgedIsPresented
  VblanksPaced
  ScriptIsUndisturbed RemoteHoldsPad PacketNamesState
PROPERTIES
  EveryPacketFinishes
  KeepsPresenting
  EveryArmedTimerFires
  ScriptHandsOver
