SPECIFICATION PadSpec
CONSTANTS
  Pollers <- GuestAndPresenter
  Script <- PressAndRelease
  RemoteStates <- RemotePresses
  DesktopStates <- DesktopPresses
  HaveWindow = FALSE
  Neutral = "neutral"
  MaxInputs = 2
INVARIANT RemoteKeepsPad
