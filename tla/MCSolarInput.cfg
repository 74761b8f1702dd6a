CONSTANTS
  LatitudeBands = 3  LongitudeBands = 4
  Shown = {"sun"}
  Nodes <- SceneNodes  Root <- Camera  Kids <- Children
  Moving <- Turning  Looks <- Look
  MaxClock = 0
  padA = padA  padB = padB
  Keys = {"ArrowUp", "a"}
  Pads = {padA, padB}  FirstPad = padA  NoPad = NoPad  Axes <- MCAxes
  MaxEvents = 2
SPECIFICATION FairSpec
INVARIANTS
  HeldKeysDrive
  ControllingPadPresent
  EndsOnlyByUnfitPad
PROPERTIES
  FramesGoOn
