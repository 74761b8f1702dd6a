CONSTANTS
  LatitudeBands = 3  LongitudeBands = 4
  Shown = {"sun", "earth", "moon", "mars"}
  Nodes <- SceneNodes  Root <- Camera  Kids <- Children
  Moving <- Turning  Looks <- Look
  MaxClock = 1
  padA = padA  padB = padB
  Keys = {}  Pads = {}  FirstPad = padA  NoPad = NoPad  Axes <- MCAxes
  MaxEvents = 0
SPECIFICATION FairSpec
INVARIANTS
  SolarTypeOK
  StackFollowsCalls
  OwnBuffers
  OwnLook
  OneInstant
  FreshUniforms
  ClosedBodies
PROPERTIES
  ImagesShown
