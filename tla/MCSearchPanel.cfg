CONSTANTS
  Sections <- MCSections
  Texts <- MCTexts
  Data <- MCData
  Matching <- MCMatching
  Empty = ""
  Label = "Search"
  Spaceless <- MCSpaceless
  Unled <- MCUnled
  MaxForgotten = 1
SPECIFICATION FairSpec
INVARIANTS
  PanelTypeOK
  HoverKeepsWindow
  SettledResults
  NavInOrder
PROPERTIES
  ComesToRest
