SPECIFICATION Spec
CONSTANTS
  NoDoc = NoDoc
  Docs <- EmptyMessage
  Kind <- MCKind
  Fixed <- MCFixed
  Glyphs <- MCGlyphs
  Sent <- MCSent
  Long <- MCLong
  Bad <- MCBad
  W = 6
  MaxPages = 1
  DotsAbove = 5
PROPERTIES
  EveryPressAnswered
