SPECIFICATION Spec
CONSTANTS
  W = 13
  WordBits = 30
  Docs <- CutCharacter
  ZeroAmount <- MCZeroAmount
  PayloadHash <- MCPayloadHash
  NoPayload <- MCNoPayload
INVARIANT
  CutsDoNotMatter
