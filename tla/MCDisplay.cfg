SPECIFICATION Spec
CONSTANTS
  W = 13
  WordBits = 30
  Docs <- MCDocs
  ZeroAmount <- MCZeroAmount
  PayloadHash <- MCPayloadHash
  NoPayload <- MCNoPayload
INVARIANTS
  TypeOK
  PagesAreOfWholeText
  NothingLost
  ParsedTextFits
  FieldsAreShown
  TitleOfFunction
  ScreensFit
PROPERTY
  HandlerEnds
