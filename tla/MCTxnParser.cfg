SPECIFICATION Spec
CONSTANTS
  NoTxn = NoTxn
  Txns <- MCTxns
  End <- MCEnd
  PayloadAt <- MCPayloadAt
  Size <- MCSize
  Bad <- MCBad
  MinPart = 2
  MinFirst = 4
  MaxPart = 9
  LastPartSize = 5
  FieldSize <- MCFieldSize
  Refuses <- MCRefuses
INVARIANTS
  TypeOK
  DigestIsCanonical
  InvalidIsRefused
  NoFalseRefusal
  CompleteWhenWhole
  LastPartFits
PROPERTY
  ImplementsDigest
