SPECIFICATION Spec
CONSTANTS
  ByteBits = 2
  LimbBytes = 4
  Decimals = 3
  TempSize = 10
  AmountSize = 13
  double_sha256 <- mc_double_sha256
  AmountBytes <- MCAmountBytes
  Keys <- MCKeys
  VarintBytes <- MCVarintBytes
  GroupBits = 2
  ResultBits = 5
  RecipientSize = 53
INVARIANTS
  AmountIsExact
  AddressIsExact
  VarintIsExact
  DivisionEnds
