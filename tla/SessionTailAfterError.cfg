SPECIFICATION Spec
CONSTANTS
  Txns <- PartedTxns
  Parts <- MCParts
  Refused = {}
  Deploys = {}
  Unshowable = {}
  Msgs = {"hello"}
  Accounts = {"a1", "a2"}
  NoDoc = NoDoc
  Mixed = Mixed
  NoAccount = NoAccount
  Garbled = Garbled
PROPERTIES
  SignedWasShown
