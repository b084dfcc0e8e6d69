SPECIFICATION Spec
CONSTANTS
  Txns <- UnknownTxns
  Parts <- MCParts
  Refused = {}
  Deploys = {}
  Unshowable = {"unknown"}
  Msgs = {"hello"}
  Accounts = {"a1", "a2"}
  NoDoc = NoDoc
  Mixed = Mixed
  NoAccount = NoAccount
  Garbled = Garbled
PROPERTIES
  SignedWasShown
