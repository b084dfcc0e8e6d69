SPECIFICATION Spec
CONSTANTS
  Txns <- MCTxns
  Parts <- MCParts
  Refused <- MCRefused
  Deploys = {"deploy"}
  Unshowable = {"unknown"}
  Msgs = {"hello"}
  Accounts = {"a1", "a2"}
  NoDoc = NoDoc
  Mixed = Mixed
  NoAccount = NoAccount
  Garbled = Garbled
INVARIANTS
  TypeOK
  KeyIsOfPath
  CompleteIsAwaited
PROPERTIES
  SignedForClient
  UnrefusedSignedWasShown
