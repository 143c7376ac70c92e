SPECIFICATION Spec
CONSTANTS
  Types = {auth, chat, move}
  Settings <- MCSettings
  MaxCalls = 3
  Unknown = Unknown
INVARIANTS
  RegistryInv
  DispatchedAsSent
  WrongByOrderOnly
CHECK_DEADLOCK FALSE
