SPECIFICATION Spec
CONSTANTS
  Settings <- MCSettings
INVARIANTS
  LinkInv
  PanicExplained
PROPERTIES
  Recovers
