SPECIFICATION Spec
CONSTANTS
  Productive = 2
  ProductReturn = 3
  Return = 4
  Delivery = 6
  Upload = 1
  MaxTrouble = 1
  Profiles = {"full", "samples"}
INVARIANTS DeviceRetired PassTruthful KeysNeverExported CompleteTruthful
PROPERTY RequestFenced
