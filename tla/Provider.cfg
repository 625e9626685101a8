SPECIFICATION FairSpec
CONSTANTS
  CaptureEnd = 1
  LaunchEnd = 2
  Cutoff = 2
  HardEnd = 3
  Roles = {"posix", "windows"}
  MaxFaults = 1
  MaxWrites = 1
  MaxCancels = 1
INVARIANTS ExitTruthful PinsHeld
PROPERTY EntryReturns
