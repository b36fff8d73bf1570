SPECIFICATION FairSpec
CONSTANTS
  Apps = {a1}
  Setups <- AnySetup
  Codes = {0}
  Faults = {"fork", "pipe", "unshare", "spawn", "init", "caps", "hang", "signal", "kill"}
INVARIANTS
  TypeOK
  RunsOnce
  CleanupAfterSandbox
  SetupFailureReturns

  
