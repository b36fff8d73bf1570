SPECIFICATION FairSpec
CONSTANTS
  Payload = payload
  Desc = {d1}
  Codes = {0}
  Options <- TimedOrNot
PROPERTIES
  LauncherDeathKillsSandbox
  TimeoutEndsRun
  ArmedInvokerDeathEndsRun
