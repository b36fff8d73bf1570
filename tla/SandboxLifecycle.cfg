SPECIFICATION Spec
CONSTANTS
  Payload = payload
  Desc = {d1}
  Codes = {0, 3}
  Options <- AllOptions
INVARIANTS
  TypeOK
  NoOrphanedPid1
  CleanupOnlyWhenEmpty
  ExitStatusFaithful
  EscalationArmed
