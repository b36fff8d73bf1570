SPECIFICATION Spec
CONSTANTS
  ip = ip
  name = name
  subnet = subnet
  full = full
  long = long
  Rules = {ip, name, subnet, full, long}
  Size <- MCSize
  Ipv4 = {ip}
  Junk = Junk
  Mixed = Mixed
  NoText = NoText
  RuleFiles <- MCFiles
  Limits <- MCLimits
  Fallbacks <- MCFallbacks
  NoFile = NoFile
  MAX_RULES = 2
  MAX_RULE_LENGTH = 3
  COUNT_SIZE = 1
  INT_SIZE = 1
  Garbage <- MCGarbage
  MaxCalls = 5
INVARIANTS
  TypeOK
  PolicyArrives
  FailsClosed
