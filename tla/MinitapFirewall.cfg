SPECIFICATION FairSpec
CONSTANTS
  i1 = i1
  ns = ns
  d1 = d1
  d2 = d2
  Ips <- MCIps
  Domains <- MCDomains
  Upstream = ns
  Conns = {c1, c2}
  Queries = {q1}
  Policies <- AllPolicies
  MaxInFlight = 1
  NoOne = NoOne
INVARIANTS
  TypeOK
  OnlyVouched
  ConnectionLimit
  LiteralRuleHonoured
PROPERTIES
  RequestsDecided
