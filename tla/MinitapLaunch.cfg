SPECIFICATION FairSpec
CONSTANT Faults = {"fork", "unshare", "exec", "net", "setns", "kill", "stray"}
INVARIANTS
  TypeOK
  StartsBehindFirewall
  NoMinitapLeft
PROPERTY LaunchDecides
