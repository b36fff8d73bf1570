SPECIFICATION Spec
CONSTANTS
  Apps = {a1, a2}
  Setups <- SoundSetups
  Codes = {0, 3}
  Faults = {"pipe"}
PROPERTIES
  KeepsContract
