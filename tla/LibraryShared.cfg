SPECIFICATION Spec
CONSTANTS
  Apps = {a1, a2}
  Setups <- DefaultSetups
  Codes = {0}
  Faults = {}
INVARIANT NeverReturnsTwice
