CONSTANTS
  Freqs = {0, 13}
  ForkFails = FALSE
SPECIFICATION Spec
INVARIANTS
  ThingsAreSetBack
