\* The whole script, on machines found in any state, with any faults.
SPECIFICATION Spec
INVARIANTS
  MachineIsSettled
  OnlyOwnFaultsFail
