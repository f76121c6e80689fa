\* ATU setups may miss their 5-poll budget: does BarRestored survive?
CONSTANTS
  AtuMayFail = TRUE
  Undef = Undef
  BarAssigned <- MCAssigned
SPECIFICATION Spec
INVARIANT BarRestored
CHECK_DEADLOCK FALSE
