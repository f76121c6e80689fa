\* ATU setups may miss their 5-poll budget: does EnabledMeansMemSpace survive?
CONSTANTS
  AtuMayFail = TRUE
  Undef = Undef
  BarAssigned <- MCAssigned
SPECIFICATION Spec
INVARIANT EnabledMeansMemSpace
CHECK_DEADLOCK FALSE
