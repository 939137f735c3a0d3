CONSTANTS
  MaxSteps = 7
  MaxUsd = 2
  MaxCost = 2
SPECIFICATION Spec
INVARIANT AcceptsWhatItEmits
CHECK_DEADLOCK FALSE
