SPECIFICATION Spec
CONSTANTS
  Output = {A, B}
  Mode = {"MAIN_INV", "PROG"}
  MaxChanges = 2
  MaxEpochs = 3
  MaxWire = 3
  MaxAttempts = 2
  Timeout = 1
SYMMETRY Symmetry
CHECK_DEADLOCK FALSE
INVARIANTS
  QuietPowerIsTrue
  FaultIsShown
  FeaturesAreOfThisStation
  NothingOfTheStationIsLeft
PROPERTIES
  NeverReenergizes
