SPECIFICATION RkSpec
CONSTANTS
  Pdata <- SomePdata
  OcvTable <- SomeTable
  Chips = {"RK809", "RK817"}
  Readings <- SomeReadings
  SavedStates <- SomeStates
  OffMinutes = {0, 40}
  SleepSecs = {900, 36000}
  MaxSteps = 5
INVARIANTS RkTypeOK SavedIsDisplayed
PROPERTIES RebootNeverRaises NoRiseOnDischarge FallsSlowly SleepNeverRaises FullIsShown
CHECK_DEADLOCK FALSE
