CONSTANTS
  Curves = {1, 2, 3}
  EntryDays = {0, 1, 3}
  Days = {2, 4}
  Rates <- MCRates
  Shifts <- MCShifts
  Scales <- MCScales
  CacheSize = 4
  MaxFactors = 1
  MaxSteps = 3
  Configs <- StripConfigs
  None = None
  NaN = NaN
SPECIFICATION MCSpec
INVARIANTS AnswersTrue TablesKept StripsRight
PROPERTIES AskingIsQuiet
CHECK_DEADLOCK FALSE
