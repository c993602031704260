\* A driver that does not tell the memory of a process.
SPECIFICATION CalibrationSpec
CONSTANTS
  Repeats = 2
  Cycles = 1
  RefreshEvery = 2
  DriverReports = FALSE
  Resident = 2000
  LoadPeaks = {3000}
  GenPeaks = {4200}
  ChildMib = 400
  Residuals = {300}
  Others = {100}
  MaxForeign = 512
  Kwargs = {}
  Descriptors = {}
  MaxLoopSamples = 0
  MaxDisturbances = 0
INVARIANTS BlindIsNotTrusted
CHECK_DEADLOCK FALSE
