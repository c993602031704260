\* Learning: two jobs, every list at its cap.  Calibration: two repetitions, one cycle,
\* one sample of the loop thread, one fault or one move of the others.
SPECIFICATION MeasuringSpec
CONSTANTS
  LearnJobs = {j1, j2}
  Readings = {100, 300}
  Declared = 150
  MinSamples = 1
  RecentCap = 2
  StoreCap = 2
  MaxRequeues = 1
  MaxUpsets = 1
  Repeats = 2
  Cycles = 1
  RefreshEvery = 2
  DriverReports = TRUE
  Resident = 2000
  LoadPeaks = {5000}
  GenPeaks = {4200}
  ChildMib = 400
  Residuals = {300, 1900}
  Others = {100, 700}
  MaxForeign = 512
  Kwargs <- KwargsTried
  Descriptors <- DescriptorsTried
  MaxLoopSamples = 1
  MaxDisturbances = 1
INVARIANTS LearningConsistent CalibrationConsistent TrustedPeakIsTrue AdmissionCovers RoomIsMade SuggestionSettles StraysAreTheOthers DescriptorsAreSound
PROPERTIES MeasuringEnds
CHECK_DEADLOCK FALSE
