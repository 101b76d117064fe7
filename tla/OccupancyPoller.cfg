SPECIFICATION FairSpec
CONSTANTS
  Distances <- MCDistances
  StartupDelay = 1
  HysteresisOccupied = 0
  HysteresisVacant = 2
  VacantReports = 2
  NumParams = 1
  Days = {0}
INVARIANTS
  TypeOK
PROPERTIES
  AnnouncesOnlyStable
  CalibratesOnlyVacant
  AnnouncesLevel
  ForcedCalibrates
