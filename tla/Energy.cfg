SPECIFICATION FairSpec
CONSTANTS
  Polls = {p1, p2}
  Parts = 4
  Amounts = {1, 2}
  MaxMeasured = 4
INVARIANTS TypeOK EnergyReportedOnce
PROPERTIES NoRestartWhenRunning MeterStarts
