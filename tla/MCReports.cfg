CONSTANTS
  Session = {s1, s2}
  MaxCommits = 3
  Student = {a}
  Worker = {w1, w2}
  Sessions = 3
  MaxRetries = 1
  Cancels = TRUE
SPECIFICATION ReadersSpec
INVARIANTS
  ExportAgeHonest ExportMembershipStable
  NoSilentGap
PROPERTY ReportReturns
CHECK_DEADLOCK FALSE
