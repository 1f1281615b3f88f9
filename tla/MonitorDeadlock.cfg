SPECIFICATION FairSpec
CONSTANTS
  NoOne = NoOne
  Users = {u1, u2}
  Uids = {x1, x2}
  Markets = {CRYPTO}
  Instances = {i1, i2}
  Procs = {i1, i2}
  Programs <- MCPrograms
  Checks <- FailingChecks
  InviteTtl = 1
  PeriodDays = 1
  MaxWarnings = 1
  WarningInterval = 1
  MaxDay = 1
  MaxLinks = 2
  MaxNotices = 0
PROPERTIES
  SweepsEnd
