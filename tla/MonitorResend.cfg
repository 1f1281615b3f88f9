SPECIFICATION Spec
CONSTANTS
  NoOne = NoOne
  Users = {u1}
  Uids = {x1}
  Markets = {CRYPTO}
  Instances = {i1}
  Procs = {i1}
  Programs <- MCPrograms
  Checks <- FailingChecks
  InviteTtl = 1
  PeriodDays = 2
  MaxWarnings = 1
  WarningInterval = 2
  MaxDay = 2
  MaxLinks = 2
  MaxNotices = 2
INVARIANTS
  OneNoticePerPeriod
