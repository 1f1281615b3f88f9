SPECIFICATION Spec
CONSTANTS
  NoOne = NoOne
  Users = {u1}
  Uids = {x1}
  Markets = {CRYPTO, FOREX}
  Instances = {i1, i2}
  Procs = {i1, i2}
  Programs <- NoGrace
  Checks <- FailingChecks
  InviteTtl = 0
  PeriodDays = 1
  MaxWarnings = 2
  WarningInterval = 0
  MaxDay = 2
  MaxLinks = 2
  MaxNotices = 2
SYMMETRY AnyInstanceAnyMarket
INVARIANTS
  ClaimIsExclusive
  CleanPeriodOneNotice
  WarnedBeforeRemoval
