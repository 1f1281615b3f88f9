SPECIFICATION Spec
CONSTANTS
  NoOne = NoOne
  Users = {u1}
  Uids = {x1, x2}
  Markets = {CRYPTO, FOREX}
  Instances = {i1}
  Procs = {i1}
  Programs <- MCPrograms
  Checks <- MCChecks
  InviteTtl = 1
  PeriodDays = 1
  MaxWarnings = 1
  WarningInterval = 1
  MaxDay = 2
  MaxLinks = 2
  MaxNotices = 0
INVARIANTS
  RevokedIsOut
