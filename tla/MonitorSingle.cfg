SPECIFICATION FairSpec
CONSTANTS
  NoOne = NoOne
  Users = {u1}
  Uids = {x1}
  Markets = {CRYPTO}
  Instances = {i1}
  Procs = {i1}
  Programs <- MCPrograms
  Checks <- MCChecks
  InviteTtl = 1
  PeriodDays = 2
  MaxWarnings = 1
  WarningInterval = 2
  MaxDay = 6
  MaxLinks = 2
  MaxNotices = 0
INVARIANTS
  TypeOK
  WarningsCounted
  RevokedMayReturn
  RevokedIsOut
  EntitlementMatches
PROPERTIES
  SweepsEnd
  FollowsCourse
