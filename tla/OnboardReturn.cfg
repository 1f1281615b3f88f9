SPECIFICATION FairSpec
CONSTANTS
  NoOne = NoOne
  Users = {u1}
  Uids = {x1}
  Markets = {CRYPTO}
  Hooks = {w1, w2}
  Procs = {w1, w2}
  Programs <- ShortGrace
  Checks <- GoodOnly
  InviteTtl = 1
  MaxDay = 2
  MaxLinks = 3
INVARIANTS
  InvitedHasLink
  EntitlementMatches
  OneSubscription
PROPERTIES
  UpdatesEnd
