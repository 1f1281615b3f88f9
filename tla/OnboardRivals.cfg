SPECIFICATION Spec
CONSTANTS
  NoOne = NoOne
  Users = {u1, u2}
  Uids = {x1}
  Markets = {CRYPTO}
  Hooks = {w1, w2}
  Procs = {w1, w2}
  Programs <- LongGrace
  Checks <- AllChecks
  InviteTtl = 1
  MaxDay = 0
  MaxLinks = 2
INVARIANTS
  TypeOK
  OneAccountOneMember
  OneOpenLink
