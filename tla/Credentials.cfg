SPECIFICATION FairSpec
CONSTANTS
  Requests = {r1, r2}
  Tokens = {a, b}
  Genuine = {a}
  Null = Null
  MaxRoutes = 2
INVARIANTS
  TypeOK
  BotIsWhole
  BotVerifiedHonestly
  VerifiedInTurn
PROPERTIES
  RequestsEnd
