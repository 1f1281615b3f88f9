SPECIFICATION FairSpec
CONSTANTS
  None = None
  UidLength = 2
  Users = {u1}
  Markets = {CRYPTO, FOREX}
  Hooks = {w1, w2}
  Texts <- MCTexts
  MaxEdits = 1
INVARIANTS
  TypeOK
  RightMarket
  NeverGuessed
  NoDeadEnd
  OneSpelling
PROPERTIES
  UpdatesEnd
