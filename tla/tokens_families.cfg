\* Three overlapping requests over two families of tokens.
SPECIFICATION Spec
CONSTANTS
  None = None
  r1 = r1
  r2 = r2
  r3 = r3
  MaxTokens = 4
  Slots = {r1, r2, r3}
SYMMETRY SlotSymmetry
INVARIANTS
  TypeOK
  RevocationIsFinal
  ExchangedIsRevoked
PROPERTIES
  OnlyExpiredForgotten
  OtherSessionsGoOn
