\* Every page and write, one call, two users one after the other or over each other.
SPECIFICATION WebSpec
CONSTANTS
  None = None
  ann = ann
  ben = ben
  s1 = s1
  s2 = s2
  Users = {ann, ben}
  Slots = {s1}
  MaxCalls = 1
  Followed <- MCFollowed
INVARIANTS
  WebTypeOK
  RestsCurrent
  OwnWritesShown
  SignOutForgets
PROPERTIES
  KeepsViewsFresh
