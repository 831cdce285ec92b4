\* Signing in as somebody else on the sign-in page of a signed-in browser.
SPECIFICATION WebSpec
CONSTANTS
  None = None
  ann = ann
  ben = ben
  s1 = s1
  s2 = s2
  Users = {ann, ben}
  Slots = {s1}
  MaxCalls = 2
  Followed <- MCFollowed
INVARIANTS
  NoOtherUsersData
