CONSTANTS
  user1 = user1
  user2 = user2
  plain = plain
  ff = ff
  Clients <- MCClients
  RandIds <- MCRandIds
  BytesFF <- MCBytesFF
  MaxChan = 3
  Overlaid = {2}
  MaxSessions = 2
  MaxGrants = 2
  ListNodes = {1, 2, 3}
  ListKeys = {1, 2}
  ListHead = head
  Null = null
  MaxId = 6
SPECIFICATION MCSpec
SYMMETRY MCSymmetry
INVARIANT ChansAccounted
PROPERTY ListIsSequence
CHECK_DEADLOCK FALSE
