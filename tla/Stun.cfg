CONSTANTS
  Typing = {user1, user2}
  Hosts = {host}
  Guests = {}
  GuestId = 2
  user1 = user1
  user2 = user2
  host = host
  guest = guest
  Rounds = 1
  MaxCmds = 2
  JoinIds = {2}
  MaxBeats = 0
  MaxPings = 0
  MaxOnline = 3
  ListMax = 2
  MaxFaults = 1
  Clients <- MCClients
  Program <- MCProgram
  Preset <- MCPreset
SPECIFICATION MCSpec
INVARIANTS TypesOK TypingOwnSession TypingMutualKnowledge TypingRightList RoundsAckFindsList
PROPERTY RoundsRegister
CHECK_DEADLOCK FALSE
