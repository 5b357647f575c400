CONSTANTS
  Typing = {}
  Hosts = {h}
  Guests = {g}
  GuestId = 2
  h = h
  g = g
  Rounds = 2
  MaxCmds = 2
  JoinIds = {2}
  MaxBeats = 0
  MaxPings = 1
  MaxOnline = 3
  ListMax = 2
  MaxFaults = 0
  Clients <- MCClients
  Program <- MCProgram
  Preset <- MCPreset
SPECIFICATION Spec
PROPERTY AckMarksPeer
CHECK_DEADLOCK FALSE
