SPECIFICATION SystemSpec
CONSTANTS
  Client = {c1, c2}
  NoClient = NoClient
  Host = {h1}
  HashedHost = {x1}
  HashString <- CollidingHash
  Username = {alice, bob}
  BadUsername = {}
  LongUsername = {}
  Guest = Guest
  ChannelName = {room}
  BadChannelName = {}
  LongChannelName = {}
  NoChannel = NoChannel
  Spells = {}
  NoUser = NoUser
  NoName = NoName
  MaxChannels = 1
  MaxInFlight = 2
  MaxEntries = 2
  HelloFirst = TRUE
  Reconnects = TRUE
INVARIANT DepartedRemoved
CHECK_DEADLOCK FALSE
SYMMETRY SystemSymmetry
VIEW WithoutOut
