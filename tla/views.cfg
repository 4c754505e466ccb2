SPECIFICATION SystemSpec
CONSTANTS
  Client = {c1, c2, c3}
  NoClient = NoClient
  Host = {h1}
  HashedHost = {x1}
  HashString <- CollidingHash
  Username = {alice, bob}
  BadUsername = {}
  LongUsername = {}
  Guest = Guest
  ChannelName = {room}
  BadChannelName = {}
  LongChannelName = {}
  NoChannel = NoChannel
  Spells = {}
  NoUser = NoUser
  NoName = NoName
  MaxChannels = 1
  MaxInFlight = 1
  MaxEntries = 1
  HelloFirst = TRUE
  Reconnects = TRUE
INVARIANTS ViewsAgree KnowsItsName
PROPERTIES OnlyHandledSent MessagesShown
CHECK_DEADLOCK FALSE
SYMMETRY SystemSymmetry
VIEW WithoutOut
