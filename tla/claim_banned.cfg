SPECIFICATION Spec
CONSTANTS
  Client = {c1, c2, c3}
  NoClient = NoClient
  Host = {h1}
  HashedHost = {x1}
  HashString <- CollidingHash
  alice = alice
  bob = bob
  Username = {alice, bob, carol}
  BadUsername = {}
  LongUsername = {}
  Guest = Guest
  ChannelName = {room}
  BadChannelName = {}
  LongChannelName = {}
  NoChannel = NoChannel
  Spells <- BobSpellsAlice
  NoUser = NoUser
  MaxChannels = 1
  HelloFirst = TRUE
PROPERTY AlreadyBannedIsBanned
CHECK_DEADLOCK FALSE
