SPECIFICATION Spec
CONSTANTS
  Client = {c1}
  NoClient = NoClient
  Host = {h1}
  HashedHost = {x1}
  HashString <- CollidingHash
  alice = alice
  bob = bob
  Username = {alice, bob}
  BadUsername = {}
  LongUsername = {}
  Guest = Guest
  ChannelName = {room, long}
  BadChannelName = {}
  LongChannelName = {long}
  NoChannel = NoChannel
  Spells = {}
  NoUser = NoUser
  MaxChannels = 1
  HelloFirst = TRUE
INVARIANT ChannelResultOnChannel
CHECK_DEADLOCK FALSE
