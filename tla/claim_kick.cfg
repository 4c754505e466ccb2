SPECIFICATION Spec
CONSTANTS
  Client = {c1, c2}
  NoClient = NoClient
  Host = {h1}
  HashedHost = {x1}
  HashString <- CollidingHash
  alice = alice
  bob = bob
  Username = {alice, bob}
  BadUsername = {}
  LongUsername = {}
  Guest = Guest
  ChannelName = {room}
  BadChannelName = {}
  LongChannelName = {}
  NoChannel = NoChannel
  Spells = {}
  NoUser = NoUser
  MaxChannels = 1
  HelloFirst = TRUE
INVARIANT NeverCrashed
CHECK_DEADLOCK FALSE
