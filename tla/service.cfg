SPECIFICATION Spec
CONSTANTS
  Client = {c1, c2}
  NoClient = NoClient
  Host = {h1}
  HashedHost = {x1}
  HashString <- CollidingHash
  alice = alice
  bob = bob
  Username = {alice, bob}
  BadUsername = {}
  LongUsername = {}
  Guest = Guest
  ChannelName = {room, hall}
  BadChannelName = {}
  LongChannelName = {}
  NoChannel = NoChannel
  Spells = {}
  NoUser = NoUser
  Nobody = Nobody
  MaxChannels = 2
  HelloFirst = TRUE
INVARIANTS NoDanglingClient ChannelLifecycle
PROPERTIES ServesChat MembersInformed
CHECK_DEADLOCK FALSE
SYMMETRY ClientSymmetry
