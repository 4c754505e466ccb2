SPECIFICATION Spec
CONSTANTS
  Client = {c1, c2}
  NoClient = NoClient
  Host = {h1, h2}
  HashedHost = {x1, x2}
  HashString <- DistinctHash
  alice = alice
  bob = bob
  Username = {alice, bob, lengthy}
  BadUsername = {}
  LongUsername = {lengthy}
  Guest = Guest
  ChannelName = {room, plain, long}
  BadChannelName = {plain}
  LongChannelName = {long}
  NoChannel = NoChannel
  Spells <- BobSpellsAlice
  NoUser = NoUser
  Nobody = Nobody
  MaxChannels = 1
  HelloFirst = FALSE
INVARIANTS TypeOK NoDanglingClient ChannelLifecycle
PROPERTIES OperatorsOnlyLost ClosedForGood
CHECK_DEADLOCK FALSE
SYMMETRY ClientSymmetry
