SPECIFICATION Spec
CONSTANTS
  Client = {c1, c2, c3}
  NoClient = NoClient
  Host = {h1}
  HashedHost = {x1}
  HashString <- CollidingHash
  alice = alice
  bob = bob
  Username = {alice, bob, carol, noname}
  BadUsername = {noname}
  LongUsername = {}
  Guest = Guest
  ChannelName = {room}
  BadChannelName = {}
  LongChannelName = {}
  NoChannel = NoChannel
  Spells = {}
  NoUser = NoUser
  Nobody = Nobody
  MaxChannels = 2
  HelloFirst = TRUE
INVARIANTS UsernamesExclusive NoMemberBanned
PROPERTIES RemovalNeedsAuthority MembersInformed OnlyMembersHear
CHECK_DEADLOCK FALSE
SYMMETRY ClientSymmetry
