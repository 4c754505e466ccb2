------------------------ MODULE ChatRefinementProofs ------------------------
(***************************************************************************)
(* ChatServer implements ChatService for every value of its constants when *)
(* every peer says Hello before anything else.                             *)
(***************************************************************************)
EXTENDS ChatServerRefinement, ChatServerProofs

(***************************************************************************)
(* Rooms and identities as functions of any vector of channels and any map *)
(* of users, so that the lemmas apply before and after a step.             *)
(***************************************************************************)
NoRoom == [members |-> {}, operators |-> {}, banned |-> {}]

Open(chs, name) == {i \in DOMAIN chs : chs[i].Enabled /\ chs[i].Name = name}

Contents(channel) ==
  IF channel.Enabled
  THEN [members |-> channel.Clients, operators |-> channel.Operators,
        banned |-> channel.Banned]
  ELSE NoRoom

RoomIn(chs, name) ==
  IF Open(chs, name) = {} THEN NoRoom
  ELSE Contents(chs[CHOOSE j \in Open(chs, name) : TRUE])

IdentityIn(us, c) ==
  IF us[c] # NoUser /\ us[c].Identified THEN UserAndHost(us[c]) ELSE Nobody

Rooms(chs) == [name \in ChannelName |-> RoomIn(chs, name)]
Identities(us) == [c \in Client |-> IdentityIn(us, c)]

LEMMA RoomOfRoomIn ==
  ASSUME NEW name
  PROVE  /\ RoomOf(name) = RoomIn(channels, name)
         /\ RoomOf(name)' = RoomIn(channels', name)
<1>1. RoomOf(name) = RoomIn(channels, name)
  <2>1. Matching(name) = Open(channels, name)
    BY DEF Matching, Open
  <2>2. CASE Open(channels, name) = {}
    BY <2>1, <2>2 DEF RoomOf, RoomIn, NoRoom
  <2>3. CASE Open(channels, name) # {}
    <3> DEFINE i == CHOOSE j \in Open(channels, name) : TRUE
    <3>1. i \in Open(channels, name)
      BY <2>3
    <3>2. channels[i].Enabled
      BY <3>1 DEF Open
    <3> QED
      BY <2>1, <2>3, <3>2 DEF RoomOf, RoomIn, Contents
  <2> QED
    BY <2>2, <2>3
<1>2. RoomOf(name)' = RoomIn(channels', name)
  <2>1. Matching(name)' = Open(channels', name)
    BY DEF Matching, Open
  <2>2. CASE Open(channels', name) = {}
    BY <2>1, <2>2 DEF RoomOf, RoomIn, NoRoom
  <2>3. CASE Open(channels', name) # {}
    <3> DEFINE i == CHOOSE j \in Open(channels', name) : TRUE
    <3>1. i \in Open(channels', name)
      BY <2>3
    <3>2. channels'[i].Enabled
      BY <3>1 DEF Open
    <3> QED
      BY <2>1, <2>3, <3>2 DEF RoomOf, RoomIn, Contents
  <2> QED
    BY <2>2, <2>3
<1> QED
  BY <1>1, <1>2

\* A room is the one enabled channel of its name.
LEMMA OpenRoom ==
  ASSUME NEW cls, NEW us, NEW chs, Sound(chs, cls, us),
         NEW i \in DOMAIN chs, chs[i].Enabled
  PROVE  RoomIn(chs, chs[i].Name) = Contents(chs[i])
<1>1. Open(chs, chs[i].Name) = {i}
  BY DEF Open, Sound
<1> QED
  BY <1>1 DEF RoomIn

\* Rooms differ only by the enabled channels of their names.
LEMMA SameRoom ==
  ASSUME NEW chs, NEW new, NEW name, Open(new, name) = Open(chs, name),
         \A j \in Open(chs, name) : new[j] = chs[j]
  PROVE  RoomIn(new, name) = RoomIn(chs, name)
<1>1. CASE Open(chs, name) = {}
  BY <1>1 DEF RoomIn
<1>2. CASE Open(chs, name) # {}
  <2>1. (CHOOSE j \in Open(chs, name) : TRUE) \in Open(chs, name)
    BY <1>2
  <2> QED
    BY <1>2, <2>1 DEF RoomIn
<1> QED
  BY <1>1, <1>2

\* An enabled channel is appended when there is none of its name.
LEMMA RoomsAppend ==
  ASSUME NEW cls, NEW us, NEW chs, Sound(chs, cls, us),
         NEW channel, channel.Enabled, channel.Name \in ChannelName,
         \A j \in DOMAIN chs : chs[j].Enabled => chs[j].Name # channel.Name
  PROVE  /\ Rooms(Append(chs, channel))
              = [Rooms(chs) EXCEPT ![channel.Name] = Contents(channel)]
         /\ RoomIn(chs, channel.Name) = NoRoom
<1> DEFINE new == Append(chs, channel)
           last == Len(chs) + 1
           name == channel.Name
<1>1. /\ DOMAIN chs = 1..Len(chs)
      /\ Len(chs) \in Nat
      /\ DOMAIN new = 1..last
      /\ new[last] = channel
      /\ \A j \in 1..Len(chs) : new[j] = chs[j]
  <2>1. chs \in Seq(ChatChannel)
    BY DEF Sound
  <2> QED
    BY <2>1
<1> HIDE DEF new
<1>2. RoomIn(new, name) = Contents(channel)
  <2>1. Open(new, name) = {last}
    BY <1>1 DEF Open
  <2> QED
    BY <1>1, <2>1 DEF RoomIn
<1>3. ASSUME NEW other \in ChannelName, other # name
      PROVE  RoomIn(new, other) = RoomIn(chs, other)
  <2>1. Open(new, other) = Open(chs, other)
    BY <1>1, <1>3 DEF Open
  <2>2. \A j \in Open(chs, other) : new[j] = chs[j]
    BY <1>1 DEF Open
  <2> QED
    BY <2>1, <2>2, SameRoom
<1>4. Rooms(new) = [Rooms(chs) EXCEPT ![name] = Contents(channel)]
  BY <1>2, <1>3 DEF Rooms
<1>5. RoomIn(chs, name) = NoRoom
  BY DEF RoomIn, Open
<1> QED
  BY <1>4, <1>5 DEF new

\* A room with one member more.
LEMMA RoomWith ==
  ASSUME NEW members, NEW operators, NEW banned, NEW c
  PROVE  Service!With([members |-> members, operators |-> operators,
                       banned |-> banned], c)
           = [members |-> members \cup {c}, operators |-> operators,
              banned |-> banned]
  BY DEF Service!With

\* A room that keeps a member keeps its bans.
LEMMA RoomWithout ==
  ASSUME NEW members, NEW operators, NEW banned, NEW c,
         ~(members \subseteq {c})
  PROVE  Service!Without([members |-> members, operators |-> operators,
                          banned |-> banned], c)
           = [members |-> members \ {c}, operators |-> operators \ {c},
              banned |-> banned]
  BY DEF Service!Without

LEMMA RoomBanning ==
  ASSUME NEW members, NEW operators, NEW banned, NEW c, NEW who,
         ~(members \subseteq {c})
  PROVE  Service!Banning([members |-> members, operators |-> operators,
                          banned |-> banned], c, who)
           = [members |-> members \ {c}, operators |-> operators \ {c},
              banned |-> banned \cup {who}]
  BY RoomWithout DEF Service!Banning

\* A client that goes is taken out of every room.
LEMMA RoomsWithout ==
  ASSUME NEW cls, NEW us, NEW chs, Sound(chs, cls, us), NEW c
  PROVE  Rooms([i \in DOMAIN chs |-> WithoutClient(chs[i], c)])
           = [name \in ChannelName |-> Service!Without(RoomIn(chs, name), c)]
<1> DEFINE new == [i \in DOMAIN chs |-> WithoutClient(chs[i], c)]
<1> SUFFICES ASSUME NEW name \in ChannelName
             PROVE  RoomIn(new, name) = Service!Without(RoomIn(chs, name), c)
  BY DEF Rooms
<1>1. ASSUME NEW i \in DOMAIN chs
      PROVE  /\ new[i].Name = chs[i].Name
             /\ new[i].Enabled <=> chs[i].Enabled /\ chs[i].Clients # {c}
  <2>1. chs[i] \in ChatChannel
    BY DEF Sound, SoundChannel
  <2> QED
    BY <2>1 DEF WithoutClient, Removed, ChatChannel
<1>2. CASE Open(chs, name) = {}
  <2>1. Open(new, name) = {}
    BY <1>1, <1>2 DEF Open
  <2> QED
    BY <1>2, <2>1 DEF RoomIn, NoRoom, Service!Without, Service!Closed
<1>3. ASSUME NEW i \in DOMAIN chs, chs[i].Enabled, chs[i].Name = name
      PROVE  RoomIn(new, name) = Service!Without(RoomIn(chs, name), c)
  <2>1. /\ chs[i] \in ChatChannel
        /\ chs[i].Clients # {}
    BY <1>3 DEF Sound, SoundChannel
  <2>2. Open(chs, name) = {i}
    BY <1>3 DEF Open, Sound
  <2>3. RoomIn(chs, name) = [members |-> chs[i].Clients,
                             operators |-> chs[i].Operators,
                             banned |-> chs[i].Banned]
    BY <1>3, <2>2 DEF RoomIn, Contents
  <2>4. CASE chs[i].Clients = {c}
    <3>1. Open(new, name) = {}
      BY <1>1, <2>2, <2>4 DEF Open
    <3>2. RoomIn(new, name) = NoRoom
      BY <3>1 DEF RoomIn
    <3>3. RoomIn(chs, name).members \subseteq {c}
      BY <2>3, <2>4
    <3> QED
      BY <3>2, <3>3 DEF NoRoom, Service!Without, Service!Closed
  <2>5. CASE chs[i].Clients # {c}
    <3>1. Open(new, name) = {i}
      BY <1>1, <1>3, <2>2, <2>5 DEF Open
    <3>2. /\ new[i].Enabled
          /\ new[i].Clients = chs[i].Clients \ {c}
          /\ new[i].Operators = chs[i].Operators \ {c}
          /\ new[i].Banned = chs[i].Banned
      BY <1>3, <2>1, <2>5 DEF WithoutClient, Removed, ChatChannel
    <3>3. RoomIn(new, name) = [members |-> chs[i].Clients \ {c},
                               operators |-> chs[i].Operators \ {c},
                               banned |-> chs[i].Banned]
      BY <3>1, <3>2 DEF RoomIn, Contents
    <3>4. ~(chs[i].Clients \subseteq {c})
      BY <2>1, <2>5
    <3> QED
      BY <2>3, <3>3, <3>4, RoomWithout
  <2> QED
    BY <2>4, <2>5
<1> QED
  BY <1>2, <1>3 DEF Open
-----------------------------------------------------------------------------
(***************************************************************************)
(* The steps of the service.                                               *)
(***************************************************************************)
LEMMA Mapping ==
  /\ [c \in Client |-> IdentityOf(c)] = Identities(users)
  /\ [c \in Client |-> IdentityOf(c)]' = Identities(users')
  /\ [name \in ChannelName |-> RoomOf(name)] = Rooms(channels)
  /\ [name \in ChannelName |-> RoomOf(name)]' = Rooms(channels')
<1>1. \A c : /\ IdentityOf(c) = IdentityIn(users, c)
             /\ IdentityOf(c)' = IdentityIn(users', c)
  BY DEF IdentityOf, IdentityIn, GetChatUser
<1> QED
  BY <1>1, RoomOfRoomIn DEF Identities, Rooms

LEMMA Stutter ==
  ASSUME Identities(users') = Identities(users), Rooms(channels') = Rooms(channels)
  PROVE  UNCHANGED Service!vars
  BY Mapping DEF Service!vars

\* Who has identified is somebody.
LEMMA Somebody ==
  ASSUME ServerInv, NEW c \in clients, users[c].Identified
  PROVE  /\ c \in Client
         /\ Identities(users)[c] = UserAndHost(users[c])
         /\ Identities(users)[c] # Nobody
<1>1. c \in Client /\ users[c] # NoUser /\ UserAndHost(users[c]) \in HostInfo
  BY IdentifiedType DEF ServerInv, Sessions, GetChatUser
<1> QED
  BY <1>1, NobodyAssumption DEF Identities, IdentityIn

\* The room of an enabled channel.
LEMMA RoomOfChannel ==
  ASSUME ServerInv, NEW i \in DOMAIN channels, channels[i].Enabled
  PROVE  /\ channels[i] \in ChatChannel
         /\ channels[i].Name \in ChannelName
         /\ Rooms(channels)[channels[i].Name]
              = [members |-> channels[i].Clients,
                 operators |-> channels[i].Operators,
                 banned |-> channels[i].Banned]
<1>1. channels[i] \in ChatChannel /\ channels[i].Name \in ChannelName
  BY DEF ServerInv, SoundChannels, Sound, SoundChannel, ChatChannel
<1>2. RoomIn(channels, channels[i].Name) = Contents(channels[i])
  BY OpenRoom DEF ServerInv, SoundChannels
<1> QED
  BY <1>1, <1>2 DEF Rooms, Contents

\* A channel is replaced by one of the same name.
LEMMA RoomReplaced ==
  ASSUME ServerInv, NEW i \in DOMAIN channels, channels[i].Enabled,
         NEW channel, channel.Name = channels[i].Name,
         channels' = [channels EXCEPT ![i] = channel]
  PROVE  Rooms(channels')
           = [Rooms(channels) EXCEPT ![channels[i].Name] = Contents(channel)]
<1> DEFINE name == channels[i].Name
<1>1. /\ Sound(channels, clients, users)
      /\ DOMAIN channels' = DOMAIN channels
      /\ channels'[i] = channel
      /\ \A j \in DOMAIN channels : j # i => channels'[j] = channels[j]
  BY DEF ServerInv, SoundChannels, Sound
<1>2. name \in ChannelName
  BY <1>1 DEF Sound, SoundChannel, ChatChannel
<1>3. RoomIn(channels', name) = Contents(channel)
  <2>1. \A j \in DOMAIN channels : j # i => ~(channels[j].Enabled /\ channels[j].Name = name)
    BY <1>1 DEF Sound
  <2>2. CASE channel.Enabled
    <3>1. Open(channels', name) = {i}
      BY <1>1, <2>1, <2>2 DEF Open
    <3> QED
      BY <1>1, <3>1 DEF RoomIn
  <2>3. CASE ~channel.Enabled
    <3>1. Open(channels', name) = {}
      BY <1>1, <2>1, <2>3 DEF Open
    <3> QED
      BY <2>3, <3>1 DEF RoomIn, Contents
  <2> QED
    BY <2>2, <2>3
<1>4. ASSUME NEW other \in ChannelName, other # name
      PROVE  RoomIn(channels', other) = RoomIn(channels, other)
  <2>1. Open(channels', other) = Open(channels, other)
    BY <1>1, <1>4 DEF Open
  <2>2. \A j \in Open(channels, other) : channels'[j] = channels[j]
    BY <1>1, <1>4 DEF Open
  <2> DEFINE after == channels'
  <2>3. /\ Open(after, other) = Open(channels, other)
        /\ \A j \in Open(channels, other) : after[j] = channels[j]
    BY <2>1, <2>2
  <2> HIDE DEF after
  <2>4. RoomIn(after, other) = RoomIn(channels, other)
    BY <2>3, SameRoom, Zenon
  <2> QED
    BY <2>4 DEF after
<1> QED
  BY <1>2, <1>3, <1>4 DEF Rooms

LEMMA ServiceFound ==
  ASSUME ServerInv, serving \in clients, UNCHANGED users,
         NEW name \in ChannelName, NEW i \in 0..Len(channels),
         Finds(name, i), ChannelCreated(serving, name, i)
  PROVE  Service!Next
<1> DEFINE channel == [Enabled |-> TRUE, Name |-> name, Clients |-> {serving},
                       Operators |-> {serving}, Banned |-> {}]
<1>1. i = 0 /\ users[serving].Identified
  BY DEF ChannelCreated, JoinResult
<1>2. channels' = Append(channels, channel)
  BY DEF ChannelCreated
<1>3. \A j \in DOMAIN channels : channels[j].Enabled => channels[j].Name # name
  BY <1>1, FindsChannel
<1>4. channel.Enabled /\ channel.Name = name
      /\ Contents(channel) = [members |-> {serving}, operators |-> {serving},
                              banned |-> {}]
  BY DEF Contents
<1> HIDE DEF channel
<1>5. /\ Rooms(channels') = [Rooms(channels) EXCEPT ![name] = Contents(channel)]
      /\ RoomIn(channels, name) = NoRoom
  BY <1>2, <1>3, <1>4, RoomsAppend DEF ServerInv, SoundChannels
<1>6. Rooms(channels)[name].members = {}
  BY <1>5 DEF Rooms, NoRoom
<1>7. serving \in Client /\ Identities(users)[serving] # Nobody
  BY <1>1, Somebody
<1>8. Service!Found(serving, name)
  BY <1>4, <1>5, <1>6, <1>7, Mapping DEF Service!Found
<1> QED
  BY <1>7, <1>8 DEF Service!Next

LEMMA ServiceEnter ==
  ASSUME ServerInv, serving \in clients, UNCHANGED users,
         NEW name \in ChannelName, NEW i \in 0..Len(channels),
         Finds(name, i), ChannelJoined(serving, name, i)
  PROVE  Service!Next
<1> DEFINE old == channels[i]
           new == Joined(old, serving)
<1>1. /\ i # 0
      /\ users[serving].Identified
      /\ serving \notin old.Clients
      /\ UserAndHost(users[serving]) \notin old.Banned
      /\ channels' = [channels EXCEPT ![i] = new]
  BY DEF ChannelJoined, JoinResult
<1>2. i \in DOMAIN channels /\ old.Enabled /\ old.Name = name
  BY <1>1, FindsChannel
<1>3. /\ old \in ChatChannel
      /\ Rooms(channels)[name] = [members |-> old.Clients,
                                  operators |-> old.Operators,
                                  banned |-> old.Banned]
  BY <1>2, RoomOfChannel
<1>4. old.Clients # {}
  BY <1>2 DEF ServerInv, SoundChannels, Sound, SoundChannel
<1>5. /\ new.Name = old.Name
      /\ Contents(new) = [members |-> old.Clients \cup {serving},
                          operators |-> old.Operators, banned |-> old.Banned]
  <2>1. new.Enabled
    BY <1>2, <1>3 DEF Joined, ChatChannel
  <2> QED
    BY <1>3, <2>1, JoinedFields DEF Contents
<1> HIDE DEF new
<1>6. Rooms(channels')
        = [Rooms(channels) EXCEPT ![name] = Service!With(@, serving)]
  <2>1. Rooms(channels') = [Rooms(channels) EXCEPT ![name] = Contents(new)]
    BY <1>1, <1>2, <1>5, RoomReplaced
  <2>2. Contents(new) = Service!With(Rooms(channels)[name], serving)
    BY <1>3, <1>5, RoomWith
  <2> QED
    BY <2>1, <2>2
<1>7. /\ serving \in Client
      /\ Identities(users)[serving] # Nobody
      /\ Identities(users)[serving] = UserAndHost(users[serving])
  BY <1>1, Somebody
<1>8. Service!Enter(serving, name)
  BY <1>1, <1>3, <1>4, <1>6, <1>7, Mapping DEF Service!Enter
<1> QED
  BY <1>7, <1>8 DEF Service!Next

LEMMA ServiceLeave ==
  ASSUME ServerInv, serving \in clients, UNCHANGED users,
         NEW name \in ChannelName, NEW i \in 0..Len(channels),
         Finds(name, i), ChannelLeft(serving, name, i)
  PROVE  Service!Next
<1> DEFINE old == channels[i]
           new == Left(old, serving)
<1>1. /\ MemberResult(serving, name, i) = "Ok"
      /\ channels' = [channels EXCEPT ![i] = new]
  BY DEF ChannelLeft
<1>2. /\ i \in DOMAIN channels /\ old.Enabled /\ serving \in old.Clients
      /\ old.Name = name
      /\ serving \in Client
  BY <1>1, MemberRequest, FindsChannel DEF ServerInv, Sessions, MemberResult
<1>3. /\ old \in ChatChannel
      /\ Rooms(channels)[name] = [members |-> old.Clients,
                                  operators |-> old.Operators,
                                  banned |-> old.Banned]
  BY <1>2, RoomOfChannel
<1>4. /\ new.Name = old.Name
      /\ new.Enabled <=> old.Clients # {serving}
      /\ new.Clients = old.Clients \ {serving}
      /\ new.Operators = old.Operators \ {serving}
      /\ new.Banned = old.Banned
  <2>1. new.Enabled <=> old.Clients # {serving}
    BY <1>3 DEF Left, Removed, ChatChannel
  <2> QED
    BY <1>3, <2>1, LeftFields
<1> HIDE DEF new
<1>5. Contents(new) = Service!Without(Rooms(channels)[name], serving)
  <2>1. CASE old.Clients = {serving}
    <3>1. Rooms(channels)[name].members \subseteq {serving}
      BY <1>3, <2>1
    <3> QED
      BY <1>4, <2>1, <3>1 DEF Contents, NoRoom, Service!Without, Service!Closed
  <2>2. CASE old.Clients # {serving}
    <3>1. ~(old.Clients \subseteq {serving})
      BY <1>2, <2>2
    <3> QED
      BY <1>3, <1>4, <2>2, <3>1, RoomWithout DEF Contents
  <2> QED
    BY <2>1, <2>2
<1>6. Rooms(channels')
        = [Rooms(channels) EXCEPT ![name] = Service!Without(@, serving)]
  BY <1>1, <1>2, <1>4, <1>5, RoomReplaced
<1>7. Service!Leave(serving, name)
  BY <1>2, <1>3, <1>6, Mapping DEF Service!Leave
<1> QED
  BY <1>2, <1>7 DEF Service!Next

LEMMA ServiceRemove ==
  ASSUME ServerInv, serving \in clients, UNCHANGED users,
         NEW name \in ChannelName, NEW i \in 0..Len(channels),
         NEW target \in Username,
         Finds(name, i), UserKicked(serving, name, i, target)
  PROVE  Service!Next
<1>1. OperatorResult(serving, name, i, target, "CannotKickSelf") = "Ok"
  BY DEF UserKicked, KickResult
<1>2. PICK k \in Named(i, target) :
        channels' = [channels EXCEPT ![i] = Removed(@, k)]
  BY DEF UserKicked
<1> DEFINE old == channels[i]
           new == Removed(old, k)
<1>3. /\ i \in DOMAIN channels /\ old.Enabled /\ old.Name = name
      /\ serving \in old.Clients /\ serving \in old.Operators
      /\ k # serving /\ k \in old.Clients
  BY <1>1, OperatorRequest, OperatorAuthority, FindsChannel
  DEF OperatorResult, MemberResult
<1>4. serving \in Client /\ k \in Client
  BY <1>3, MemberType
<1>5. /\ old \in ChatChannel
      /\ Rooms(channels)[name] = [members |-> old.Clients,
                                  operators |-> old.Operators,
                                  banned |-> old.Banned]
  BY <1>3, RoomOfChannel
<1>6. new.Name = old.Name
      /\ Contents(new) = [members |-> old.Clients \ {k},
                          operators |-> old.Operators \ {k},
                          banned |-> old.Banned]
  <2>1. new.Enabled
    BY <1>3, <1>5 DEF Removed, ChatChannel
  <2> QED
    BY <1>5, <2>1, RemovedFields DEF Contents
<1>7. channels' = [channels EXCEPT ![i] = new]
  BY <1>2
<1> HIDE DEF new
<1>8. Contents(new) = Service!Without(Rooms(channels)[name], k)
  BY <1>3, <1>5, <1>6, RoomWithout
<1>9. Rooms(channels') = [Rooms(channels) EXCEPT ![name] = Service!Without(@, k)]
  BY <1>3, <1>6, <1>7, <1>8, RoomReplaced
<1>10. Service!Remove(serving, k, name)
  BY <1>3, <1>5, <1>9, Mapping DEF Service!Remove
<1> QED
  BY <1>4, <1>10 DEF Service!Next

LEMMA ServiceBan ==
  ASSUME ServerInv, serving \in clients, UNCHANGED users,
         NEW name \in ChannelName, NEW i \in 0..Len(channels),
         NEW target \in Username,
         Finds(name, i), UserBanned(serving, name, i, target)
  PROVE  Service!Next
<1>1. OperatorResult(serving, name, i, target, "CannotBanSelf") = "Ok"
  BY DEF UserBanned, BanResult
<1>2. PICK k \in Named(i, target) :
        channels' = [channels EXCEPT ![i] = Ban(@, k, UserAndHost(users[k]))]
  BY DEF UserBanned
<1> DEFINE old == channels[i]
           who == UserAndHost(users[k])
<1> HIDE DEF who
<1>3. /\ i \in DOMAIN channels /\ old.Enabled /\ old.Name = name
      /\ serving \in old.Clients /\ serving \in old.Operators
      /\ k # serving /\ k \in old.Clients
  <2>1. /\ i \in DOMAIN channels /\ old.Enabled
        /\ serving \in old.Clients
        /\ k # serving /\ k \in old.Clients
    BY <1>1, OperatorRequest
  <2>2. serving \in old.Operators
    BY <1>1, OperatorAuthority
  <2>3. i # 0
    BY <1>1 DEF OperatorResult, MemberResult
  <2> QED
    BY <2>1, <2>2, <2>3, FindsChannel
<1>4. serving \in Client /\ k \in Client /\ Identities(users)[k] = who
  <2>1. serving \in Client /\ k \in clients /\ users[k].Identified
    BY <1>3, MemberType DEF IdentifiedUser
  <2> QED
    BY <2>1, Somebody DEF who
<1> DEFINE new == Ban(old, k, who)
<1>5. /\ old \in ChatChannel
      /\ Rooms(channels)[name] = [members |-> old.Clients,
                                  operators |-> old.Operators,
                                  banned |-> old.Banned]
  BY <1>3, RoomOfChannel
<1>6. new.Name = old.Name
      /\ Contents(new) = [members |-> old.Clients \ {k},
                          operators |-> old.Operators \ {k},
                          banned |-> old.Banned \cup {who}]
  <2>1. new.Enabled
    BY <1>3, <1>5 DEF Ban, Removed, ChatChannel
  <2> QED
    <3>1. /\ new.Name = old.Name
          /\ new.Clients = old.Clients \ {k}
          /\ new.Operators = old.Operators \ {k}
          /\ new.Banned = old.Banned \cup {who}
      BY <1>5, BanFields
    <3> QED
      BY <2>1, <3>1 DEF Contents
<1>7. channels' = [channels EXCEPT ![i] = new]
  BY <1>2 DEF who
<1> HIDE DEF new
<1>8. Contents(new) = Service!Banning(Rooms(channels)[name], k, who)
  BY <1>3, <1>5, <1>6, RoomBanning
<1>9. Rooms(channels')
        = [Rooms(channels) EXCEPT
             ![name] = Service!Banning(@, k, Identities(users)[k])]
  BY <1>3, <1>4, <1>6, <1>7, <1>8, RoomReplaced
<1>10. Service!Ban(serving, k, name)
  BY <1>3, <1>5, <1>9, Mapping DEF Service!Ban
<1> QED
  BY <1>4, <1>10 DEF Service!Next

\* Taking a client out of a channel that it is not in changes nothing.
LEMMA WithoutStranger ==
  ASSUME NEW channel \in ChatChannel, NEW c,
         c \notin channel.Clients, c \notin channel.Operators
  PROVE  WithoutClient(channel, c) = channel
<1>1. channel.Clients # {c}
  OBVIOUS
<1>2. channel.Clients \ {c} = channel.Clients
  OBVIOUS
<1>3. channel.Operators \ {c} = channel.Operators
  OBVIOUS
<1>4. Removed(channel, c) = channel
  BY <1>2, <1>3 DEF Removed, ChatChannel
<1> QED
  BY <1>1, <1>4 DEF WithoutClient


\* Disconnection is LogOut for who has identified and nothing for others.
LEMMA ServiceLogOut ==
  ASSUME ServerInv, NEW c \in clients, OnClientDisconnected(c)
  PROVE  Service!Next \/ UNCHANGED Service!vars
<1>1. /\ c \in Client
      /\ Sound(channels, clients, users)
      /\ users \in [Client -> ChatUser \cup {NoUser}]
      /\ users' = [users EXCEPT ![c] = NoUser]
      /\ channels' = [i \in DOMAIN channels |-> WithoutClient(channels[i], c)]
  BY DEF ServerInv, Sessions, SoundChannels, OnClientDisconnected,
         OnUserDisconnected, OnMemberDisconnected
<1>2. Rooms(channels')
        = [name \in ChannelName |-> Service!Without(Rooms(channels)[name], c)]
  <2>1. \A name \in ChannelName : Rooms(channels)[name] = RoomIn(channels, name)
    BY DEF Rooms
  <2> QED
    BY <1>1, <2>1, RoomsWithout
<1>3. Identities(users') = [Identities(users) EXCEPT ![c] = Nobody]
  BY <1>1 DEF Identities, IdentityIn
<1>4. CASE users[c].Identified
  <2>1. Identities(users)[c] # Nobody
    BY <1>4, Somebody
  <2>2. Service!LogOut(c)
    BY <1>2, <1>3, <2>1, Mapping DEF Service!LogOut
  <2> QED
    BY <1>1, <2>2 DEF Service!Next
<1>5. CASE ~users[c].Identified
  <2>1. Identities(users') = Identities(users)
    BY <1>1, <1>3, <1>5 DEF Identities, IdentityIn
  <2>2. ASSUME NEW name \in ChannelName
        PROVE  RoomIn(channels', name) = RoomIn(channels, name)
    <3>1. ASSUME NEW i \in Open(channels, name)
          PROVE  channels'[i] = channels[i]
      <4>1. /\ i \in DOMAIN channels
            /\ channels[i] \in ChatChannel
            /\ c \notin channels[i].Clients
            /\ c \notin channels[i].Operators
        BY <1>1, <1>5 DEF Open, Sound, SoundChannel
      <4>2. WithoutClient(channels[i], c) = channels[i]
        BY <4>1, WithoutStranger
      <4> QED
        BY <1>1, <4>1, <4>2
    <3>2. ASSUME NEW i \in Open(channels', name)
          PROVE  i \in Open(channels, name)
      <4>1. i \in DOMAIN channels /\ channels[i] \in ChatChannel
            /\ WithoutClient(channels[i], c).Enabled
            /\ WithoutClient(channels[i], c).Name = name
        BY <1>1 DEF Open, Sound, SoundChannel
      <4>2. channels[i].Enabled /\ channels[i].Name = name
        BY <4>1 DEF WithoutClient, Removed, ChatChannel
      <4> QED
        BY <4>1, <4>2 DEF Open
    <3>3. Open(channels', name) = Open(channels, name)
      BY <1>1, <3>1, <3>2 DEF Open
    <3> QED
      BY <3>1, <3>3, SameRoom
  <2>3. Rooms(channels') = Rooms(channels)
    BY <2>2 DEF Rooms
  <2> QED
    BY <2>1, <2>3, Stutter
<1> QED
  BY <1>4, <1>5

\* An accepted Identify is LogIn: all who hold a name are searched.
LEMMA ServiceLogIn ==
  ASSUME ServerInv, NamesInv, NEW c \in clients, UNCHANGED channels,
         NEW name \in Username, IdentifyAccepted(c, name)
  PROVE  Service!Next
<1> DEFINE hash == HashString[users[c].Hostname]
           id == <<name, hash>>
<1>1. /\ c \in Client
      /\ users \in [Client -> ChatUser \cup {NoUser}]
      /\ users[c] \in ChatUser
      /\ ~users[c].Identified
      /\ Holders(name) = {}
  BY DEF ServerInv, Sessions, GetChatUser, IdentifyAccepted, IdentifyResult
<1>2. users[c].Hostname \in Host
  BY <1>1 DEF ChatUser, GuestUser, IdentifiedUser
<1>3. id \in Service!Identity
  BY <1>2, HashAssumption DEF Service!Identity
<1>4. /\ \A k \in Client \ {c} : users'[k] = users[k]
      /\ users'[c] # NoUser
      /\ users'[c].Identified
      /\ UserAndHost(users'[c]) = id
  <2> DEFINE user == [[[users[c] EXCEPT !.Identified = TRUE]
                         EXCEPT !.Username = name] EXCEPT !.Hostname = hash]
  <2>1. users'[c] = user /\ \A k \in Client \ {c} : users'[k] = users[k]
    BY <1>1 DEF IdentifyAccepted
  <2>2. user \in IdentifiedUser /\ user.Identified /\ UserAndHost(user) = id
    <3>1. hash \in HashedHost
      BY <1>2, HashAssumption
    <3>2. name \notin BadUsername \cup LongUsername
      BY DEF IdentifyAccepted, IdentifyResult
    <3> HIDE DEF hash
    <3> QED
      BY <1>1, <3>1, <3>2
      DEF ChatUser, GuestUser, IdentifiedUser, UserAndHost
  <2> HIDE DEF user
  <2> QED
    BY <2>1, <2>2, NoUserAssumption DEF ChatUser
<1> HIDE DEF id
<1>5. Identities(users') = [Identities(users) EXCEPT ![c] = id]
  <2>1. IdentityIn(users', c) = id
    BY <1>4 DEF IdentityIn
  <2>2. \A k \in Client \ {c} : IdentityIn(users', k) = IdentityIn(users, k)
    BY <1>4 DEF IdentityIn
  <2> QED
    BY <2>1, <2>2 DEF Identities
<1>6. Identities(users)[c] = Nobody
  BY <1>1 DEF Identities, IdentityIn
<1>7. ASSUME NEW q \in Client, Identities(users)[q] # Nobody
      PROVE  Identities(users)[q][1] # id[1]
  <2>1. users[q] # NoUser /\ users[q].Identified
        /\ Identities(users)[q] = UserAndHost(users[q])
    BY <1>7 DEF Identities, IdentityIn
  <2>2. users[q].Username # name
    BY <1>1, <2>1 DEF Holders, NamesInv, HelloBeforeIdentify, GetChatUser
  <2> QED
    BY <2>1, <2>2 DEF UserAndHost, id
<1>8. Service!LogIn(c, id)
  BY <1>5, <1>6, <1>7, Mapping DEF Service!LogIn
<1> QED
  BY <1>1, <1>3, <1>8 DEF Service!Next

LEMMA ServiceChannelPacket ==
  ASSUME ServerInv, serving \in clients, HandleChannelPacket
  PROVE  Service!Next \/ UNCHANGED Service!vars
<1>1. UNCHANGED users
  BY DEF HandleChannelPacket
<1>2. UNCHANGED channels => UNCHANGED Service!vars
  BY <1>1, Stutter
<1>3. CASE JoinChannel(serving)
  BY <1>1, <1>2, <1>3, ServiceFound, ServiceEnter
  DEF JoinChannel, JoinRefused, Refuse
<1>4. CASE LeaveChannel(serving)
  BY <1>1, <1>2, <1>4, ServiceLeave DEF LeaveChannel, LeaveRefused, Refuse
<1>5. CASE SendChannelMessage(serving)
  BY <1>2, <1>5 DEF SendChannelMessage, MessageRefused, Refuse, ChannelMessage
<1>6. CASE KickUser(serving)
  BY <1>1, <1>2, <1>6, ServiceRemove
  DEF KickUser, KickRefused, Refuse, AbsentUserKicked
<1>7. CASE BanUser(serving)
  BY <1>1, <1>2, <1>7, ServiceBan DEF BanUser, BanRefused, Refuse
<1> QED
  BY <1>3, <1>4, <1>5, <1>6, <1>7 DEF HandleChannelPacket

LEMMA ServiceUserPacket ==
  ASSUME ServerInv, NamesInv, serving \in clients, HandleUserPacket
  PROVE  Service!Next \/ UNCHANGED Service!vars
<1>1. UNCHANGED channels
  BY DEF HandleUserPacket
<1>2. UNCHANGED users => UNCHANGED Service!vars
  BY <1>1, Stutter
<1>3. CASE Identify(serving)
  BY <1>1, <1>2, <1>3, ServiceLogIn DEF Identify, IdentifyRefused
<1>4. CASE SendUserMessage(serving)
  BY <1>2, <1>4 DEF SendUserMessage
<1> QED
  BY <1>3, <1>4 DEF HandleUserPacket

\* Neither an accepted connection nor Hello makes a client somebody.
LEMMA ServiceConnect ==
  ASSUME ServerInv, NEW c \in Client, NEW host \in Host,
         OnClientConnected(c, host)
  PROVE  UNCHANGED Service!vars
<1>1. /\ users \in [Client -> ChatUser \cup {NoUser}]
      /\ users[c] = NoUser
      /\ UNCHANGED channels
  BY DEF ServerInv, Sessions, GetChatUser, OnClientConnected
<1>2. ~users'[c].Identified /\ \A k \in Client \ {c} : users'[k] = users[k]
  BY <1>1 DEF OnClientConnected, OnUserConnected
<1>3. Identities(users') = Identities(users)
  BY <1>1, <1>2 DEF Identities, IdentityIn
<1> QED
  BY <1>1, <1>3, Stutter

LEMMA ServiceHello ==
  ASSUME ServerInv, serving \in clients, HandleHello
  PROVE  UNCHANGED Service!vars
<1>1. /\ serving \in Client
      /\ users \in [Client -> ChatUser \cup {NoUser}]
      /\ users[serving] \in ChatUser
      /\ users[serving] # NoUser
      /\ users' = [users EXCEPT ![serving] = [@ EXCEPT !.Enabled = TRUE]]
      /\ UNCHANGED channels
  BY DEF ServerInv, Sessions, GetChatUser, HandleHello, Hello
<1>2. /\ \A k \in Client \ {serving} : users'[k] = users[k]
      /\ users'[serving] = [users[serving] EXCEPT !.Enabled = TRUE]
  BY <1>1
<1>3. /\ users'[serving] \in ChatUser
      /\ users'[serving].Identified = users[serving].Identified
      /\ UserAndHost(users'[serving]) = UserAndHost(users[serving])
  BY <1>1, <1>2 DEF ChatUser, GuestUser, IdentifiedUser, UserAndHost
<1>4. \A k \in Client : IdentityIn(users', k) = IdentityIn(users, k)
  BY <1>1, <1>2, <1>3, NoUserAssumption DEF IdentityIn
<1>5. Identities(users') = Identities(users)
  BY <1>4 DEF Identities
<1> QED
  BY <1>1, <1>5, Stutter

LEMMA ServiceStep ==
  ASSUME ServerInv, NamesInv, [Next]_vars
  PROVE  [Service!Next]_Service!vars
<1>1. Serving => serving \in clients
  BY NothingAssumption DEF Serving, ServerInv, Sessions
<1>2. CASE HandleHello
  BY <1>1, <1>2, ServiceHello DEF HandleHello, Handled
<1>3. CASE HandleUserPacket
  BY <1>1, <1>3, ServiceUserPacket DEF HandleUserPacket, Handled
<1>4. CASE HandleChannelPacket
  BY <1>1, <1>4, ServiceChannelPacket DEF HandleChannelPacket, Handled
<1>5. CASE \E c \in Client, host \in Host : OnClientConnected(c, host)
  BY <1>5, ServiceConnect
<1>6. CASE \/ \E c \in Client : CloseConnection(c)
           \/ MalformedPacket \/ NothingHandled
  <2>1. \E c \in clients : OnClientDisconnected(c)
    BY <1>1, <1>6 DEF CloseConnection, MalformedPacket, NothingHandled
  <2> QED
    BY <2>1, ServiceLogOut
<1>7. CASE \/ \E c \in Client : ReceiveChunk(c)
           \/ IgnoredPacket \/ EndOfChunk \/ UNCHANGED vars
  <2>1. UNCHANGED <<users, channels>>
    BY <1>7 DEF ReceiveChunk, IgnoredPacket, EndOfChunk, vars
  <2> QED
    BY <2>1, Stutter
<1> QED
  BY <1>2, <1>3, <1>4, <1>5, <1>6, <1>7 DEF Next

LEMMA ServiceInit ==
  ASSUME Init
  PROVE  Service!Init
<1>1. Identities(users) = [c \in Client |-> Nobody]
  BY DEF Init, Identities, IdentityIn
<1>2. \A name \in ChannelName : RoomIn(channels, name) = NoRoom
  BY DEF Init, RoomIn, Open
<1>3. Rooms(channels) = [name \in ChannelName |-> Service!Closed]
  BY <1>2 DEF Rooms, NoRoom, Service!Closed
<1> QED
  BY <1>1, <1>3, Mapping DEF Service!Init

\* Of peers that say Hello first, the server is a chat service: whatever it
\* does, crashes included, the service may do, and nothing else.
THEOREM Implementation ==
  ASSUME HelloFirst
  PROVE  Spec => ServesChat
<1>1. Init => Service!Init
  BY ServiceInit
<1>2. (ServerInv /\ NamesInv) /\ [Next]_vars => [Service!Next]_Service!vars
  BY ServiceStep
<1> QED
  BY <1>1, <1>2, NamesInvariant, PTL DEF Spec, ServesChat, Service!Spec
=============================================================================
