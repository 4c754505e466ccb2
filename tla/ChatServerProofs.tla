-------------------------- MODULE ChatServerProofs --------------------------
(***************************************************************************)
(* Theorems about ChatServer, for every value of its constants.            *)
(***************************************************************************)
EXTENDS ChatServer, TLAPS, SequenceTheorems

(***************************************************************************)
(* The vector of channels.  A channel is sound for the connected clients   *)
(* and their users; a vector is sound if its channels are and no two       *)
(* enabled ones share a name.                                              *)
(***************************************************************************)
SoundChannel(channel, cls, us) ==
  /\ channel \in ChatChannel
  /\ channel.Enabled <=> channel.Clients # {}
  /\ channel.Operators \subseteq channel.Clients
  /\ channel.Clients \subseteq cls
  /\ \A k \in channel.Clients : us[k].Identified

Sound(chs, cls, us) ==
  /\ chs \in Seq(ChatChannel)
  /\ \A i \in DOMAIN chs : SoundChannel(chs[i], cls, us)
  /\ \A i, j \in DOMAIN chs :
       chs[i].Enabled /\ chs[j].Enabled /\ chs[i].Name = chs[j].Name => i = j

\* A channel may be replaced by a sound one of the same name that is not
\* enabled unless it was.
LEMMA SoundUpdate ==
  ASSUME NEW cls, NEW us, NEW chs, Sound(chs, cls, us),
         NEW i \in 1..Len(chs), NEW channel, SoundChannel(channel, cls, us),
         channel.Name = chs[i].Name, channel.Enabled => chs[i].Enabled,
         NEW new \in Seq(ChatChannel), Len(new) = Len(chs),
         new[i] = channel, \A j \in 1..Len(chs) : j # i => new[j] = chs[j]
  PROVE  Sound(new, cls, us)
<1>1. chs \in Seq(ChatChannel)
  BY DEF Sound
<1>2. DOMAIN chs = 1..Len(chs) /\ DOMAIN new = DOMAIN chs
  BY <1>1, LenProperties
<1>3. \A j \in DOMAIN new : SoundChannel(new[j], cls, us)
  BY <1>2 DEF Sound
<1>4. \A j \in DOMAIN new : /\ new[j].Name = chs[j].Name
                            /\ new[j].Enabled => chs[j].Enabled
  BY <1>2
<1>5. \A j, k \in DOMAIN new :
        new[j].Enabled /\ new[k].Enabled /\ new[j].Name = new[k].Name => j = k
  BY <1>2, <1>4 DEF Sound
<1> QED
  BY <1>3, <1>5 DEF Sound

\* A channel may be added under a name that no enabled channel has.
LEMMA SoundAppend ==
  ASSUME NEW cls, NEW us, NEW chs, Sound(chs, cls, us),
         NEW channel, SoundChannel(channel, cls, us),
         \A i \in DOMAIN chs : chs[i].Enabled => chs[i].Name # channel.Name
  PROVE  /\ Sound(Append(chs, channel), cls, us)
         /\ Len(Append(chs, channel)) = Len(chs) + 1
<1> DEFINE new == Append(chs, channel)
<1>1. chs \in Seq(ChatChannel) /\ channel \in ChatChannel
  BY DEF Sound, SoundChannel
<1>2. /\ DOMAIN chs = 1..Len(chs)
      /\ Len(chs) \in Nat
  BY <1>1, LenProperties
<1>3. /\ new \in Seq(ChatChannel)
      /\ Len(new) = Len(chs) + 1
      /\ \A j \in 1..Len(chs) : new[j] = chs[j]
      /\ new[Len(chs) + 1] = channel
  BY <1>1, AppendProperties
<1>4. DOMAIN new = 1..(Len(chs) + 1)
  BY <1>3, LenProperties
<1> HIDE DEF new
<1>5. \A j \in DOMAIN new : SoundChannel(new[j], cls, us)
  BY <1>2, <1>3, <1>4 DEF Sound
<1>6. \A j, k \in DOMAIN new :
        new[j].Enabled /\ new[k].Enabled /\ new[j].Name = new[k].Name => j = k
  BY <1>2, <1>3, <1>4 DEF Sound
<1>7. Sound(new, cls, us)
  BY <1>3, <1>5, <1>6 DEF Sound
<1> QED
  BY <1>3, <1>7 DEF new

\* Soundness only looks at the members' users and at who is connected.
LEMMA SoundFrame ==
  ASSUME NEW cls, NEW us, NEW cls2, NEW us2, NEW chs, Sound(chs, cls, us),
         cls \subseteq cls2,
         \A k \in cls : us[k].Identified => us2[k].Identified
  PROVE  Sound(chs, cls2, us2)
<1>1. \A i \in DOMAIN chs : SoundChannel(chs[i], cls2, us2)
  BY DEF Sound, SoundChannel
<1> QED
  BY <1>1 DEF Sound

\* What a channel becomes when a client goes is sound without that client.
LEMMA WithoutClientSound ==
  ASSUME NEW cls, NEW us, NEW channel, SoundChannel(channel, cls, us),
         NEW us2, NEW c, \A k \in cls \ {c} : us2[k] = us[k]
  PROVE  /\ SoundChannel(WithoutClient(channel, c), cls \ {c}, us2)
         /\ WithoutClient(channel, c).Name = channel.Name
         /\ WithoutClient(channel, c).Enabled => channel.Enabled
<1>1. CASE ~channel.Enabled
  <2>1. channel.Clients = {} /\ channel.Operators = {}
    BY <1>1 DEF SoundChannel
  <2> QED
    BY <1>1, <2>1 DEF SoundChannel, WithoutClient
<1>2. CASE channel.Enabled /\ channel.Clients = {c}
  BY <1>2 DEF SoundChannel, WithoutClient, ChatChannel
<1>3. CASE channel.Enabled /\ channel.Clients # {c}
  BY <1>3 DEF SoundChannel, WithoutClient, Removed, ChatChannel
<1> QED
  BY <1>1, <1>2, <1>3 DEF SoundChannel, ChatChannel

LEMMA SoundWithout ==
  ASSUME NEW cls, NEW us, NEW us2, NEW chs, Sound(chs, cls, us), NEW c,
         \A k \in cls \ {c} : us2[k] = us[k]
  PROVE  LET new == [i \in DOMAIN chs |-> WithoutClient(chs[i], c)] IN
         /\ Sound(new, cls \ {c}, us2)
         /\ Len(new) = Len(chs)
<1> DEFINE new == [i \in DOMAIN chs |-> WithoutClient(chs[i], c)]
<1>1. \A i \in DOMAIN chs :
        /\ SoundChannel(new[i], cls \ {c}, us2)
        /\ new[i].Name = chs[i].Name
        /\ new[i].Enabled => chs[i].Enabled
  <2> SUFFICES ASSUME NEW i \in DOMAIN chs
               PROVE  /\ SoundChannel(new[i], cls \ {c}, us2)
                      /\ new[i].Name = chs[i].Name
                      /\ new[i].Enabled => chs[i].Enabled
    OBVIOUS
  <2>1. SoundChannel(chs[i], cls, us)
    BY DEF Sound
  <2>2. new[i] = WithoutClient(chs[i], c)
    OBVIOUS
  <2> QED
    BY <2>1, <2>2, WithoutClientSound
<1>2. DOMAIN new = DOMAIN chs
  OBVIOUS
<1>3. DOMAIN chs = 1..Len(chs) /\ Len(chs) \in Nat
  BY LenProperties DEF Sound
<1>4. \A i \in 1..Len(chs) : new[i] \in ChatChannel
  BY <1>1, <1>3 DEF SoundChannel
<1>5. new \in Seq(ChatChannel) /\ Len(new) = Len(chs)
  <2>1. new \in [1..Len(chs) -> ChatChannel]
    BY <1>2, <1>3, <1>4
  <2> HIDE DEF new
  <2> QED
    BY <1>3, <2>1
<1> HIDE DEF new
<1>6. \A j, k \in DOMAIN new :
        new[j].Enabled /\ new[k].Enabled /\ new[j].Name = new[k].Name => j = k
  BY <1>1, <1>2 DEF Sound
<1>7. Sound(new, cls \ {c}, us2)
  BY <1>1, <1>2, <1>5, <1>6 DEF Sound
<1> QED
  BY <1>5, <1>7 DEF new
-----------------------------------------------------------------------------
(***************************************************************************)
(* The inductive invariant: the users are those of the connected clients,  *)
(* the channels are sound for them, and the packets are well formed.       *)
(***************************************************************************)
Sessions ==
  /\ clients \subseteq Client
  /\ users \in [Client -> ChatUser \cup {NoUser}]
  /\ \A c \in Client : GetChatUser(c) <=> c \in clients
  /\ serving \in clients \cup {NoClient}
  /\ crashed \in BOOLEAN
  /\ handled \in BOOLEAN

SoundChannels ==
  /\ Sound(channels, clients, users)
  /\ Len(channels) <= MaxChannels

ServerInv == Sessions /\ SoundChannels /\ out \subseteq Packet

LEMMA ServerInvImplies ==
  ServerInv => TypeOK /\ NoDanglingClient /\ ChannelLifecycle
<1> SUFFICES ASSUME ServerInv PROVE TypeOK /\ NoDanglingClient /\ ChannelLifecycle
  OBVIOUS
<1>1. TypeOK
  BY DEF ServerInv, Sessions, SoundChannels, Sound, TypeOK
<1>2. NoDanglingClient
  BY DEF ServerInv, Sessions, SoundChannels, Sound, SoundChannel, NoDanglingClient
<1>3. ChannelLifecycle
  BY DEF ServerInv, SoundChannels, Sound, SoundChannel, ChannelLifecycle
<1> QED
  BY <1>1, <1>2, <1>3

(***************************************************************************)
(* The packets.                                                            *)
(***************************************************************************)
LEMMA ChannelPacketType ==
  ASSUME NEW to \in Client, NEW type \in PacketType, NEW result \in Result,
         NEW name \in ChannelName, NEW who \in SUBSET HostInfo
  PROVE  ChannelPacket(to, type, result, name, who) \in Packet
  BY DEF ChannelPacket, Packet

LEMMA UserPacketType ==
  ASSUME NEW to \in Client, NEW type \in PacketType, NEW result \in Result,
         NEW who \in SUBSET HostInfo
  PROVE  UserPacket(to, type, result, who) \in Packet
  BY DEF UserPacket, Packet

LEMMA SystemPacketType ==
  ASSUME NEW to \in Client, NEW type \in PacketType, NEW result \in Result
  PROVE  SystemPacket(to, type, result) \in Packet
  BY DEF SystemPacket, Packet

LEMMA SendType ==
  ASSUME NEW packets, packets \subseteq Packet, Send(packets)
  PROVE  out' \subseteq Packet
  BY DEF Send

\* An identified user is described by a HostInfo.
LEMMA IdentifiedType ==
  ASSUME Sessions, NEW c \in clients, users[c].Identified
  PROVE  /\ users[c] \in IdentifiedUser
         /\ UserAndHost(users[c]) \in HostInfo
<1>1. users[c] \in ChatUser
  BY DEF Sessions, GetChatUser
<1>2. users[c] \in IdentifiedUser
  BY <1>1 DEF ChatUser, GuestUser, IdentifiedUser
<1> QED
  BY <1>2 DEF IdentifiedUser, UserAndHost, HostInfo

LEMMA NotifyType ==
  ASSUME ServerInv, NEW i \in DOMAIN channels, NEW sender,
         NEW type \in PacketType, NEW result \in Result, NEW who \in HostInfo
  PROVE  Notify(i, sender, type, result, who) \subseteq Packet
<1>1. channels[i].Name \in ChannelName
  BY DEF ServerInv, SoundChannels, Sound, SoundChannel, ChatChannel
<1>2. \A k \in Audience(i, sender) : k \in Client
  BY DEF ServerInv, Sessions, SoundChannels, Sound, SoundChannel, Audience
<1>3. \A k \in Audience(i, sender) :
        ChannelPacket(k, type, result, channels[i].Name, {who}) \in Packet
  BY <1>1, <1>2, ChannelPacketType
<1> QED
  BY <1>3 DEF Notify

\* The members of a channel of the vector are connected and identified.
LEMMA MemberType ==
  ASSUME ServerInv, NEW i \in DOMAIN channels, NEW k \in channels[i].Clients
  PROVE  /\ k \in clients /\ k \in Client
         /\ users[k] \in IdentifiedUser
         /\ UserAndHost(users[k]) \in HostInfo
<1>1. k \in clients /\ users[k].Identified
  BY DEF ServerInv, SoundChannels, Sound, SoundChannel
<1> QED
  BY <1>1, IdentifiedType DEF ServerInv, Sessions

\* The lookup by name finds an enabled channel or there is none.
LEMMA FindsChannel ==
  ASSUME ServerInv, NEW name, NEW i \in 0..Len(channels), Finds(name, i)
  PROVE  /\ i # 0 => /\ i \in DOMAIN channels
                     /\ channels[i].Enabled
                     /\ channels[i].Name = name
         /\ i = 0 => \A j \in DOMAIN channels :
                       channels[j].Enabled => channels[j].Name # name
<1>1. DOMAIN channels = 1..Len(channels) /\ Len(channels) \in Nat
  BY LenProperties DEF ServerInv, SoundChannels, Sound
<1>2. CASE Matching(name) = {}
  BY <1>1, <1>2 DEF Finds, Matching
<1>3. CASE Matching(name) # {}
  BY <1>1, <1>3 DEF Finds, Matching
<1> QED
  BY <1>2, <1>3
-----------------------------------------------------------------------------
(***************************************************************************)
(* The requests of a connected client to the ChannelComponent.             *)
(***************************************************************************)
Outcome == SoundChannels' /\ out' \subseteq Packet /\ crashed' \in BOOLEAN

LEMMA RefuseStep ==
  ASSUME ServerInv, NEW c \in clients, UNCHANGED <<clients, users>>,
         NEW type \in PacketType, NEW result \in Result,
         NEW name \in ChannelName, Refuse(c, type, result, name)
  PROVE  Outcome
<1>1. Answer(c, type, result, name) \in Packet
  BY ChannelPacketType DEF Answer, ServerInv, Sessions
<1>2. out' \subseteq Packet
  BY <1>1, SendType DEF Refuse
<1> QED
  BY <1>2 DEF Outcome, Refuse, ServerInv, Sessions, SoundChannels

\* A member's request replaces channel i, under its name, by a sound channel
\* that is enabled only if it was.
LEMMA ReplaceStep ==
  ASSUME ServerInv, UNCHANGED <<clients, users>>,
         NEW i \in DOMAIN channels, NEW channel,
         SoundChannel(channel, clients, users),
         channel.Name = channels[i].Name,
         channel.Enabled => channels[i].Enabled,
         channels' = [channels EXCEPT ![i] = channel]
  PROVE  SoundChannels'
<1>1. Sound(channels, clients, users) /\ Len(channels) <= MaxChannels
  BY DEF ServerInv, SoundChannels
<1>2. channels \in Seq(ChatChannel) /\ channel \in ChatChannel
  BY <1>1 DEF Sound, SoundChannel
<1>3. i \in 1..Len(channels)
  BY <1>2, LenProperties
<1>4. /\ channels' \in Seq(ChatChannel)
      /\ Len(channels') = Len(channels)
      /\ channels'[i] = channel
      /\ \A j \in 1..Len(channels) : j # i => channels'[j] = channels[j]
  BY <1>2, <1>3, ExceptSeq
<1>5. Sound(channels', clients, users)
  BY <1>1, <1>3, <1>4, SoundUpdate
<1> QED
  BY <1>1, <1>4, <1>5 DEF SoundChannels

LEMMA JoinStep ==
  ASSUME ServerInv, NEW c \in clients, UNCHANGED <<clients, users>>,
         JoinChannel(c)
  PROVE  Outcome
<1> PICK name \in ChannelName, i \in 0..Len(channels) :
      /\ Finds(name, i)
      /\ \/ JoinRefused(c, name, i)
         \/ ChannelCreated(c, name, i)
         \/ ChannelJoined(c, name, i)
  BY DEF JoinChannel
<1> c \in Client
  BY DEF ServerInv, Sessions
<1>1. CASE JoinRefused(c, name, i)
  <2>1. JoinResult(c, name, i) \in Result
    BY DEF JoinResult, Result
  <2>2. CASE JoinResult(c, name, i) = "ChannelNameTooLong"
    <3>1. UserPacket(c, "Identify_Complete", JoinResult(c, name, i), {})
            \in Packet
      BY <2>1, UserPacketType DEF PacketType, Result
    <3>2. out' \subseteq Packet
      BY <1>1, <2>2, <3>1, SendType DEF JoinRefused
    <3> QED
      BY <1>1, <2>2, <3>2
      DEF JoinRefused, Outcome, ServerInv, Sessions, SoundChannels
  <2>3. CASE JoinResult(c, name, i) # "ChannelNameTooLong"
    <3>1. Refuse(c, "JoinChannel_Complete", JoinResult(c, name, i), name)
      BY <1>1, <2>3 DEF JoinRefused
    <3> QED
      BY <2>1, <3>1, RefuseStep DEF PacketType, Result
  <2> QED
    BY <2>2, <2>3
<1>2. CASE ChannelCreated(c, name, i)
  <2> DEFINE channel == [Enabled |-> TRUE, Name |-> name, Clients |-> {c},
                         Operators |-> {c}, Banned |-> {}]
  <2>1. users[c].Identified /\ i = 0
    BY <1>2 DEF ChannelCreated, JoinResult
  <2>2. SoundChannel(channel, clients, users)
    BY <2>1 DEF SoundChannel, ChatChannel
  <2>3. \A j \in DOMAIN channels :
          channels[j].Enabled => channels[j].Name # channel.Name
    BY <2>1, FindsChannel
  <2>4. channels' = Append(channels, channel) /\ Len(channels) < MaxChannels
    BY <1>2 DEF ChannelCreated
  <2>5. Sound(channels', clients, users) /\ Len(channels') = Len(channels) + 1
    <3> HIDE DEF channel
    <3> QED
      BY <2>2, <2>3, <2>4, SoundAppend DEF ServerInv, SoundChannels
  <2>6. SoundChannels'
    <3>1. Len(channels) \in Nat
      BY LenProperties DEF ServerInv, SoundChannels, Sound
    <3> QED
      BY <2>4, <2>5, <3>1, MaxChannelsAssumption DEF SoundChannels
  <2>7. out' \subseteq Packet
    <3>1. Answer(c, "JoinChannel_Complete", "ChannelCreated", name) \in Packet
      BY ChannelPacketType DEF Answer, PacketType, Result
    <3> QED
      BY <1>2, <3>1, SendType DEF ChannelCreated
  <2> QED
    BY <1>2, <2>6, <2>7 DEF ChannelCreated, Outcome, ServerInv, Sessions
<1>3. CASE ChannelJoined(c, name, i)
  <2> DEFINE channel == Joined(channels[i], c)
             others(keys) == {UserAndHost(users[k]) :
                                k \in Audience(i, c) \cap keys}
             welcome == [Answer(c, "JoinChannel_Complete", "Ok", name) EXCEPT
                           !.who = others(Client),
                           !.ops = others(channels[i].Operators),
                           !.bans = channels[i].Banned]
  <2>1. users[c].Identified /\ i # 0
    BY <1>3 DEF ChannelJoined, JoinResult
  <2>2. /\ i \in DOMAIN channels
        /\ channels[i].Enabled
        /\ channels[i].Name = name
    BY <2>1, FindsChannel
  <2>3. SoundChannel(channels[i], clients, users)
    BY <2>2 DEF ServerInv, SoundChannels, Sound
  <2>4. /\ SoundChannel(channel, clients, users)
        /\ channel.Name = channels[i].Name
        /\ channel.Enabled => channels[i].Enabled
    BY <2>1, <2>2, <2>3 DEF SoundChannel, ChatChannel, Joined
  <2>5. channels' = [channels EXCEPT ![i] = channel]
    BY <1>3 DEF ChannelJoined
  <2>7. SoundChannels'
    <3> HIDE DEF channel
    <3> QED
      BY <2>2, <2>4, <2>5, ReplaceStep
  <2>8. \A keys : others(keys) \in SUBSET HostInfo
    BY <2>2, MemberType DEF Audience
  <2>9. welcome \in Packet
    <3>1. Answer(c, "JoinChannel_Complete", "Ok", name) \in Packet
      BY ChannelPacketType DEF Answer, PacketType, Result
    <3>2. others(Client) \in SUBSET HostInfo
          /\ others(channels[i].Operators) \in SUBSET HostInfo
      BY <2>8
    <3>3. channels[i].Banned \in SUBSET HostInfo
      BY <2>3 DEF SoundChannel, ChatChannel
    <3> HIDE DEF others
    <3> QED
      BY <3>1, <3>2, <3>3 DEF Packet
  <2>10. Notify(i, c, "JoinChannel", "UserJoined", UserAndHost(users[c]))
           \subseteq Packet
    <3>1. UserAndHost(users[c]) \in HostInfo
      BY <2>1, IdentifiedType DEF ServerInv
    <3>2. "JoinChannel" \in PacketType /\ "UserJoined" \in Result
      BY DEF PacketType, Result
    <3> QED
      BY <2>2, <3>1, <3>2, NotifyType
  <2>11. out' \subseteq Packet
    <3>1. Send({welcome} \cup Notify(i, c, "JoinChannel", "UserJoined",
                                     UserAndHost(users[c])))
      BY <1>3 DEF ChannelJoined
    <3> HIDE DEF welcome
    <3> QED
      BY <2>9, <2>10, <3>1, SendType
  <2> QED
    BY <1>3, <2>7, <2>11 DEF ChannelJoined, Outcome, ServerInv, Sessions
<1> QED
  BY <1>1, <1>2, <1>3

\* What the checks on a member's request establish.
LEMMA MemberRequest ==
  ASSUME ServerInv, NEW c \in clients, NEW name, NEW i \in 0..Len(channels),
         Finds(name, i), MemberResult(c, name, i) = "Ok"
  PROVE  /\ i \in DOMAIN channels
         /\ channels[i].Enabled
         /\ c \in channels[i].Clients
         /\ SoundChannel(channels[i], clients, users)
         /\ UserAndHost(users[c]) \in HostInfo
<1>1. i # 0 /\ c \in channels[i].Clients /\ users[c].Identified
  BY DEF MemberResult
<1>2. i \in DOMAIN channels /\ channels[i].Enabled
  BY <1>1, FindsChannel
<1>3. SoundChannel(channels[i], clients, users)
  BY <1>2 DEF ServerInv, SoundChannels, Sound
<1>4. UserAndHost(users[c]) \in HostInfo
  BY <1>1, IdentifiedType DEF ServerInv
<1> QED
  BY <1>1, <1>2, <1>3, <1>4

LEMMA LeaveStep ==
  ASSUME ServerInv, NEW c \in clients, UNCHANGED <<clients, users>>,
         LeaveChannel(c)
  PROVE  Outcome
<1> PICK name \in ChannelName, i \in 0..Len(channels) :
      /\ Finds(name, i)
      /\ LeaveRefused(c, name, i) \/ ChannelLeft(c, name, i)
  BY DEF LeaveChannel
<1> c \in Client
  BY DEF ServerInv, Sessions
<1>1. CASE LeaveRefused(c, name, i)
  <2>1. MemberResult(c, name, i) \in Result
    BY DEF MemberResult, Result
  <2>2. Refuse(c, "LeaveChannel_Complete", MemberResult(c, name, i), name)
    BY <1>1 DEF LeaveRefused
  <2> QED
    BY <2>1, <2>2, RefuseStep DEF PacketType
<1>2. CASE ChannelLeft(c, name, i)
  <2> DEFINE channel == Left(channels[i], c)
  <2>1. /\ i \in DOMAIN channels
        /\ channels[i].Enabled
        /\ c \in channels[i].Clients
        /\ SoundChannel(channels[i], clients, users)
        /\ UserAndHost(users[c]) \in HostInfo
    BY <1>2, MemberRequest DEF ChannelLeft
  <2>2. /\ SoundChannel(channel, clients, users)
        /\ channel.Name = channels[i].Name
        /\ channel.Enabled => channels[i].Enabled
    BY <2>1 DEF SoundChannel, ChatChannel, Left, Removed
  <2>3. channels' = [channels EXCEPT ![i] = channel]
    BY <1>2 DEF ChannelLeft
  <2>4. SoundChannels'
    <3> HIDE DEF channel
    <3> QED
      BY <2>1, <2>2, <2>3, ReplaceStep
  <2>5. out' \subseteq Packet
    <3>1. Answer(c, "LeaveChannel_Complete", "Ok", name) \in Packet
      BY ChannelPacketType DEF Answer, PacketType, Result
    <3>2. "LeaveChannel" \in PacketType /\ "UserLeft" \in Result
      BY DEF PacketType, Result
    <3>3. Notify(i, c, "LeaveChannel", "UserLeft", UserAndHost(users[c]))
            \subseteq Packet
      BY <2>1, <3>2, NotifyType
    <3> QED
      BY <1>2, <3>1, <3>3, SendType DEF ChannelLeft
  <2> QED
    BY <1>2, <2>4, <2>5 DEF ChannelLeft, Outcome, ServerInv, Sessions
<1> QED
  BY <1>1, <1>2

LEMMA MessageStep ==
  ASSUME ServerInv, NEW c \in clients, UNCHANGED <<clients, users>>,
         SendChannelMessage(c)
  PROVE  Outcome
<1> PICK name \in ChannelName, i \in 0..Len(channels), text \in Text :
      /\ Finds(name, i)
      /\ MessageRefused(c, name, i, text) \/ ChannelMessage(c, name, i, text)
  BY DEF SendChannelMessage
<1> c \in Client
  BY DEF ServerInv, Sessions
<1>1. CASE MessageRefused(c, name, i, text)
  <2>1. MessageResult(c, name, i, text) \in Result
    BY DEF MessageResult, MemberResult, Result
  <2>2. Refuse(c, "SendMessage_Complete", MessageResult(c, name, i, text), name)
    BY <1>1 DEF MessageRefused
  <2> QED
    BY <2>1, <2>2, RefuseStep DEF PacketType
<1>2. CASE ChannelMessage(c, name, i, text)
  <2>1. MemberResult(c, name, i) = "Ok"
    BY <1>2 DEF ChannelMessage, MessageResult
  <2>2. i \in DOMAIN channels /\ UserAndHost(users[c]) \in HostInfo
    BY <2>1, MemberRequest
  <2>3. Answer(c, "SendMessage_Complete", "Ok", name) \in Packet
    BY ChannelPacketType DEF Answer, PacketType, Result
  <2>4. "SendMessage" \in PacketType /\ "MessageSent" \in Result
    BY DEF PacketType, Result
  <2>5. Notify(i, c, "SendMessage", "MessageSent", UserAndHost(users[c]))
          \subseteq Packet
    BY <2>2, <2>4, NotifyType
  <2>6. out' \subseteq Packet
    BY <1>2, <2>3, <2>5, SendType DEF ChannelMessage
  <2> QED
    BY <1>2, <2>6 DEF ChannelMessage, Outcome, ServerInv, Sessions, SoundChannels
<1> QED
  BY <1>1, <1>2

(***************************************************************************)
(* KickUser and BanUser remove a member other than the operator.           *)
(***************************************************************************)
LEMMA OperatorRequest ==
  ASSUME ServerInv, NEW c \in clients, NEW name, NEW i \in 0..Len(channels),
         NEW target, NEW self, self # "Ok", Finds(name, i),
         OperatorResult(c, name, i, target, self) = "Ok"
  PROVE  /\ i \in DOMAIN channels
         /\ channels[i].Enabled
         /\ c \in channels[i].Clients
         /\ \A k \in Named(i, target) :
              /\ k # c
              /\ k \in channels[i].Clients
              /\ UserAndHost(users[k]) \in HostInfo
         /\ SoundChannel(channels[i], clients, users)
<1>1. MemberResult(c, name, i) = "Ok" /\ target # users[c].Username
  BY DEF OperatorResult
<1>2. /\ i \in DOMAIN channels
      /\ channels[i].Enabled
      /\ c \in channels[i].Clients
      /\ SoundChannel(channels[i], clients, users)
  BY <1>1, MemberRequest
<1>3. \A k \in Named(i, target) : k # c /\ k \in channels[i].Clients
  BY <1>1 DEF Named
<1>4. \A k \in Named(i, target) : UserAndHost(users[k]) \in HostInfo
  BY <1>2, <1>3, MemberType
<1> QED
  BY <1>2, <1>3, <1>4

LEMMA OperatorResultType ==
  ASSUME NEW c, NEW name, NEW i, NEW target,
         NEW self \in {"CannotKickSelf", "CannotBanSelf"}
  PROVE  OperatorResult(c, name, i, target, self) \in Result
  BY DEF OperatorResult, MemberResult, Result

\* The channel without a member that is not its last is sound.
LEMMA RemovedSound ==
  ASSUME NEW cls, NEW us, NEW channel, SoundChannel(channel, cls, us),
         NEW c \in channel.Clients, NEW k, k # c
  PROVE  /\ SoundChannel(Removed(channel, k), cls, us)
         /\ Removed(channel, k).Name = channel.Name
         /\ Removed(channel, k).Enabled = channel.Enabled
  BY DEF SoundChannel, ChatChannel, Removed

LEMMA BanSound ==
  ASSUME NEW cls, NEW us, NEW channel, SoundChannel(channel, cls, us),
         NEW c \in channel.Clients, NEW k, k # c, NEW who \in HostInfo
  PROVE  /\ SoundChannel(Ban(channel, k, who), cls, us)
         /\ Ban(channel, k, who).Name = channel.Name
         /\ Ban(channel, k, who).Enabled = channel.Enabled
<1>1. /\ SoundChannel(Removed(channel, k), cls, us)
      /\ Removed(channel, k).Name = channel.Name
      /\ Removed(channel, k).Enabled = channel.Enabled
  BY RemovedSound
<1> QED
  BY <1>1 DEF SoundChannel, ChatChannel, Ban

LEMMA KickStep ==
  ASSUME ServerInv, NEW c \in clients, UNCHANGED <<clients, users>>,
         KickUser(c)
  PROVE  Outcome
<1> PICK name \in ChannelName, i \in 0..Len(channels), target \in Username :
      /\ Finds(name, i)
      /\ \/ KickRefused(c, name, i, target)
         \/ UserKicked(c, name, i, target)
         \/ AbsentUserKicked(c, name, i, target)
  BY DEF KickUser
<1> c \in Client
  BY DEF ServerInv, Sessions
<1>1. CASE KickRefused(c, name, i, target)
  <2>1. KickResult(c, name, i, target) \in Result
    BY OperatorResultType DEF KickResult
  <2>2. Refuse(c, "KickUser_Complete", KickResult(c, name, i, target), name)
    BY <1>1 DEF KickRefused
  <2> QED
    BY <2>1, <2>2, RefuseStep DEF PacketType
<1>2. CASE UserKicked(c, name, i, target)
  <2> DEFINE reply(k) == [Answer(c, "KickUser_Complete", "Ok", name) EXCEPT
                            !.who = {UserAndHost(users[k])}]
             notices(k) == Notify(i, c, "KickUser", "UserKicked",
                                  UserAndHost(users[k]))
  <2>1. /\ OperatorResult(c, name, i, target, "CannotKickSelf") = "Ok"
        /\ crashed' = crashed
    BY <1>2 DEF UserKicked, KickResult
  <2>2. PICK k \in Named(i, target) :
          /\ Send({reply(k)} \cup notices(k))
          /\ channels' = [channels EXCEPT ![i] = Removed(channels[i], k)]
    BY <1>2 DEF UserKicked
  <2>3. /\ i \in DOMAIN channels
        /\ c \in channels[i].Clients
        /\ k # c
        /\ UserAndHost(users[k]) \in HostInfo
        /\ SoundChannel(channels[i], clients, users)
    BY <2>1, OperatorRequest
  <2>4. /\ SoundChannel(Removed(channels[i], k), clients, users)
        /\ Removed(channels[i], k).Name = channels[i].Name
        /\ Removed(channels[i], k).Enabled => channels[i].Enabled
    BY <2>3, RemovedSound
  <2>5. SoundChannels'
    BY <2>2, <2>3, <2>4, ReplaceStep
  <2>6. out' \subseteq Packet
    <3>1. Answer(c, "KickUser_Complete", "Ok", name) \in Packet
      BY ChannelPacketType DEF Answer, PacketType, Result
    <3>2. reply(k) \in Packet
      BY <2>3, <3>1 DEF Packet
    <3>3. "KickUser" \in PacketType /\ "UserKicked" \in Result
      BY DEF PacketType, Result
    <3>4. notices(k) \subseteq Packet
      BY <2>3, <3>3, NotifyType
    <3> HIDE DEF reply, notices
    <3> QED
      BY <2>2, <3>2, <3>4, SendType
  <2> QED
    BY <2>1, <2>5, <2>6 DEF Outcome, ServerInv, Sessions
<1>3. CASE AbsentUserKicked(c, name, i, target)
  BY <1>3
  DEF AbsentUserKicked, Silent, Outcome, ServerInv, SoundChannels
<1> QED
  BY <1>1, <1>2, <1>3

LEMMA BanStep ==
  ASSUME ServerInv, NEW c \in clients, UNCHANGED <<clients, users>>,
         BanUser(c)
  PROVE  Outcome
<1> PICK name \in ChannelName, i \in 0..Len(channels), target \in Username :
      /\ Finds(name, i)
      /\ BanRefused(c, name, i, target) \/ UserBanned(c, name, i, target)
  BY DEF BanUser
<1> c \in Client
  BY DEF ServerInv, Sessions
<1>1. CASE BanRefused(c, name, i, target)
  <2>1. OperatorResult(c, name, i, target, "CannotBanSelf") \in Result
    BY OperatorResultType
  <2>2. BanResult(c, name, i, target) \in Result
    BY <2>1 DEF BanResult, Result
  <2>3. Refuse(c, "BanUser_Complete", BanResult(c, name, i, target), name)
    BY <1>1 DEF BanRefused
  <2> QED
    BY <2>2, <2>3, RefuseStep DEF PacketType
<1>2. CASE UserBanned(c, name, i, target)
  <2> DEFINE reply(who) == [Answer(c, "BanUser_Complete", "Ok", name) EXCEPT
                              !.who = {who}]
             notices(who) == Notify(i, c, "BanUser", "UserBanned", who)
  <2>1. /\ OperatorResult(c, name, i, target, "CannotBanSelf") = "Ok"
        /\ crashed' = crashed
    BY <1>2 DEF UserBanned, BanResult
  <2>2. PICK k, who :
          /\ k \in Named(i, target) /\ who = UserAndHost(users[k])
          /\ Send({reply(who)} \cup notices(who))
          /\ channels' = [channels EXCEPT ![i] = Ban(channels[i], k, who)]
    BY <1>2 DEF UserBanned
  <2>3. /\ i \in DOMAIN channels
        /\ c \in channels[i].Clients
        /\ k # c
        /\ who \in HostInfo
        /\ SoundChannel(channels[i], clients, users)
    BY <2>1, <2>2, OperatorRequest
  <2>4. /\ SoundChannel(Ban(channels[i], k, who), clients, users)
        /\ Ban(channels[i], k, who).Name = channels[i].Name
        /\ Ban(channels[i], k, who).Enabled => channels[i].Enabled
    BY <2>3, BanSound
  <2>5. SoundChannels'
    BY <2>2, <2>3, <2>4, ReplaceStep
  <2>6. out' \subseteq Packet
    <3>1. Answer(c, "BanUser_Complete", "Ok", name) \in Packet
      BY ChannelPacketType DEF Answer, PacketType, Result
    <3>2. reply(who) \in Packet
      BY <2>3, <3>1 DEF Packet
    <3>3. "BanUser" \in PacketType /\ "UserBanned" \in Result
      BY DEF PacketType, Result
    <3>4. notices(who) \subseteq Packet
      BY <2>3, <3>3, NotifyType
    <3> HIDE DEF reply, notices
    <3> QED
      BY <2>2, <3>2, <3>4, SendType
  <2> QED
    BY <2>1, <2>5, <2>6 DEF Outcome, ServerInv, Sessions
<1> QED
  BY <1>1, <1>2
-----------------------------------------------------------------------------
(***************************************************************************)
(* The steps that change the users.                                        *)
(***************************************************************************)
\* Replacing the user of a connected client by one that is identified if the
\* old one was keeps the sessions in order and the channels sound.
LEMMA UserUpdate ==
  ASSUME ServerInv, NEW c \in clients, NEW user \in ChatUser,
         users[c].Identified => user.Identified,
         users' = [users EXCEPT ![c] = user],
         UNCHANGED <<clients, channels, crashed>>,
         serving' \in clients \cup {NoClient}, handled' \in BOOLEAN
  PROVE  Sessions' /\ SoundChannels'
<1>1. c \in Client /\ users \in [Client -> ChatUser \cup {NoUser}]
  BY DEF ServerInv, Sessions
<1>2. \A k \in Client : users'[k] = IF k = c THEN user ELSE users[k]
  BY <1>1
<1>3. Sessions'
  BY <1>1, <1>2, NoUserAssumption DEF ServerInv, Sessions, GetChatUser
<1>4. \A k \in clients : users[k].Identified => users'[k].Identified
  BY <1>2 DEF ServerInv, Sessions
<1>5. Sound(channels, clients, users')
  BY <1>4, SoundFrame DEF ServerInv, SoundChannels
<1> QED
  BY <1>3, <1>5 DEF ServerInv, SoundChannels

LEMMA HelloStep ==
  ASSUME ServerInv, HandleHello
  PROVE  ServerInv'
<1>1. /\ serving \in clients /\ serving \in Client
      /\ users[serving] \in ChatUser
      /\ Hello(serving)
      /\ handled' = TRUE
      /\ UNCHANGED <<clients, channels, crashed, serving>>
  BY NothingAssumption
  DEF HandleHello, Handled, Serving, ServerInv, Sessions, GetChatUser
<1>2. users' = [users EXCEPT ![serving] = [users[serving] EXCEPT !.Enabled = TRUE]]
  BY <1>1 DEF Hello
<1>3. /\ [users[serving] EXCEPT !.Enabled = TRUE] \in ChatUser
      /\ [users[serving] EXCEPT !.Enabled = TRUE].Identified
           = users[serving].Identified
  BY <1>1 DEF ChatUser, GuestUser, IdentifiedUser
<1>4. Sessions' /\ SoundChannels'
  BY <1>1, <1>2, <1>3, UserUpdate
<1>5. out' \subseteq Packet
  <2>1. SystemPacket(serving, "Hello_Complete", "Ok") \in Packet
    BY <1>1, SystemPacketType DEF PacketType, Result
  <2> QED
    BY <1>1, <2>1, SendType DEF Hello
<1> QED
  BY <1>4, <1>5 DEF ServerInv

LEMMA IdentifyStep ==
  ASSUME ServerInv, NEW c \in clients, NEW name \in Username,
         IdentifyRefused(c, name) \/ IdentifyAccepted(c, name),
         UNCHANGED <<clients, channels, crashed, serving>>,
         handled' \in BOOLEAN
  PROVE  ServerInv'
<1>1. c \in Client /\ users[c] \in ChatUser
  BY DEF ServerInv, Sessions, GetChatUser
<1>2. CASE IdentifyRefused(c, name)
  <2>1. IdentifyResult(c, name) \in Result
    BY DEF IdentifyResult, Result
  <2>2. UserPacket(c, "Identify_Complete", IdentifyResult(c, name), {})
          \in Packet
    BY <1>1, <2>1, UserPacketType DEF PacketType
  <2>3. out' \subseteq Packet
    BY <1>2, <2>2, SendType DEF IdentifyRefused
  <2> QED
    BY <1>2, <2>3
    DEF IdentifyRefused, ServerInv, Sessions, SoundChannels, GetChatUser
<1>3. CASE IdentifyAccepted(c, name)
  <2> DEFINE hash == HashString[users[c].Hostname]
             user == [[[users[c] EXCEPT !.Identified = TRUE]
                         EXCEPT !.Username = name] EXCEPT !.Hostname = hash]
  <2>1. /\ ~users[c].Identified
        /\ name \in Username \ (BadUsername \cup LongUsername)
    BY <1>3 DEF IdentifyAccepted, IdentifyResult
  <2>2. users[c] \in GuestUser
    BY <1>1, <2>1 DEF ChatUser, GuestUser, IdentifiedUser
  <2>3. hash \in HashedHost
    BY <2>2, HashAssumption DEF GuestUser
  <2>4. user \in IdentifiedUser
    <3> HIDE DEF hash
    <3> QED
      BY <2>1, <2>2, <2>3 DEF GuestUser, IdentifiedUser
  <2>5. user \in ChatUser /\ user.Identified
    <3> HIDE DEF user
    <3> QED
      BY <2>4 DEF ChatUser, IdentifiedUser
  <2>6. users' = [users EXCEPT ![c] = user]
    BY <1>1, <1>3 DEF IdentifyAccepted, ServerInv, Sessions
  <2>7. Sessions' /\ SoundChannels'
    <3> HIDE DEF user
    <3>1. serving' \in clients \cup {NoClient}
      BY DEF ServerInv, Sessions
    <3> QED
      BY <2>5, <2>6, <3>1, UserUpdate
  <2>8. out' \subseteq Packet
    <3>1. {<<name, hash>>} \in SUBSET HostInfo
      BY <2>3 DEF HostInfo
    <3>2. UserPacket(c, "Identify_Complete", "Ok", {<<name, hash>>}) \in Packet
      <4> HIDE DEF hash
      <4> QED
        BY <1>1, <3>1, UserPacketType DEF PacketType, Result
    <3> QED
      BY <1>3, <3>2, SendType DEF IdentifyAccepted
  <2> QED
    BY <2>7, <2>8 DEF ServerInv
<1> QED
  BY <1>2, <1>3

LEMMA UserMessageStep ==
  ASSUME ServerInv, NEW c \in clients, SendUserMessage(c)
  PROVE  out' \subseteq Packet
<1> PICK name \in Username, text \in Text :
      UserMessageRefused(c, name, text) \/ UserMessageSent(c, name, text)
  BY DEF SendUserMessage
<1>1. c \in Client
  BY DEF ServerInv, Sessions
<1>2. CASE UserMessageRefused(c, name, text)
  <2>1. UserMessageResult(c, name, text) \in Result
    BY DEF UserMessageResult, Result
  <2>2. UserPacket(c, "SendMessage_Complete",
                   UserMessageResult(c, name, text), {}) \in Packet
    BY <1>1, <2>1, UserPacketType DEF PacketType
  <2> QED
    BY <1>2, <2>2, SendType DEF UserMessageRefused
<1>3. CASE UserMessageSent(c, name, text)
  <2>1. users[c].Identified
    BY <1>3 DEF UserMessageSent, UserMessageResult
  <2>2. UserAndHost(users[c]) \in HostInfo
    BY <2>1, IdentifiedType DEF ServerInv
  <2>3. PICK target \in Holders(name) :
          Send({UserPacket(target, "SendMessage", "MessageSent",
                           {UserAndHost(users[c])}),
                UserPacket(c, "SendMessage_Complete", "Ok", {})})
    BY <1>3 DEF UserMessageSent
  <2>4. target \in Client
    BY DEF Holders
  <2>5. UserPacket(target, "SendMessage", "MessageSent",
                   {UserAndHost(users[c])}) \in Packet
    BY <2>2, <2>4, UserPacketType DEF PacketType, Result
  <2>6. UserPacket(c, "SendMessage_Complete", "Ok", {}) \in Packet
    BY <1>1, UserPacketType DEF PacketType, Result
  <2> QED
    BY <2>3, <2>5, <2>6, SendType
<1> QED
  BY <1>2, <1>3

LEMMA ConnectStep ==
  ASSUME ServerInv, NEW c \in Client, NEW host \in Host,
         OnClientConnected(c, host)
  PROVE  ServerInv'
<1> DEFINE user == [Enabled |-> FALSE, Identified |-> FALSE,
                    Username |-> Guest, Hostname |-> host]
<1>1. user \in ChatUser
  BY DEF ChatUser, GuestUser
<1>2. /\ users \in [Client -> ChatUser \cup {NoUser}]
      /\ users' = [users EXCEPT ![c] = user]
      /\ clients' = clients \cup {c} /\ c \notin clients
      /\ UNCHANGED <<channels, crashed, serving, handled>>
      /\ out' = {}
  BY DEF OnClientConnected, OnUserConnected, Silent, ServerInv, Sessions
<1> HIDE DEF user
<1>3. \A k \in Client : users'[k] = IF k = c THEN user ELSE users[k]
  BY <1>2
<1>4. Sessions'
  BY <1>1, <1>2, <1>3, NoUserAssumption DEF ServerInv, Sessions, GetChatUser
<1>5. \A k \in clients : users[k].Identified => users'[k].Identified
  BY <1>2, <1>3 DEF ServerInv, Sessions
<1>6. Sound(channels, clients \cup {c}, users')
  BY <1>5, SoundFrame DEF ServerInv, SoundChannels
<1> QED
  BY <1>2, <1>4, <1>6 DEF ServerInv, SoundChannels

LEMMA DisconnectStep ==
  ASSUME ServerInv, NEW c \in clients, OnClientDisconnected(c)
  PROVE  ServerInv'
<1>1. c \in Client /\ users \in [Client -> ChatUser \cup {NoUser}]
  BY DEF ServerInv, Sessions
<1>2. \A k \in Client : users'[k] = IF k = c THEN NoUser ELSE users[k]
  BY <1>1 DEF OnClientDisconnected, OnUserDisconnected
<1>3. Sessions'
  BY <1>1, <1>2
  DEF OnClientDisconnected, OnUserDisconnected, OnMemberDisconnected,
      ServerInv, Sessions, GetChatUser
<1>4. SoundChannels'
  <2>1. \A k \in clients \ {c} : users'[k] = users[k]
    BY <1>2 DEF ServerInv, Sessions
  <2>2. Sound(channels, clients, users) /\ Len(channels) <= MaxChannels
    BY DEF ServerInv, SoundChannels
  <2>3. /\ channels' = [i \in DOMAIN channels |-> WithoutClient(channels[i], c)]
        /\ clients' = clients \ {c}
    BY DEF OnClientDisconnected, OnMemberDisconnected
  <2>4. /\ Sound(channels', clients \ {c}, users')
        /\ Len(channels') = Len(channels)
    BY <2>1, <2>2, <2>3, SoundWithout
  <2> QED
    BY <2>2, <2>3, <2>4 DEF SoundChannels
<1>5. out' \subseteq Packet
  <2> DEFINE left == {j \in DOMAIN channels :
                        channels[j].Enabled /\ c \in channels[j].Clients}
             notices(i) == Notify(i, c, "LeaveChannel", "UserLeft",
                                  UserAndHost(users[c]))
  <2>1. "LeaveChannel" \in PacketType /\ "UserLeft" \in Result
    BY DEF PacketType, Result
  <2>2. \A i \in left : notices(i) \subseteq Packet
    <3> SUFFICES ASSUME NEW i \in left PROVE notices(i) \subseteq Packet
      OBVIOUS
    <3>1. UserAndHost(users[c]) \in HostInfo
      BY MemberType
    <3> QED
      BY <2>1, <3>1, NotifyType
  <2>3. Send(UNION {notices(i) : i \in left})
    BY DEF OnClientDisconnected, OnMemberDisconnected
  <2> HIDE DEF left, notices
  <2>4. UNION {notices(i) : i \in left} \subseteq Packet
    BY <2>2
  <2> QED
    BY <2>3, <2>4, SendType
<1> QED
  BY <1>3, <1>4, <1>5 DEF ServerInv
-----------------------------------------------------------------------------
(***************************************************************************)
(* The invariant holds of every behaviour, whatever the peers send.        *)
(***************************************************************************)
LEMMA ServerInvInit == Init => ServerInv
<1> SUFFICES ASSUME Init PROVE ServerInv
  OBVIOUS
<1>1. Sessions
  BY DEF Init, Sessions, GetChatUser
<1>2. SoundChannels
  <2>1. Sound(<<>>, clients, users)
    BY EmptySeq DEF Sound
  <2> QED
    BY <2>1, MaxChannelsAssumption DEF Init, SoundChannels
<1> QED
  BY <1>1, <1>2 DEF Init, ServerInv

LEMMA ServerInvStep ==
  ServerInv /\ [Next]_vars => ServerInv'
<1> SUFFICES ASSUME ServerInv, [Next]_vars PROVE ServerInv'
  OBVIOUS
<1>1. ASSUME NEW c \in Client, NEW host \in Host, OnClientConnected(c, host)
      PROVE  ServerInv'
  BY <1>1, ConnectStep
<1>2. ASSUME NEW c \in Client, CloseConnection(c) PROVE ServerInv'
  BY <1>2, DisconnectStep DEF CloseConnection
<1>3. ASSUME NEW c \in Client, ReceiveChunk(c) PROVE ServerInv'
  BY <1>3
  DEF ReceiveChunk, Silent, ServerInv, Sessions, SoundChannels, GetChatUser
<1>4. CASE HandleHello
  BY <1>4, HelloStep
<1>5. CASE HandleUserPacket
  <2>1. /\ serving \in clients
        /\ UNCHANGED <<clients, channels, crashed, serving>>
        /\ handled' \in BOOLEAN
    BY <1>5, NothingAssumption
    DEF HandleUserPacket, Handled, Serving, ServerInv, Sessions
  <2>2. CASE Identify(serving)
    BY <2>1, <2>2, IdentifyStep DEF Identify
  <2>3. CASE SendUserMessage(serving)
    <3>1. out' \subseteq Packet /\ UNCHANGED users
      BY <2>1, <2>3, UserMessageStep DEF SendUserMessage
    <3> QED
      BY <2>1, <3>1 DEF ServerInv, Sessions, SoundChannels, GetChatUser
  <2> QED
    BY <1>5, <2>2, <2>3 DEF HandleUserPacket
<1>6. CASE HandleChannelPacket
  <2>1. /\ serving \in clients
        /\ UNCHANGED <<clients, users, serving>>
        /\ handled' \in BOOLEAN
    BY <1>6, NothingAssumption
    DEF HandleChannelPacket, Handled, Serving, ServerInv, Sessions
  <2>2. CASE JoinChannel(serving)
    BY <2>1, <2>2, JoinStep
    DEF Outcome, ServerInv, Sessions, GetChatUser
  <2>3. CASE LeaveChannel(serving)
    BY <2>1, <2>3, LeaveStep
    DEF Outcome, ServerInv, Sessions, GetChatUser
  <2>4. CASE SendChannelMessage(serving)
    BY <2>1, <2>4, MessageStep
    DEF Outcome, ServerInv, Sessions, GetChatUser
  <2>5. CASE KickUser(serving)
    BY <2>1, <2>5, KickStep
    DEF Outcome, ServerInv, Sessions, GetChatUser
  <2>6. CASE BanUser(serving)
    BY <2>1, <2>6, BanStep
    DEF Outcome, ServerInv, Sessions, GetChatUser
  <2> QED
    BY <1>6, <2>2, <2>3, <2>4, <2>5, <2>6 DEF HandleChannelPacket
<1>7. CASE IgnoredPacket
  BY <1>7
  DEF IgnoredPacket, Silent, ServerInv, Sessions, SoundChannels, GetChatUser
<1>8. CASE MalformedPacket
  BY <1>8, DisconnectStep, NothingAssumption
  DEF MalformedPacket, Serving, ServerInv, Sessions
<1>9. CASE EndOfChunk
  BY <1>9
  DEF EndOfChunk, Silent, ServerInv, Sessions, SoundChannels, GetChatUser
<1>10. CASE NothingHandled
  BY <1>10, DisconnectStep, NothingAssumption
  DEF NothingHandled, Serving, ServerInv, Sessions
<1>11. CASE UNCHANGED vars
  BY <1>11 DEF vars, ServerInv, Sessions, SoundChannels, GetChatUser
<1> QED
  BY <1>1, <1>2, <1>3, <1>4, <1>5, <1>6, <1>7, <1>8, <1>9, <1>10, <1>11
  DEF Next

LEMMA ServerInvariant == Spec => []ServerInv
  BY ServerInvInit, ServerInvStep, PTL DEF Spec

\* Every variable keeps its type, and every packet that is sent describes
\* identified users only.
THEOREM TypeCorrect == Spec => []TypeOK
  BY ServerInvariant, ServerInvImplies, PTL

\* No address of a deleted RemoteChatClient is kept anywhere in the server.
THEOREM NoDanglingReference == Spec => []NoDanglingClient
  BY ServerInvariant, ServerInvImplies, PTL

\* A channel is enabled exactly while it has members, its operators are
\* members, its members have identified, and its name finds no other.
THEOREM ChannelsConsistent == Spec => []ChannelLifecycle
  BY ServerInvariant, ServerInvImplies, PTL
-----------------------------------------------------------------------------
(***************************************************************************)
(* Uniqueness is not inductive alone: Identify only sees the names of      *)
(* enabled users, so every user that identified must be enabled.           *)
(***************************************************************************)
HelloBeforeIdentify ==
  \A c \in Client :
    GetChatUser(c) /\ users[c].Identified => users[c].Enabled

NamesInv == HelloBeforeIdentify /\ UsernamesExclusive

\* A step that takes no new name and identifies nobody.
LEMMA NamesFrame ==
  ASSUME NamesInv,
         \A c \in Client :
           GetChatUser(c)' /\ users'[c].Identified =>
             /\ GetChatUser(c) /\ users[c].Identified
             /\ users'[c].Username = users[c].Username
             /\ users[c].Enabled => users'[c].Enabled
  PROVE  NamesInv'
<1>1. HelloBeforeIdentify'
  BY DEF NamesInv, HelloBeforeIdentify, GetChatUser
<1>2. UsernamesExclusive'
  BY DEF NamesInv, UsernamesExclusive, GetChatUser
<1> QED
  BY <1>1, <1>2 DEF NamesInv

\* Identify looks for the name among the enabled users: those are all who
\* hold one, and the claimant, having said Hello, is one of them from now on.
LEMMA NamesIdentify ==
  ASSUME ServerInv, NamesInv, NEW c \in clients, users[c].Enabled,
         NEW name \in Username, IdentifyAccepted(c, name)
  PROVE  NamesInv'
<1>1. c \in Client /\ users \in [Client -> ChatUser \cup {NoUser}]
      /\ users[c] \in ChatUser
  BY DEF ServerInv, Sessions, GetChatUser
<1>2. \A k \in Client \ {c} : users'[k] = users[k]
  BY <1>1 DEF IdentifyAccepted
<1>3. /\ users'[c].Enabled
      /\ users'[c].Username = name
  <2> DEFINE hash == HashString[users[c].Hostname]
             user == [[[users[c] EXCEPT !.Identified = TRUE]
                         EXCEPT !.Username = name] EXCEPT !.Hostname = hash]
  <2>1. users'[c] = user
    BY <1>1 DEF IdentifyAccepted
  <2>2. user.Enabled /\ user.Username = name
    <3> HIDE DEF hash
    <3> QED
      BY <1>1 DEF ChatUser, GuestUser, IdentifiedUser
  <2> HIDE DEF user
  <2> QED
    BY <2>1, <2>2
<1>4. \A k \in Client :
        GetChatUser(k) /\ users[k].Identified => users[k].Username # name
  BY DEF IdentifyAccepted, IdentifyResult, Holders, NamesInv,
         HelloBeforeIdentify
<1>5. HelloBeforeIdentify'
  BY <1>2, <1>3 DEF NamesInv, HelloBeforeIdentify, GetChatUser
<1>6. UsernamesExclusive'
  BY <1>2, <1>3, <1>4 DEF NamesInv, UsernamesExclusive, GetChatUser
<1> QED
  BY <1>5, <1>6 DEF NamesInv

LEMMA NamesStep ==
  ASSUME HelloFirst, ServerInv, NamesInv, [Next]_vars
  PROVE  NamesInv'
<1>1. ASSUME NEW c \in Client, NEW host \in Host, OnClientConnected(c, host)
      PROVE  NamesInv'
  <2>1. users \in [Client -> ChatUser \cup {NoUser}]
    BY DEF ServerInv, Sessions
  <2>2. ~users'[c].Identified
    BY <1>1, <2>1 DEF OnClientConnected, OnUserConnected
  <2>3. \A k \in Client \ {c} : users'[k] = users[k]
    BY <1>1, <2>1 DEF OnClientConnected, OnUserConnected
  <2> QED
    BY <2>2, <2>3, NamesFrame DEF GetChatUser
<1>2. ASSUME NEW c \in Client, OnClientDisconnected(c) PROVE NamesInv'
  <2>1. users \in [Client -> ChatUser \cup {NoUser}]
    BY DEF ServerInv, Sessions
  <2>2. \A k \in Client : users'[k] = IF k = c THEN NoUser ELSE users[k]
    BY <1>2, <2>1 DEF OnClientDisconnected, OnUserDisconnected
  <2> QED
    BY <2>2, NamesFrame DEF GetChatUser
<1>3. CASE HandleHello
  <2>1. /\ serving \in Client
        /\ users \in [Client -> ChatUser \cup {NoUser}]
        /\ users[serving] \in ChatUser
        /\ users' = [users EXCEPT ![serving].Enabled = TRUE]
    BY <1>3 DEF HandleHello, Handled, Serving, Hello, ServerInv, Sessions,
                GetChatUser
  <2>2. \A k \in Client \ {serving} : users'[k] = users[k]
    BY <2>1
  <2>3. /\ users'[serving].Identified = users[serving].Identified
        /\ users'[serving].Username = users[serving].Username
        /\ users'[serving].Enabled
        /\ users[serving] # NoUser
    BY <2>1, NoUserAssumption DEF ChatUser, GuestUser, IdentifiedUser
  <2> QED
    BY <2>2, <2>3, NamesFrame DEF GetChatUser
<1>4. CASE HandleUserPacket
  <2>1. serving \in clients /\ users[serving].Enabled
    BY <1>4, NothingAssumption
    DEF HandleUserPacket, Handled, Serving, MaySend, ServerInv, Sessions
  <2>2. CASE Identify(serving)
    <3>1. PICK name \in Username : \/ IdentifyRefused(serving, name)
                                   \/ IdentifyAccepted(serving, name)
      BY <2>2 DEF Identify
    <3>2. CASE IdentifyRefused(serving, name)
      BY <3>2, NamesFrame DEF IdentifyRefused, GetChatUser
    <3> QED
      BY <2>1, <3>1, <3>2, NamesIdentify
  <2>3. CASE SendUserMessage(serving)
    BY <2>3, NamesFrame DEF SendUserMessage, GetChatUser
  <2> QED
    BY <1>4, <2>2, <2>3 DEF HandleUserPacket
<1>5. CASE UNCHANGED users
  BY <1>5, NamesFrame DEF GetChatUser
<1>6. HandleChannelPacket \/ IgnoredPacket \/ EndOfChunk
        \/ (\E c \in Client : ReceiveChunk(c)) \/ UNCHANGED vars
      => UNCHANGED users
  BY DEF HandleChannelPacket, IgnoredPacket, EndOfChunk, ReceiveChunk, vars
<1> QED
  BY <1>1, <1>2, <1>3, <1>4, <1>5, <1>6
  DEF Next, CloseConnection, MalformedPacket, NothingHandled, Serving

LEMMA NamesInvariant ==
  ASSUME HelloFirst
  PROVE  Spec => [](ServerInv /\ NamesInv)
<1>1. Init => ServerInv /\ NamesInv
  BY ServerInvInit
  DEF Init, NamesInv, HelloBeforeIdentify, UsernamesExclusive, GetChatUser
<1>2. ServerInv /\ NamesInv /\ [Next]_vars => (ServerInv /\ NamesInv)'
  BY ServerInvStep, NamesStep
<1> QED
  BY <1>1, <1>2, PTL DEF Spec

\* Of peers that say Hello first, no two ever hold the same user name.
THEOREM ExclusiveNames ==
  ASSUME HelloFirst
  PROVE  Spec => []UsernamesExclusive
<1>1. NamesInv => UsernamesExclusive
  BY DEF NamesInv
<1> QED
  BY <1>1, NamesInvariant, PTL
-----------------------------------------------------------------------------
(***************************************************************************)
(* What a step may do to a channel, and what follows for operators, closed *)
(* channels and bans.                                                      *)
(***************************************************************************)

(***************************************************************************)
(* The ways in which a step changes channel i into `channel'.              *)
(***************************************************************************)
ByMember(i, channel) ==
  /\ serving \in clients
  /\ channels[i].Enabled
  /\ \/ /\ JoinResult(serving, channels[i].Name, i) = "Ok"
        /\ channel = Joined(channels[i], serving)
     \/ channel = Left(channels[i], serving)

ByOperator(i, channel) ==
  /\ channels[i].Enabled
  /\ serving \in channels[i].Operators
  /\ \E k \in channels[i].Clients \ {serving} :
       \/ channel = Removed(channels[i], k)
       \/ channel = Ban(channels[i], k, UserAndHost(users[k]))

ByRequest(i, channel) ==
  UNCHANGED <<users, clients>> /\ (ByMember(i, channel) \/ ByOperator(i, channel))

ByDisconnection(i, channel) ==
  \E c \in clients \ clients' : channel = WithoutClient(channels[i], c)

MayBecome(i, channel) ==
  \/ channel = channels[i]
  \/ ByRequest(i, channel)
  \/ ByDisconnection(i, channel)

\* Every channel is changed in one of those ways; a new one bans nobody.
ChannelSteps ==
  /\ \A i \in DOMAIN channels : i \in DOMAIN channels' /\ MayBecome(i, channels'[i])
  /\ \A i \in DOMAIN channels' \ DOMAIN channels : channels'[i].Banned = {}
-----------------------------------------------------------------------------
LEMMA StepNone ==
  ASSUME UNCHANGED channels
  PROVE  ChannelSteps
  BY DEF ChannelSteps, MayBecome

\* A request that replaces one channel.
LEMMA StepOne ==
  ASSUME ServerInv, NEW i \in DOMAIN channels, NEW channel,
         channels' = [channels EXCEPT ![i] = channel], ByRequest(i, channel)
  PROVE  ChannelSteps
<1>1. DOMAIN channels' = DOMAIN channels /\ channels'[i] = channel
  BY DEF ServerInv, SoundChannels, Sound
<1>2. \A j \in DOMAIN channels : j # i => channels'[j] = channels[j]
  BY DEF ServerInv, SoundChannels, Sound
<1>3. \A j \in DOMAIN channels : MayBecome(j, channels'[j])
  BY <1>1, <1>2 DEF MayBecome
<1> QED
  BY <1>1, <1>3 DEF ChannelSteps

\* A request that creates a channel.
LEMMA StepNew ==
  ASSUME ServerInv, NEW channel, channels' = Append(channels, channel),
         channel.Banned = {}
  PROVE  ChannelSteps
<1>1. channels \in Seq(ChatChannel)
  BY DEF ServerInv, SoundChannels, Sound
<1>2. /\ DOMAIN channels = 1..Len(channels)
      /\ DOMAIN channels' = 1..(Len(channels) + 1)
      /\ Len(channels) \in Nat
      /\ channels'[Len(channels) + 1] = channel
      /\ \A j \in 1..Len(channels) : channels'[j] = channels[j]
  BY <1>1
<1> QED
  BY <1>2 DEF ChannelSteps, MayBecome

LEMMA StepJoin ==
  ASSUME ServerInv, serving \in clients, UNCHANGED <<clients, users>>,
         JoinChannel(serving)
  PROVE  ChannelSteps
<1> PICK name \in ChannelName, i \in 0..Len(channels) :
      /\ Finds(name, i)
      /\ \/ JoinRefused(serving, name, i)
         \/ ChannelCreated(serving, name, i)
         \/ ChannelJoined(serving, name, i)
  BY DEF JoinChannel
<1>1. CASE JoinRefused(serving, name, i)
  BY <1>1, StepNone DEF JoinRefused, Refuse
<1>2. CASE ChannelCreated(serving, name, i)
  <2> DEFINE channel == [Enabled |-> TRUE, Name |-> name, Clients |-> {serving},
                         Operators |-> {serving}, Banned |-> {}]
  <2>1. channels' = Append(channels, channel)
    BY <1>2 DEF ChannelCreated
  <2>2. channel.Banned = {}
    OBVIOUS
  <2> HIDE DEF channel
  <2> QED
    BY <2>1, <2>2, StepNew
<1>3. CASE ChannelJoined(serving, name, i)
  <2>1. /\ JoinResult(serving, name, i) = "Ok"
        /\ channels' = [channels EXCEPT ![i] = Joined(channels[i], serving)]
    BY <1>3 DEF ChannelJoined
  <2>2. i # 0
    BY <2>1 DEF JoinResult
  <2>3. i \in DOMAIN channels /\ channels[i].Enabled /\ channels[i].Name = name
    BY <2>2, FindsChannel
  <2>4. ByRequest(i, Joined(channels[i], serving))
    BY <2>1, <2>3 DEF ByRequest, ByMember
  <2> QED
    BY <2>1, <2>3, <2>4, StepOne
<1> QED
  BY <1>1, <1>2, <1>3

LEMMA StepLeave ==
  ASSUME ServerInv, serving \in clients, UNCHANGED <<clients, users>>,
         LeaveChannel(serving)
  PROVE  ChannelSteps
<1> PICK name \in ChannelName, i \in 0..Len(channels) :
      /\ Finds(name, i)
      /\ LeaveRefused(serving, name, i) \/ ChannelLeft(serving, name, i)
  BY DEF LeaveChannel
<1>1. CASE LeaveRefused(serving, name, i)
  BY <1>1, StepNone DEF LeaveRefused, Refuse
<1>2. CASE ChannelLeft(serving, name, i)
  <2>1. /\ MemberResult(serving, name, i) = "Ok"
        /\ channels' = [channels EXCEPT ![i] = Left(channels[i], serving)]
    BY <1>2 DEF ChannelLeft
  <2>2. i \in DOMAIN channels /\ channels[i].Enabled
    BY <2>1, MemberRequest
  <2>3. ByRequest(i, Left(channels[i], serving))
    BY <2>2 DEF ByRequest, ByMember
  <2> QED
    BY <2>1, <2>2, <2>3, StepOne
<1> QED
  BY <1>1, <1>2

\* What the checks of KickUser and BanUser add: the sender is an operator.
LEMMA OperatorAuthority ==
  ASSUME NEW c, NEW name, NEW i, NEW target, NEW self, self # "Ok",
         OperatorResult(c, name, i, target, self) = "Ok"
  PROVE  c \in channels[i].Operators
  BY DEF OperatorResult

LEMMA StepKick ==
  ASSUME ServerInv, serving \in clients, UNCHANGED <<clients, users>>,
         KickUser(serving)
  PROVE  ChannelSteps
<1> PICK name \in ChannelName, i \in 0..Len(channels), target \in Username :
      /\ Finds(name, i)
      /\ \/ KickRefused(serving, name, i, target)
         \/ UserKicked(serving, name, i, target)
         \/ AbsentUserKicked(serving, name, i, target)
  BY DEF KickUser
<1>1. CASE KickRefused(serving, name, i, target)
  BY <1>1, StepNone DEF KickRefused, Refuse
<1>2. CASE UserKicked(serving, name, i, target)
  <2>1. OperatorResult(serving, name, i, target, "CannotKickSelf") = "Ok"
    BY <1>2 DEF UserKicked, KickResult
  <2>2. PICK k \in Named(i, target) :
          channels' = [channels EXCEPT ![i] = Removed(channels[i], k)]
    BY <1>2 DEF UserKicked
  <2>3. /\ i \in DOMAIN channels
        /\ channels[i].Enabled
        /\ k \in channels[i].Clients \ {serving}
    BY <2>1, OperatorRequest
  <2>4. serving \in channels[i].Operators
    BY <2>1, OperatorAuthority
  <2>5. ByRequest(i, Removed(channels[i], k))
    BY <2>3, <2>4 DEF ByRequest, ByOperator
  <2> QED
    BY <2>2, <2>3, <2>5, StepOne
<1>3. CASE AbsentUserKicked(serving, name, i, target)
  BY <1>3, StepNone DEF AbsentUserKicked
<1> QED
  BY <1>1, <1>2, <1>3

LEMMA StepBan ==
  ASSUME ServerInv, serving \in clients, UNCHANGED <<clients, users>>,
         BanUser(serving)
  PROVE  ChannelSteps
<1> PICK name \in ChannelName, i \in 0..Len(channels), target \in Username :
      /\ Finds(name, i)
      /\ \/ BanRefused(serving, name, i, target)
         \/ UserBanned(serving, name, i, target)
  BY DEF BanUser
<1>1. CASE BanRefused(serving, name, i, target)
  BY <1>1, StepNone DEF BanRefused, Refuse
<1>2. CASE UserBanned(serving, name, i, target)
  <2>1. OperatorResult(serving, name, i, target, "CannotBanSelf") = "Ok"
    BY <1>2 DEF UserBanned, BanResult
  <2>2. PICK k \in Named(i, target) :
          channels' = [channels EXCEPT
            ![i] = Ban(channels[i], k, UserAndHost(users[k]))]
    BY <1>2 DEF UserBanned
  <2>3. /\ i \in DOMAIN channels
        /\ channels[i].Enabled
        /\ k \in channels[i].Clients \ {serving}
    BY <2>1, OperatorRequest
  <2>4. serving \in channels[i].Operators
    BY <2>1, OperatorAuthority
  <2>5. ByRequest(i, Ban(channels[i], k, UserAndHost(users[k])))
    BY <2>3, <2>4 DEF ByRequest, ByOperator
  <2> QED
    BY <2>2, <2>3, <2>5, StepOne
<1> QED
  BY <1>1, <1>2

LEMMA StepDisconnect ==
  ASSUME ServerInv, NEW c \in clients, OnClientDisconnected(c)
  PROVE  ChannelSteps
<1>1. /\ channels' = [i \in DOMAIN channels |-> WithoutClient(channels[i], c)]
      /\ c \in clients \ clients'
  BY DEF OnClientDisconnected, OnMemberDisconnected
<1>2. DOMAIN channels' = DOMAIN channels
  BY <1>1
<1>3. \A i \in DOMAIN channels : ByDisconnection(i, channels'[i])
  BY <1>1 DEF ByDisconnection
<1> QED
  BY <1>2, <1>3 DEF ChannelSteps, MayBecome

LEMMA StepChannels ==
  ASSUME ServerInv, [Next]_vars
  PROVE  ChannelSteps
<1>1. CASE HandleChannelPacket
  <2>1. serving \in clients /\ UNCHANGED <<clients, users>>
    BY <1>1, NothingAssumption
    DEF HandleChannelPacket, Handled, Serving, ServerInv, Sessions
  <2>2. CASE SendChannelMessage(serving)
    <3>1. UNCHANGED channels
      BY <2>2
      DEF SendChannelMessage, MessageRefused, Refuse, ChannelMessage
    <3> QED
      BY <3>1, StepNone
  <2> QED
    BY <1>1, <2>1, <2>2, StepJoin, StepLeave, StepKick, StepBan
    DEF HandleChannelPacket
<1>2. ASSUME NEW c \in clients, OnClientDisconnected(c) PROVE ChannelSteps
  BY <1>2, StepDisconnect
<1>3. MalformedPacket \/ NothingHandled \/ (\E c \in Client : CloseConnection(c))
        => \E c \in clients : OnClientDisconnected(c)
  BY NothingAssumption
  DEF MalformedPacket, NothingHandled, CloseConnection, Serving, ServerInv,
      Sessions
<1>4. \/ \E c \in Client, host \in Host : OnClientConnected(c, host)
      \/ \E c \in Client : ReceiveChunk(c)
      \/ HandleHello \/ HandleUserPacket \/ IgnoredPacket \/ EndOfChunk
      \/ UNCHANGED vars
      => UNCHANGED channels
  BY DEF OnClientConnected, ReceiveChunk, HandleHello, HandleUserPacket,
         IgnoredPacket, EndOfChunk, vars
<1> QED
  BY <1>1, <1>2, <1>3, <1>4, StepNone DEF Next
-----------------------------------------------------------------------------
(***************************************************************************)
(* The fields of a changed channel.                                        *)
(***************************************************************************)
LEMMA JoinedFields ==
  ASSUME NEW channel \in ChatChannel, NEW k
  PROVE  LET new == Joined(channel, k) IN
         /\ new.Name = channel.Name
         /\ new.Clients = channel.Clients \cup {k}
         /\ new.Operators = channel.Operators
         /\ new.Banned = channel.Banned
  BY DEF ChatChannel, Joined

LEMMA RemovedFields ==
  ASSUME NEW channel \in ChatChannel, NEW k
  PROVE  /\ Removed(channel, k) \in ChatChannel
         /\ LET new == Removed(channel, k) IN
            /\ new.Name = channel.Name
            /\ new.Clients = channel.Clients \ {k}
            /\ new.Operators = channel.Operators \ {k}
            /\ new.Banned = channel.Banned
  BY DEF ChatChannel, Removed

LEMMA LeftFields ==
  ASSUME NEW channel \in ChatChannel, NEW k
  PROVE  LET new == Left(channel, k) IN
         /\ new.Name = channel.Name
         /\ new.Clients = channel.Clients \ {k}
         /\ new.Operators = channel.Operators \ {k}
         /\ new.Banned = channel.Banned
  BY RemovedFields DEF ChatChannel, Left

LEMMA BanFields ==
  ASSUME NEW channel \in ChatChannel, NEW k, NEW who
  PROVE  LET new == Ban(channel, k, who) IN
         /\ new.Name = channel.Name
         /\ new.Clients = channel.Clients \ {k}
         /\ new.Operators = channel.Operators \ {k}
         /\ new.Banned = channel.Banned \cup {who}
  BY RemovedFields DEF ChatChannel, Ban

LEMMA WithoutClientFields ==
  ASSUME NEW channel \in ChatChannel, channel.Operators \subseteq channel.Clients,
         channel.Enabled <=> channel.Clients # {}, NEW k
  PROVE  LET new == WithoutClient(channel, k) IN
         /\ new.Name = channel.Name
         /\ new.Clients = channel.Clients \ {k}
         /\ new.Operators = channel.Operators \ {k}
         /\ new.Banned = channel.Banned
         /\ ~channel.Enabled => new = channel
<1>1. CASE ~channel.Enabled
  BY <1>1 DEF WithoutClient
<1>2. CASE channel.Enabled /\ channel.Clients = {k}
  BY <1>2 DEF WithoutClient, ChatChannel
<1>3. CASE channel.Enabled /\ channel.Clients # {k}
  BY <1>3, RemovedFields DEF WithoutClient
<1> QED
  BY <1>1, <1>2, <1>3 DEF ChatChannel

(***************************************************************************)
(* A step lets the sender in, takes one member out, perhaps with a ban, or *)
(* leaves the channel as it was.                                           *)
(***************************************************************************)
Entered(i, channel) ==
  /\ channels[i].Enabled
  /\ UNCHANGED <<users, clients>>
  /\ JoinResult(serving, channels[i].Name, i) = "Ok"
  /\ channel.Clients = channels[i].Clients \cup {serving}
  /\ channel.Operators = channels[i].Operators
  /\ channel.Banned = channels[i].Banned

TakenOut(i, channel, k) ==
  /\ channels[i].Enabled
  /\ channel.Clients = channels[i].Clients \ {k}
  /\ channel.Operators = channels[i].Operators \ {k}
  /\ \/ /\ k = serving \/ k \notin clients' \/ serving \in channels[i].Operators
        /\ channel.Banned = channels[i].Banned
     \/ /\ UNCHANGED <<users, clients>>
        /\ k \in channels[i].Clients
        /\ serving \in channels[i].Operators
        /\ channel.Banned = channels[i].Banned \cup {UserAndHost(users[k])}

LEMMA ChannelEffect ==
  ASSUME ServerInv, [Next]_vars, NEW i \in DOMAIN channels
  PROVE  /\ channels'[i].Name = channels[i].Name
         /\ \/ channels'[i] = channels[i]
            \/ Entered(i, channels'[i])
            \/ \E k : TakenOut(i, channels'[i], k)
<1> DEFINE old == channels[i]
           new == channels'[i]
           Effect == /\ new.Name = old.Name
                     /\ \/ new = old
                        \/ Entered(i, new)
                        \/ \E k : TakenOut(i, new, k)
<1>1. /\ old \in ChatChannel
      /\ old.Operators \subseteq old.Clients
      /\ old.Enabled <=> old.Clients # {}
  BY DEF ServerInv, SoundChannels, Sound, SoundChannel
<1>2. MayBecome(i, new)
  BY StepChannels DEF ChannelSteps
<1>3. CASE UNCHANGED <<users, clients>> /\ ByMember(i, new)
  <2>1. old.Enabled
    BY <1>3 DEF ByMember
  <2>2. CASE /\ JoinResult(serving, old.Name, i) = "Ok"
             /\ new = Joined(old, serving)
    <3>1. new.Name = old.Name /\ Entered(i, new)
      BY <1>1, <1>3, <2>1, <2>2, JoinedFields DEF Entered
    <3> QED
      BY <3>1
  <2>3. CASE new = Left(old, serving)
    <3>1. new.Name = old.Name /\ TakenOut(i, new, serving)
      BY <1>1, <2>1, <2>3, LeftFields DEF TakenOut
    <3> QED
      BY <3>1
  <2> QED
    BY <1>3, <2>2, <2>3 DEF ByMember
<1>4. CASE UNCHANGED <<users, clients>> /\ ByOperator(i, new)
  <2>1. old.Enabled /\ serving \in old.Operators
    BY <1>4 DEF ByOperator
  <2>2. PICK k \in old.Clients : \/ new = Removed(old, k)
                                 \/ new = Ban(old, k, UserAndHost(users[k]))
    BY <1>4 DEF ByOperator
  <2>3. CASE new = Removed(old, k)
    <3>1. new.Name = old.Name /\ TakenOut(i, new, k)
      BY <1>1, <2>1, <2>3, RemovedFields DEF TakenOut
    <3> QED
      BY <3>1
  <2>4. CASE new = Ban(old, k, UserAndHost(users[k]))
    <3>1. new.Name = old.Name /\ TakenOut(i, new, k)
      BY <1>1, <1>4, <2>1, <2>4, BanFields DEF TakenOut
    <3> QED
      BY <3>1
  <2> QED
    BY <2>2, <2>3, <2>4
<1>5. CASE ByDisconnection(i, new)
  <2>1. PICK c : c \in clients \ clients' /\ new = WithoutClient(old, c)
    BY <1>5 DEF ByDisconnection
  <2>2. /\ new.Name = old.Name
        /\ new.Clients = old.Clients \ {c}
        /\ new.Operators = old.Operators \ {c}
        /\ new.Banned = old.Banned
        /\ ~old.Enabled => new = old
    BY <1>1, <2>1, WithoutClientFields
  <2>3. old.Enabled => TakenOut(i, new, c)
    BY <2>1, <2>2 DEF TakenOut
  <2> QED
    BY <2>2, <2>3
<1> QED
  BY <1>2, <1>3, <1>4, <1>5 DEF MayBecome, ByRequest
-----------------------------------------------------------------------------
\* Nobody is removed, and no ban list is changed, but by an operator.
THEOREM AuthorityRequired == Spec => RemovalNeedsAuthority
<1>1. ServerInv /\ [Next]_vars => [AuthorisedRemoval]_vars
  BY ChannelEffect DEF Entered, TakenOut, AuthorisedRemoval
<1> QED
  BY <1>1, ServerInvariant, PTL DEF Spec, RemovalNeedsAuthority

\* The rights of an operator end with its membership and never come back.
THEOREM OperatorsNeverGained == Spec => OperatorsOnlyLost
<1>1. ServerInv /\ [Next]_vars => [OperatorsFollowMembership]_vars
  <2> SUFFICES ASSUME ServerInv, [Next]_vars, NEW i \in DOMAIN channels
               PROVE  channels'[i].Operators
                        = channels[i].Operators \cap channels'[i].Clients
    BY DEF OperatorsFollowMembership
  <2>1. channels[i].Operators \subseteq channels[i].Clients
    BY DEF ServerInv, SoundChannels, Sound, SoundChannel
  <2> QED
    BY <2>1, ChannelEffect DEF Entered, TakenOut
<1> QED
  BY <1>1, ServerInvariant, PTL DEF Spec, OperatorsOnlyLost

\* A closed channel never changes again; names stay and bans accumulate.
THEOREM ClosedStaysClosed == Spec => ClosedForGood
<1>1. ServerInv /\ [Next]_vars => [ClosedKept]_vars
  BY ChannelEffect DEF Entered, TakenOut, ClosedKept
<1> QED
  BY <1>1, ServerInvariant, PTL DEF Spec, ClosedForGood
-----------------------------------------------------------------------------
(***************************************************************************)
(* Bans.  A member keeps its name and host while it is connected; so does  *)
(* a ban.  That the ban of one member leaves no other banned member takes  *)
(* exclusive names.                                                        *)
(***************************************************************************)
LEMMA NamesKept ==
  ASSUME ServerInv, [Next]_vars, NEW k \in clients, k \in clients',
         users[k].Identified
  PROVE  UserAndHost(users'[k]) = UserAndHost(users[k])
<1>1. k \in Client /\ users \in [Client -> ChatUser \cup {NoUser}]
      /\ users[k] \in ChatUser
  BY DEF ServerInv, Sessions, GetChatUser
<1>2. ASSUME NEW c \in Client, NEW host \in Host, OnClientConnected(c, host)
      PROVE  users'[k] = users[k]
  BY <1>1, <1>2 DEF OnClientConnected, OnUserConnected
<1>3. ASSUME NEW c \in Client, OnClientDisconnected(c)
      PROVE  users'[k] = users[k]
  BY <1>1, <1>3 DEF OnClientDisconnected, OnUserDisconnected
<1>4. CASE HandleHello
  <2>1. users' = [users EXCEPT ![serving] = [users[serving] EXCEPT !.Enabled = TRUE]]
    BY <1>4 DEF HandleHello, Hello
  <2>2. CASE k = serving
    <3>1. users'[k] = [users[k] EXCEPT !.Enabled = TRUE]
      BY <1>1, <2>1, <2>2
    <3> QED
      BY <1>1, <3>1 DEF ChatUser, GuestUser, IdentifiedUser, UserAndHost
  <2>3. CASE k # serving
    BY <1>1, <2>1, <2>3
  <2> QED
    BY <2>2, <2>3
<1>5. CASE HandleUserPacket
  <2>1. \A name \in Username : IdentifyAccepted(serving, name) => k # serving
    BY DEF IdentifyAccepted, IdentifyResult
  <2>2. users'[k] = users[k]
    BY <1>1, <1>5, <2>1
    DEF HandleUserPacket, Identify, IdentifyRefused, IdentifyAccepted,
        SendUserMessage
  <2> QED
    BY <2>2
<1>6. HandleChannelPacket \/ IgnoredPacket \/ EndOfChunk
        \/ (\E c \in Client : ReceiveChunk(c)) \/ UNCHANGED vars
      => UNCHANGED users
  BY DEF HandleChannelPacket, IgnoredPacket, EndOfChunk, ReceiveChunk, vars
<1> QED
  BY <1>2, <1>3, <1>4, <1>5, <1>6
  DEF Next, CloseConnection, MalformedPacket, NothingHandled, Serving

LEMMA BansStep ==
  ASSUME ServerInv, NamesInv, NoMemberBanned, [Next]_vars, ServerInv'
  PROVE  NoMemberBanned'
<1> SUFFICES ASSUME NEW i \in DOMAIN channels', NEW k \in channels'[i].Clients
             PROVE  UserAndHost(users'[k]) \notin channels'[i].Banned
  BY DEF NoMemberBanned
<1>1. CASE i \notin DOMAIN channels
  BY <1>1, StepChannels DEF ChannelSteps
<1>2. CASE i \in DOMAIN channels
  <2> DEFINE old == channels[i]
             new == channels'[i]
  <2>1. /\ k \in clients'
        /\ \A j \in old.Clients : /\ j \in clients /\ j \in Client
                                  /\ users[j].Identified
                                  /\ GetChatUser(j)
    BY <1>2
    DEF ServerInv, Sessions, SoundChannels, Sound, SoundChannel
  <2>2. \A j \in old.Clients : UserAndHost(users[j]) \notin old.Banned
    BY <1>2 DEF NoMemberBanned
  <2>3. k \in old.Clients => UserAndHost(users'[k]) = UserAndHost(users[k])
    BY <2>1, NamesKept
  <2>4. CASE new = old
    BY <2>2, <2>3, <2>4
  <2>5. CASE Entered(i, new)
    <3>1. new.Banned = old.Banned /\ users' = users
      BY <2>5 DEF Entered
    <3>2. CASE k \in old.Clients
      BY <2>2, <2>3, <3>1, <3>2
    <3>3. CASE k = serving
      <4>1. UserAndHost(users[serving]) \notin old.Banned
        BY <2>2, <2>5 DEF Entered, JoinResult
      <4> QED
        BY <3>1, <3>3, <4>1
    <3> QED
      BY <2>5, <3>2, <3>3 DEF Entered
  <2>6. ASSUME NEW gone, TakenOut(i, new, gone)
        PROVE  UserAndHost(users'[k]) \notin new.Banned
    <3>1. k \in old.Clients /\ k # gone
      BY <2>6 DEF TakenOut
    <3>2. UserAndHost(users'[k]) = UserAndHost(users[k])
          /\ UserAndHost(users[k]) \notin old.Banned
      BY <2>2, <2>3, <3>1
    <3>3. CASE new.Banned = old.Banned
      BY <3>2, <3>3
    <3>4. CASE /\ gone \in old.Clients
               /\ new.Banned = old.Banned \cup {UserAndHost(users[gone])}
      <4>1. users[k].Username # users[gone].Username
        BY <2>1, <3>1, <3>4 DEF NamesInv, UsernamesExclusive
      <4>2. UserAndHost(users[k]) # UserAndHost(users[gone])
        BY <4>1 DEF UserAndHost
      <4> QED
        BY <3>2, <3>4, <4>2
    <3> QED
      BY <2>6, <3>3, <3>4 DEF TakenOut
  <2> QED
    BY <1>2, <2>4, <2>5, <2>6, ChannelEffect
<1> QED
  BY <1>1, <1>2

\* Of peers that say Hello first, no member of a channel is banned from it.
THEOREM BansHold ==
  ASSUME HelloFirst
  PROVE  Spec => []NoMemberBanned
<1>1. Init => NoMemberBanned
  BY DEF Init, NoMemberBanned
<1>2. (ServerInv /\ NamesInv) /\ (ServerInv /\ NamesInv)' /\ NoMemberBanned
        /\ [Next]_vars => NoMemberBanned'
  BY BansStep
<1> QED
  BY <1>1, <1>2, NamesInvariant, PTL DEF Spec
-----------------------------------------------------------------------------
(***************************************************************************)
(* Who hears what.                                                         *)
(***************************************************************************)

\* An answer to a request is no notice.
LEMMA AnswerHeard ==
  ASSUME NEW c, NEW name, NEW result, NEW packets, Send(packets),
         NEW type \in {"JoinChannel_Complete", "LeaveChannel_Complete",
                       "SendMessage_Complete", "KickUser_Complete",
                       "BanUser_Complete"},
         packets = {Answer(c, type, result, name)}
  PROVE  NoticesHeard
  BY DEF Send, Answer, ChannelPacket, NoticesHeard, Heard

\* A notice of channel i reaches members other than the sender.
LEMMA NotifyHeard ==
  ASSUME NEW i \in DOMAIN channels, channels[i].Enabled, NEW c, NEW type,
         serving \notin channels[i].Clients \ {c},
         type = "SendMessage" => serving \in channels[i].Clients,
         NEW result, NEW who, NEW p \in Notify(i, c, type, result, who)
  PROVE  Heard(p)
<1>1. PICK k \in Audience(i, c) :
        p = ChannelPacket(k, type, result, channels[i].Name, {who})
  BY DEF Notify
<1>2. k \in channels[i].Clients /\ k # serving
  BY DEF Audience
<1>3. p.to = k /\ p.channel = channels[i].Name /\ p.type = type
  BY <1>1 DEF ChannelPacket
<1> QED
  BY <1>2, <1>3 DEF Heard

\* An answer and a notice.
LEMMA BothHeard ==
  ASSUME NEW i \in DOMAIN channels, channels[i].Enabled, NEW type,
         type = "SendMessage" => serving \in channels[i].Clients,
         NEW result, NEW who, NEW answer,
         answer.type \notin {"JoinChannel", "LeaveChannel", "SendMessage",
                             "KickUser", "BanUser"},
         Send({answer} \cup Notify(i, serving, type, result, who))
  PROVE  NoticesHeard
<1>1. \A p \in Notify(i, serving, type, result, who) : Heard(p)
  BY NotifyHeard
<1>2. Heard(answer)
  BY DEF Heard
<1> QED
  BY <1>1, <1>2 DEF Send, NoticesHeard
-----------------------------------------------------------------------------
LEMMA JoinHeard ==
  ASSUME ServerInv, serving \in clients, UNCHANGED <<clients, users>>,
         JoinChannel(serving)
  PROVE  NoticesHeard
<1> PICK name \in ChannelName, i \in 0..Len(channels) :
      /\ Finds(name, i)
      /\ \/ JoinRefused(serving, name, i)
         \/ ChannelCreated(serving, name, i)
         \/ ChannelJoined(serving, name, i)
  BY DEF JoinChannel
<1>1. CASE JoinRefused(serving, name, i)
  <2>1. CASE Refuse(serving, "JoinChannel_Complete",
                    JoinResult(serving, name, i), name)
    BY <2>1, AnswerHeard DEF Refuse
  <2>2. CASE Send({UserPacket(serving, "Identify_Complete",
                              JoinResult(serving, name, i), {})})
    BY <2>2 DEF Send, UserPacket, NoticesHeard, Heard
  <2> QED
    BY <1>1, <2>1, <2>2 DEF JoinRefused
<1>2. CASE ChannelCreated(serving, name, i)
  BY <1>2, AnswerHeard DEF ChannelCreated
<1>3. CASE ChannelJoined(serving, name, i)
  <2>1. i # 0
    BY <1>3 DEF ChannelJoined, JoinResult
  <2>2. i \in DOMAIN channels /\ channels[i].Enabled
    BY <2>1, FindsChannel
  <2> DEFINE others(keys) ==
               {UserAndHost(users[k]) : k \in Audience(i, serving) \cap keys}
             welcome == [Answer(serving, "JoinChannel_Complete", "Ok", name) EXCEPT
                           !.who = others(Client),
                           !.ops = others(channels[i].Operators),
                           !.bans = channels[i].Banned]
  <2>3. welcome.type = "JoinChannel_Complete"
    BY DEF Answer, ChannelPacket
  <2>4. Send({welcome} \cup Notify(i, serving, "JoinChannel", "UserJoined",
                                   UserAndHost(users[serving])))
    BY <1>3 DEF ChannelJoined
  <2> HIDE DEF welcome
  <2> QED
    BY <2>2, <2>3, <2>4, BothHeard
<1> QED
  BY <1>1, <1>2, <1>3

LEMMA LeaveHeard ==
  ASSUME ServerInv, serving \in clients, UNCHANGED <<clients, users>>,
         LeaveChannel(serving)
  PROVE  NoticesHeard
<1> PICK name \in ChannelName, i \in 0..Len(channels) :
      /\ Finds(name, i)
      /\ LeaveRefused(serving, name, i) \/ ChannelLeft(serving, name, i)
  BY DEF LeaveChannel
<1>1. CASE LeaveRefused(serving, name, i)
  BY <1>1, AnswerHeard DEF LeaveRefused, Refuse
<1>2. CASE ChannelLeft(serving, name, i)
  <2>1. i \in DOMAIN channels /\ channels[i].Enabled
    BY <1>2, MemberRequest DEF ChannelLeft
  <2> DEFINE answer == Answer(serving, "LeaveChannel_Complete", "Ok", name)
  <2>2. answer.type = "LeaveChannel_Complete"
    BY DEF Answer, ChannelPacket
  <2>3. Send({answer} \cup Notify(i, serving, "LeaveChannel", "UserLeft",
                                  UserAndHost(users[serving])))
    BY <1>2 DEF ChannelLeft
  <2> HIDE DEF answer
  <2> QED
    BY <2>1, <2>2, <2>3, BothHeard
<1> QED
  BY <1>1, <1>2

LEMMA MessageHeard ==
  ASSUME ServerInv, serving \in clients, UNCHANGED <<clients, users>>,
         SendChannelMessage(serving)
  PROVE  NoticesHeard
<1> PICK name \in ChannelName, i \in 0..Len(channels), text \in Text :
      /\ Finds(name, i)
      /\ \/ MessageRefused(serving, name, i, text)
         \/ ChannelMessage(serving, name, i, text)
  BY DEF SendChannelMessage
<1>1. CASE MessageRefused(serving, name, i, text)
  BY <1>1, AnswerHeard DEF MessageRefused, Refuse
<1>2. CASE ChannelMessage(serving, name, i, text)
  <2>1. MemberResult(serving, name, i) = "Ok"
    BY <1>2 DEF ChannelMessage, MessageResult
  <2>2. /\ i \in DOMAIN channels /\ channels[i].Enabled
        /\ serving \in channels[i].Clients
    BY <2>1, MemberRequest
  <2> DEFINE answer == Answer(serving, "SendMessage_Complete", "Ok", name)
  <2>3. answer.type = "SendMessage_Complete"
    BY DEF Answer, ChannelPacket
  <2>4. Send({answer} \cup Notify(i, serving, "SendMessage", "MessageSent",
                                  UserAndHost(users[serving])))
    BY <1>2 DEF ChannelMessage
  <2> HIDE DEF answer
  <2> QED
    BY <2>2, <2>3, <2>4, BothHeard
<1> QED
  BY <1>1, <1>2

LEMMA KickHeard ==
  ASSUME ServerInv, serving \in clients, UNCHANGED <<clients, users>>,
         KickUser(serving)
  PROVE  NoticesHeard
<1> PICK name \in ChannelName, i \in 0..Len(channels), target \in Username :
      /\ Finds(name, i)
      /\ \/ KickRefused(serving, name, i, target)
         \/ UserKicked(serving, name, i, target)
         \/ AbsentUserKicked(serving, name, i, target)
  BY DEF KickUser
<1>1. CASE KickRefused(serving, name, i, target)
  BY <1>1, AnswerHeard DEF KickRefused, Refuse
<1>2. CASE UserKicked(serving, name, i, target)
  <2>1. i \in DOMAIN channels /\ channels[i].Enabled
    BY <1>2, OperatorRequest DEF UserKicked, KickResult
  <2>2. PICK k \in Named(i, target) :
          Send({[Answer(serving, "KickUser_Complete", "Ok", name) EXCEPT
                   !.who = {UserAndHost(users[k])}]}
               \cup Notify(i, serving, "KickUser", "UserKicked",
                           UserAndHost(users[k])))
    BY <1>2 DEF UserKicked
  <2> DEFINE answer == [Answer(serving, "KickUser_Complete", "Ok", name) EXCEPT
                          !.who = {UserAndHost(users[k])}]
  <2>3. answer.type = "KickUser_Complete"
    BY DEF Answer, ChannelPacket
  <2>4. Send({answer} \cup Notify(i, serving, "KickUser", "UserKicked",
                                  UserAndHost(users[k])))
    BY <2>2
  <2> HIDE DEF answer
  <2> QED
    BY <2>1, <2>3, <2>4, BothHeard
<1>3. CASE AbsentUserKicked(serving, name, i, target)
  BY <1>3 DEF AbsentUserKicked, Silent, NoticesHeard
<1> QED
  BY <1>1, <1>2, <1>3

LEMMA BanHeard ==
  ASSUME ServerInv, serving \in clients, UNCHANGED <<clients, users>>,
         BanUser(serving)
  PROVE  NoticesHeard
<1> PICK name \in ChannelName, i \in 0..Len(channels), target \in Username :
      /\ Finds(name, i)
      /\ \/ BanRefused(serving, name, i, target)
         \/ UserBanned(serving, name, i, target)
  BY DEF BanUser
<1>1. CASE BanRefused(serving, name, i, target)
  BY <1>1, AnswerHeard DEF BanRefused, Refuse
<1>2. CASE UserBanned(serving, name, i, target)
  <2>1. i \in DOMAIN channels /\ channels[i].Enabled
    BY <1>2, OperatorRequest DEF UserBanned, BanResult
  <2>2. PICK k \in Named(i, target) :
          Send({[Answer(serving, "BanUser_Complete", "Ok", name) EXCEPT
                   !.who = {UserAndHost(users[k])}]}
               \cup Notify(i, serving, "BanUser", "UserBanned",
                           UserAndHost(users[k])))
    BY <1>2 DEF UserBanned
  <2> DEFINE answer == [Answer(serving, "BanUser_Complete", "Ok", name) EXCEPT
                          !.who = {UserAndHost(users[k])}]
  <2>3. answer.type = "BanUser_Complete"
    BY DEF Answer, ChannelPacket
  <2>4. Send({answer} \cup Notify(i, serving, "BanUser", "UserBanned",
                                  UserAndHost(users[k])))
    BY <2>2
  <2> HIDE DEF answer
  <2> QED
    BY <2>1, <2>3, <2>4, BothHeard
<1> QED
  BY <1>1, <1>2
-----------------------------------------------------------------------------
LEMMA DisconnectHeard ==
  ASSUME ServerInv, NEW c \in clients, OnClientDisconnected(c),
         serving \in {c, NoClient}
  PROVE  NoticesHeard
<1> SUFFICES ASSUME NEW p \in out' PROVE Heard(p)
  BY DEF NoticesHeard
<1>1. PICK i \in {j \in DOMAIN channels :
                    channels[j].Enabled /\ c \in channels[j].Clients} :
        p \in Notify(i, c, "LeaveChannel", "UserLeft", UserAndHost(users[c]))
  BY DEF OnClientDisconnected, OnMemberDisconnected, Send
<1>2. serving \notin channels[i].Clients \ {c}
  BY MemberType, NothingAssumption
<1> QED
  BY <1>1, <1>2, NotifyHeard

\* Packets of the UserComponent are no notices.
LEMMA UserPacketsHeard ==
  ASSUME NEW to1, NEW type1, NEW result1, NEW who1,
         NEW to2, NEW type2, NEW result2, NEW who2,
         \/ Send({UserPacket(to1, type1, result1, who1)})
         \/ Send({UserPacket(to1, type1, result1, who1),
                  UserPacket(to2, type2, result2, who2)})
  PROVE  NoticesHeard
  BY DEF Send, UserPacket, NoticesHeard, Heard

LEMMA StepHeard ==
  ASSUME ServerInv, Next
  PROVE  NoticesHeard
<1>1. CASE HandleChannelPacket
  <2>1. serving \in clients /\ UNCHANGED <<clients, users>>
    BY <1>1, NothingAssumption
    DEF HandleChannelPacket, Handled, Serving, ServerInv, Sessions
  <2> QED
    BY <1>1, <2>1, JoinHeard, LeaveHeard, MessageHeard, KickHeard, BanHeard
    DEF HandleChannelPacket
<1>2. CASE MalformedPacket \/ NothingHandled
  BY <1>2, DisconnectHeard, NothingAssumption
  DEF MalformedPacket, NothingHandled, Serving, ServerInv, Sessions
<1>3. CASE \E c \in Client : CloseConnection(c)
  BY <1>3, DisconnectHeard DEF CloseConnection, Idle
<1>4. CASE HandleHello
  BY <1>4 DEF HandleHello, Hello, Send, SystemPacket, NoticesHeard, Heard
<1>5. CASE HandleUserPacket
  <2>1. CASE Identify(serving)
    BY <2>1, UserPacketsHeard DEF Identify, IdentifyRefused, IdentifyAccepted
  <2>2. CASE SendUserMessage(serving)
    BY <2>2, UserPacketsHeard
    DEF SendUserMessage, UserMessageRefused, UserMessageSent
  <2> QED
    BY <1>5, <2>1, <2>2 DEF HandleUserPacket
<1>6. \/ \E c \in Client, host \in Host : OnClientConnected(c, host)
      \/ \E c \in Client : ReceiveChunk(c)
      \/ IgnoredPacket \/ EndOfChunk
      => NoticesHeard
  BY DEF OnClientConnected, ReceiveChunk, IgnoredPacket, EndOfChunk, Silent,
         NoticesHeard
<1> QED
  BY <1>1, <1>2, <1>3, <1>4, <1>5, <1>6 DEF Next

\* Notices go to members of the channel other than the one they are about,
\* and only a member speaks in a channel, for any peers.
THEOREM MembersAloneHear == Spec => OnlyMembersHear
<1>1. ServerInv /\ [Next]_vars => [NoticesHeard]_vars
  BY StepHeard
<1> QED
  BY <1>1, ServerInvariant, PTL DEF Spec, OnlyMembersHear
-----------------------------------------------------------------------------
(***************************************************************************)
(* Members are told of every change.  The loops that notify skip members   *)
(* that are not enabled: with peers that say Hello first there are none.   *)
(***************************************************************************)
LEMMA AudienceAll ==
  ASSUME ServerInv, HelloBeforeIdentify, NEW i \in DOMAIN channels, NEW sender
  PROVE  Audience(i, sender) = channels[i].Clients \ {sender}
<1>1. \A k \in channels[i].Clients :
        k \in Client /\ GetChatUser(k) /\ users[k].Identified
  BY MemberType DEF ServerInv, Sessions, SoundChannels, Sound, SoundChannel
<1> QED
  BY <1>1 DEF Audience, HelloBeforeIdentify

LEMMA NotifyTold ==
  ASSUME ServerInv, HelloBeforeIdentify, NEW i \in DOMAIN channels, NEW sender,
         NEW type, NEW result, NEW who, NEW packets, Send(packets),
         Notify(i, sender, type, result, who) \subseteq packets,
         NEW k \in channels[i].Clients \ {sender}
  PROVE  Told(k, i, who)
<1> DEFINE p == ChannelPacket(k, type, result, channels[i].Name, {who})
<1>1. p \in packets
  BY AudienceAll DEF Notify
<1>2. p.to = k /\ p.component = "Channel" /\ p.channel = channels[i].Name
      /\ p.who = {who}
  BY DEF ChannelPacket
<1>3. k \in clients
  BY MemberType
<1>4. p \in out'
  BY <1>1, <1>2, <1>3 DEF Send
<1> HIDE DEF p
<1> QED
  BY <1>2, <1>4 DEF Told

\* A packet that describes users tells them to its client.
LEMMA AnswerTold ==
  ASSUME NEW packets, Send(packets), NEW p \in packets, p.to \in clients,
         p.component = "Channel", NEW i, p.channel = channels[i].Name,
         NEW user \in p.who
  PROVE  Told(p.to, i, user)
  BY DEF Send, Told

\* The members of one channel change.
LEMMA ToldOne ==
  ASSUME ServerInv, NEW i \in DOMAIN channels, NEW channel,
         channels' = [channels EXCEPT ![i] = channel],
         \A c \in channels[i].Clients \ channel.Clients :
           /\ \A k \in channels[i].Clients \ {c} : Told(k, i, UserAndHost(users[c]))
           /\ \/ \E p \in out' : p.to = c /\ p.type = "LeaveChannel_Complete"
              \/ Told(c, i, UserAndHost(users[c])),
         \A c \in channel.Clients \ channels[i].Clients :
           \A k \in channels[i].Clients :
             /\ Told(k, i, UserAndHost(users[c]))
             /\ Told(c, i, UserAndHost(users[k]))
  PROVE  MembersTold
<1>1. channels'[i] = channel
  BY DEF ServerInv, SoundChannels, Sound
<1>2. \A j \in DOMAIN channels : j # i => channels'[j] = channels[j]
  BY DEF ServerInv, SoundChannels, Sound
<1> QED
  BY <1>1, <1>2 DEF MembersTold

LEMMA ToldNone ==
  ASSUME UNCHANGED channels
  PROVE  MembersTold
  BY DEF MembersTold

LEMMA JoinTold ==
  ASSUME ServerInv, HelloBeforeIdentify, serving \in clients,
         JoinChannel(serving)
  PROVE  MembersTold
<1> PICK name \in ChannelName, i \in 0..Len(channels) :
      /\ Finds(name, i)
      /\ \/ JoinRefused(serving, name, i)
         \/ ChannelCreated(serving, name, i)
         \/ ChannelJoined(serving, name, i)
  BY DEF JoinChannel
<1>1. CASE JoinRefused(serving, name, i)
  BY <1>1, ToldNone DEF JoinRefused, Refuse
<1>2. CASE ChannelCreated(serving, name, i)
  <2> DEFINE channel == [Enabled |-> TRUE, Name |-> name, Clients |-> {serving},
                         Operators |-> {serving}, Banned |-> {}]
  <2>1. channels' = Append(channels, channel)
    BY <1>2 DEF ChannelCreated
  <2>2. channels \in Seq(ChatChannel)
    BY DEF ServerInv, SoundChannels, Sound
  <2> HIDE DEF channel
  <2>3. \A j \in DOMAIN channels : channels'[j] = channels[j]
    BY <2>1, <2>2
  <2> QED
    BY <2>3 DEF MembersTold
<1>3. CASE ChannelJoined(serving, name, i)
  <2>1. i # 0
    BY <1>3 DEF ChannelJoined, JoinResult
  <2>2. i \in DOMAIN channels /\ channels[i].Name = name
    BY <2>1, FindsChannel
  <2>3. channels[i] \in ChatChannel
    BY <2>2 DEF ServerInv, SoundChannels, Sound, SoundChannel
  <2>4. serving \notin channels[i].Clients
    BY <1>3, <2>1 DEF ChannelJoined, JoinResult
  <2> DEFINE others(keys) ==
               {UserAndHost(users[k]) : k \in Audience(i, serving) \cap keys}
             welcome == [Answer(serving, "JoinChannel_Complete", "Ok", name) EXCEPT
                           !.who = others(Client),
                           !.ops = others(channels[i].Operators),
                           !.bans = channels[i].Banned]
             notices == Notify(i, serving, "JoinChannel", "UserJoined",
                               UserAndHost(users[serving]))
             channel == Joined(channels[i], serving)
  <2>5. /\ welcome.to = serving /\ welcome.component = "Channel"
        /\ welcome.channel = channels[i].Name /\ welcome.who = others(Client)
    BY <2>2 DEF Answer, ChannelPacket
  <2>6. Send({welcome} \cup notices)
    BY <1>3 DEF ChannelJoined
  <2>7. \A k \in channels[i].Clients : UserAndHost(users[k]) \in others(Client)
    BY <2>2, <2>4, AudienceAll, MemberType
  <2>8. channels' = [channels EXCEPT ![i] = channel]
    BY <1>3 DEF ChannelJoined
  <2>9. channel.Clients = channels[i].Clients \cup {serving}
    BY <2>3, JoinedFields
  <2> HIDE DEF welcome, notices, channel, others
  <2>10. \A k \in channels[i].Clients : Told(k, i, UserAndHost(users[serving]))
    <3> SUFFICES ASSUME NEW k \in channels[i].Clients
                 PROVE  Told(k, i, UserAndHost(users[serving]))
      OBVIOUS
    <3>1. Notify(i, serving, "JoinChannel", "UserJoined",
                 UserAndHost(users[serving])) \subseteq {welcome} \cup notices
      BY DEF notices
    <3> QED
      BY <2>2, <2>4, <2>6, <3>1, NotifyTold
  <2>11. \A k \in channels[i].Clients : Told(serving, i, UserAndHost(users[k]))
    BY <2>5, <2>6, <2>7, AnswerTold
  <2> QED
    BY <2>2, <2>4, <2>8, <2>9, <2>10, <2>11, ToldOne
<1> QED
  BY <1>1, <1>2, <1>3

LEMMA LeaveTold ==
  ASSUME ServerInv, HelloBeforeIdentify, serving \in clients,
         LeaveChannel(serving)
  PROVE  MembersTold
<1> PICK name \in ChannelName, i \in 0..Len(channels) :
      /\ Finds(name, i)
      /\ LeaveRefused(serving, name, i) \/ ChannelLeft(serving, name, i)
  BY DEF LeaveChannel
<1>1. CASE LeaveRefused(serving, name, i)
  BY <1>1, ToldNone DEF LeaveRefused, Refuse
<1>2. CASE ChannelLeft(serving, name, i)
  <2>1. /\ i \in DOMAIN channels
        /\ channels[i] \in ChatChannel
    BY <1>2, MemberRequest DEF ChannelLeft, SoundChannel
  <2> DEFINE answer == Answer(serving, "LeaveChannel_Complete", "Ok", name)
             notices == Notify(i, serving, "LeaveChannel", "UserLeft",
                               UserAndHost(users[serving]))
             channel == Left(channels[i], serving)
  <2>2. answer.to = serving /\ answer.type = "LeaveChannel_Complete"
    BY DEF Answer, ChannelPacket
  <2>3. Send({answer} \cup notices)
    BY <1>2 DEF ChannelLeft
  <2>4. channels' = [channels EXCEPT ![i] = channel]
    BY <1>2 DEF ChannelLeft
  <2>5. channel.Clients = channels[i].Clients \ {serving}
    BY <2>1, LeftFields
  <2> HIDE DEF answer, notices, channel
  <2>6. ASSUME NEW k \in channels[i].Clients \ {serving}
        PROVE  Told(k, i, UserAndHost(users[serving]))
    <3>1. Notify(i, serving, "LeaveChannel", "UserLeft",
                 UserAndHost(users[serving])) \subseteq {answer} \cup notices
      BY DEF notices
    <3> QED
      BY <2>1, <2>3, <3>1, NotifyTold
  <2>7. \E p \in out' : p.to = serving /\ p.type = "LeaveChannel_Complete"
    BY <2>2, <2>3 DEF Send
  <2> QED
    BY <2>1, <2>4, <2>5, <2>6, <2>7, ToldOne
<1> QED
  BY <1>1, <1>2

\* A kick or a ban of k by the sender, who is told in the answer.
LEMMA RemovalTold ==
  ASSUME ServerInv, HelloBeforeIdentify, serving \in clients,
         NEW i \in DOMAIN channels, NEW k \in channels[i].Clients \ {serving},
         NEW type, NEW result, NEW answer,
         answer.to = serving, answer.component = "Channel",
         answer.channel = channels[i].Name,
         UserAndHost(users[k]) \in answer.who,
         Send({answer} \cup Notify(i, serving, type, result, UserAndHost(users[k]))),
         NEW channel, channels' = [channels EXCEPT ![i] = channel],
         channel.Clients = channels[i].Clients \ {k}
  PROVE  MembersTold
<1> DEFINE notices == Notify(i, serving, type, result, UserAndHost(users[k]))
           packets == {answer} \cup notices
<1>1. /\ notices \subseteq packets
      /\ answer \in packets
  OBVIOUS
<1>2. Send(packets)
  OBVIOUS
<1> HIDE DEF packets
<1>3. ASSUME NEW m \in channels[i].Clients \ {serving}
      PROVE  Told(m, i, UserAndHost(users[k]))
  BY <1>1, <1>2, NotifyTold
<1>4. Told(serving, i, UserAndHost(users[k]))
  <2> HIDE DEF notices
  <2> QED
    BY <1>1, <1>2, AnswerTold
<1>5. \A m \in channels[i].Clients : Told(m, i, UserAndHost(users[k]))
  BY <1>3, <1>4
<1> QED
  BY <1>5, ToldOne

LEMMA KickTold ==
  ASSUME ServerInv, HelloBeforeIdentify, serving \in clients, KickUser(serving)
  PROVE  MembersTold
<1> PICK name \in ChannelName, i \in 0..Len(channels), target \in Username :
      /\ Finds(name, i)
      /\ \/ KickRefused(serving, name, i, target)
         \/ UserKicked(serving, name, i, target)
         \/ AbsentUserKicked(serving, name, i, target)
  BY DEF KickUser
<1>1. CASE KickRefused(serving, name, i, target)
  BY <1>1, ToldNone DEF KickRefused, Refuse
<1>2. CASE UserKicked(serving, name, i, target)
  <2>1. OperatorResult(serving, name, i, target, "CannotKickSelf") = "Ok"
    BY <1>2 DEF UserKicked, KickResult
  <2>2. PICK k \in Named(i, target) :
          /\ Send({[Answer(serving, "KickUser_Complete", "Ok", name) EXCEPT
                      !.who = {UserAndHost(users[k])}]}
                  \cup Notify(i, serving, "KickUser", "UserKicked",
                              UserAndHost(users[k])))
          /\ channels' = [channels EXCEPT ![i] = Removed(channels[i], k)]
    BY <1>2 DEF UserKicked
  <2>3. /\ i \in DOMAIN channels
        /\ k \in channels[i].Clients \ {serving}
        /\ channels[i] \in ChatChannel
    BY <2>1, OperatorRequest DEF SoundChannel
  <2>4. channels[i].Name = name
    BY <2>3, FindsChannel DEF ServerInv, SoundChannels, Sound
  <2> DEFINE answer == [Answer(serving, "KickUser_Complete", "Ok", name) EXCEPT
                          !.who = {UserAndHost(users[k])}]
             channel == Removed(channels[i], k)
  <2>5. /\ answer.to = serving /\ answer.component = "Channel"
        /\ answer.channel = channels[i].Name
        /\ UserAndHost(users[k]) \in answer.who
    BY <2>4 DEF Answer, ChannelPacket
  <2>6. channel.Clients = channels[i].Clients \ {k}
    BY <2>3, RemovedFields
  <2>7. /\ Send({answer} \cup Notify(i, serving, "KickUser", "UserKicked",
                                    UserAndHost(users[k])))
        /\ channels' = [channels EXCEPT ![i] = channel]
    BY <2>2
  <2> HIDE DEF answer, channel
  <2> QED
    BY <2>3, <2>5, <2>6, <2>7, RemovalTold
<1>3. CASE AbsentUserKicked(serving, name, i, target)
  BY <1>3, ToldNone DEF AbsentUserKicked
<1> QED
  BY <1>1, <1>2, <1>3

LEMMA BanTold ==
  ASSUME ServerInv, HelloBeforeIdentify, serving \in clients, BanUser(serving)
  PROVE  MembersTold
<1> PICK name \in ChannelName, i \in 0..Len(channels), target \in Username :
      /\ Finds(name, i)
      /\ \/ BanRefused(serving, name, i, target)
         \/ UserBanned(serving, name, i, target)
  BY DEF BanUser
<1>1. CASE BanRefused(serving, name, i, target)
  BY <1>1, ToldNone DEF BanRefused, Refuse
<1>2. CASE UserBanned(serving, name, i, target)
  <2>1. OperatorResult(serving, name, i, target, "CannotBanSelf") = "Ok"
    BY <1>2 DEF UserBanned, BanResult
  <2>2. PICK k \in Named(i, target) :
          /\ Send({[Answer(serving, "BanUser_Complete", "Ok", name) EXCEPT
                      !.who = {UserAndHost(users[k])}]}
                  \cup Notify(i, serving, "BanUser", "UserBanned",
                              UserAndHost(users[k])))
          /\ channels' = [channels EXCEPT
               ![i] = Ban(channels[i], k, UserAndHost(users[k]))]
    BY <1>2 DEF UserBanned
  <2>3. /\ i \in DOMAIN channels
        /\ k \in channels[i].Clients \ {serving}
        /\ channels[i] \in ChatChannel
    BY <2>1, OperatorRequest DEF SoundChannel
  <2>4. channels[i].Name = name
    BY <2>3, FindsChannel DEF ServerInv, SoundChannels, Sound
  <2> DEFINE answer == [Answer(serving, "BanUser_Complete", "Ok", name) EXCEPT
                          !.who = {UserAndHost(users[k])}]
             channel == Ban(channels[i], k, UserAndHost(users[k]))
  <2>5. /\ answer.to = serving /\ answer.component = "Channel"
        /\ answer.channel = channels[i].Name
        /\ UserAndHost(users[k]) \in answer.who
    BY <2>4 DEF Answer, ChannelPacket
  <2>6. channel.Clients = channels[i].Clients \ {k}
    BY <2>3, BanFields
  <2>7. /\ Send({answer} \cup Notify(i, serving, "BanUser", "UserBanned",
                                    UserAndHost(users[k])))
        /\ channels' = [channels EXCEPT ![i] = channel]
    BY <2>2
  <2> HIDE DEF answer, channel
  <2> QED
    BY <2>3, <2>5, <2>6, <2>7, RemovalTold
<1> QED
  BY <1>1, <1>2

LEMMA DisconnectTold ==
  ASSUME ServerInv, HelloBeforeIdentify, NEW c \in clients,
         OnClientDisconnected(c)
  PROVE  MembersTold
<1>1. c \notin clients'
  BY DEF OnClientDisconnected
<1> DEFINE left == {j \in DOMAIN channels :
                      channels[j].Enabled /\ c \in channels[j].Clients}
           packets == UNION {Notify(i, c, "LeaveChannel", "UserLeft",
                                    UserAndHost(users[c])) : i \in left}
<1>2. Send(packets)
  BY DEF OnClientDisconnected, OnMemberDisconnected
<1>3. \A i \in DOMAIN channels :
        channels'[i].Clients = channels[i].Clients \ {c}
  BY WithoutClientFields
  DEF OnClientDisconnected, OnMemberDisconnected, ServerInv, SoundChannels,
      Sound, SoundChannel
<1>4. ASSUME NEW i \in DOMAIN channels, c \in channels[i].Clients,
             NEW k \in channels[i].Clients \ {c}
      PROVE  Told(k, i, UserAndHost(users[c]))
  <2>1. channels[i].Enabled
    BY <1>4 DEF ServerInv, SoundChannels, Sound, SoundChannel
  <2>2. Notify(i, c, "LeaveChannel", "UserLeft", UserAndHost(users[c]))
          \subseteq packets
    BY <1>4, <2>1
  <2> HIDE DEF packets
  <2> QED
    BY <1>2, <2>2, NotifyTold
<1> HIDE DEF packets
<1> QED
  BY <1>1, <1>3, <1>4 DEF MembersTold

LEMMA StepTold ==
  ASSUME ServerInv, HelloBeforeIdentify, [Next]_vars
  PROVE  MembersTold
<1>1. CASE HandleChannelPacket
  <2>1. serving \in clients
    BY <1>1, NothingAssumption
    DEF HandleChannelPacket, Handled, Serving, ServerInv, Sessions
  <2>2. CASE SendChannelMessage(serving)
    <3>1. UNCHANGED channels
      BY <2>2 DEF SendChannelMessage, MessageRefused, Refuse, ChannelMessage
    <3> QED
      BY <3>1, ToldNone
  <2> QED
    BY <1>1, <2>1, <2>2, JoinTold, LeaveTold, KickTold, BanTold
    DEF HandleChannelPacket
<1>2. MalformedPacket \/ NothingHandled \/ (\E c \in Client : CloseConnection(c))
        => \E c \in clients : OnClientDisconnected(c)
  BY NothingAssumption
  DEF MalformedPacket, NothingHandled, CloseConnection, Serving, ServerInv,
      Sessions
<1>3. \/ \E c \in Client, host \in Host : OnClientConnected(c, host)
      \/ \E c \in Client : ReceiveChunk(c)
      \/ HandleHello \/ HandleUserPacket \/ IgnoredPacket \/ EndOfChunk
      \/ UNCHANGED vars
      => UNCHANGED channels
  BY DEF OnClientConnected, ReceiveChunk, HandleHello, HandleUserPacket,
         IgnoredPacket, EndOfChunk, vars
<1> QED
  BY <1>1, <1>2, <1>3, DisconnectTold, ToldNone DEF Next

\* Of peers that say Hello first, whoever is in a channel is told of everyone
\* who enters, leaves, is removed or disconnects, and who enters of who is
\* there.
THEOREM MembersAlwaysInformed ==
  ASSUME HelloFirst
  PROVE  Spec => MembersInformed
<1>1. ServerInv /\ NamesInv /\ [Next]_vars => [MembersTold]_vars
  BY StepTold DEF NamesInv
<1> QED
  BY <1>1, NamesInvariant, PTL DEF Spec, MembersInformed
=============================================================================
