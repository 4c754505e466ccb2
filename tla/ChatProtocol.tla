---------------------------- MODULE ChatProtocol ----------------------------
(***************************************************************************)
(* What the two ends of a jChatSystem connection agree on: the texts that  *)
(* travel in packets, the ChatUser record, and the packets that the server *)
(* sends (jchat_common/).  Texts are members of sets; the classes that the *)
(* handlers test for are subsets of them.                                  *)
(***************************************************************************)
EXTENDS Naturals, FiniteSets, Sequences

CONSTANTS
  Client,           \* the addresses a RemoteChatClient is allocated at
  NoClient,         \* no RemoteChatClient
  Host,             \* peer addresses (IPEndpoint::GetAddressString)
  HashedHost,       \* texts that Utility::HashString returns
  HashString,       \* the hash, as a function
  Username,         \* texts a packet carries where a user name is expected
  BadUsername,      \* ... that are empty or contain a '#'
  LongUsername,     \* ... longer than JCHAT_CHAT_USERNAME_LENGTH
  Guest,            \* any guest-NNNNNN name given on connection
  ChannelName,      \* texts a packet carries where a channel is expected
  BadChannelName,   \* ... that are empty or do not begin with a '#'
  LongChannelName,  \* ... longer than JCHAT_CHAT_CHANNEL_NAME_LENGTH
  NoChannel,        \* the packet names no channel
  Spells            \* <<u, <<v, h>>>>: the text u is the text v@h

(***************************************************************************)
(* username@hostname.  A hash is hexadecimal text, so the last '@' splits  *)
(* it again: the pair stands for the text without loss.                    *)
(***************************************************************************)
HostInfo == Username \X HashedHost

ASSUME NamesAssumption ==
  /\ BadUsername \subseteq Username
  /\ LongUsername \subseteq Username
  /\ BadChannelName \subseteq ChannelName
  /\ LongChannelName \subseteq ChannelName
  /\ Guest \notin Username
  /\ Spells \subseteq Username \X HostInfo

ASSUME HashAssumption == HashString \in [Host -> HashedHost]

ASSUME NothingAssumption ==
  /\ NoClient \notin Client
  /\ NoChannel \notin ChannelName

\* What the handlers tell apart in the text of a message.
Text == {"empty", "fits", "too long"}

(***************************************************************************)
(* A ChatUser carries a guest name and the address of its peer until it    *)
(* identifies, a name of its choice and the hashed address from then on.   *)
(***************************************************************************)
GuestUser ==
  [Enabled : BOOLEAN, Identified : {FALSE}, Username : {Guest}, Hostname : Host]

IdentifiedUser ==
  [Enabled : BOOLEAN, Identified : {TRUE},
   Username : Username \ (BadUsername \cup LongUsername), Hostname : HashedHost]

ChatUser == GuestUser \cup IdentifiedUser

UserAndHost(user) == <<user.Username, user.Hostname>>

(***************************************************************************)
(* A packet to a client: the component and type of its header and, of its  *)
(* body, the result, the channel, the users it describes (as HostInfo),    *)
(* which of those it marks as operators, and the bans it lists.            *)
(***************************************************************************)
SystemPacket(to, type, result) ==
  [to |-> to, component |-> "System", type |-> type, result |-> result,
   channel |-> NoChannel, who |-> {}, ops |-> {}, bans |-> {}]

UserPacket(to, type, result, who) ==
  [to |-> to, component |-> "User", type |-> type, result |-> result,
   channel |-> NoChannel, who |-> who, ops |-> {}, bans |-> {}]

ChannelPacket(to, type, result, channel, who) ==
  [to |-> to, component |-> "Channel", type |-> type, result |-> result,
   channel |-> channel, who |-> who, ops |-> {}, bans |-> {}]

PacketType ==
  {"Hello_Complete", "Identify_Complete", "JoinChannel",
   "JoinChannel_Complete", "LeaveChannel", "LeaveChannel_Complete",
   "SendMessage", "SendMessage_Complete", "KickUser", "KickUser_Complete",
   "BanUser", "BanUser_Complete"}

\* The results that the server sends, of those the three enumerations have.
Result ==
  {"Ok", "NotIdentified", "InvalidChannelName", "InvalidUsername",
   "NotInChannel", "NotPermitted", "ChannelCreated", "ChannelNameTooLong",
   "AlreadyInChannel", "BannedFromChannel", "UserJoined", "UserLeft",
   "InvalidMessage", "MessageTooLong", "MessageSent", "CannotKickSelf",
   "UserKicked", "AlreadyBanned", "CannotBanSelf", "UserBanned",
   "UsernameTooLong", "UsernameInUse", "AlreadyIdentified",
   "CannotMessageSelf"}

Packet ==
  [to : Client, component : {"System", "User", "Channel"}, type : PacketType,
   result : Result, channel : ChannelName \cup {NoChannel},
   who : SUBSET HostInfo, ops : SUBSET HostInfo, bans : SUBSET HostInfo]
=============================================================================
