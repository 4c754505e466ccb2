-------------------------- MODULE ChannelComponent --------------------------
(***************************************************************************)
(* The server's ChannelComponent: channels, their members and operators,   *)
(* their ban lists, and the packets that keep the members informed.        *)
(*                                                                         *)
(* Clients and Operators map a RemoteChatClient to its ChatUser; the entry *)
(* is the one of users_, so only the keys are state.  BannedUsers is a     *)
(* vector that is only searched and sent: a set.  OpUser, DeopUser and     *)
(* UnbanUser are not implemented (IgnoredPacket in ChatServer).            *)
(***************************************************************************)
EXTENDS UserComponent

CONSTANT MaxChannels  \* bound on the length of channels_, which never shrinks
ASSUME MaxChannelsAssumption == MaxChannels \in Nat

VARIABLES
  channels,  \* channels_
  crashed    \* the process died on a null ChatUser

ChatChannel ==
  [Enabled : BOOLEAN, Name : ChannelName, Clients : SUBSET Client,
   Operators : SUBSET Client, Banned : SUBSET HostInfo]

\* Mutant of Matching: the lookup does not skip disabled channels.
MatchingDisabled(name) == {i \in DOMAIN channels : channels[i].Name = name}

Matching(name) ==
  {i \in DOMAIN channels : channels[i].Enabled /\ channels[i].Name = name}

\* Mutant of Finds: the loop starts at the second entry.
FindsPastFirst(name, i) ==
  LET rest == Matching(name) \ {1}
  IN IF rest = {} THEN i = 0 ELSE i \in rest /\ \A j \in rest : i <= j

\* The lookup loop: i is the first enabled channel of that name, 0 if none.
Finds(name, i) ==
  IF Matching(name) = {} THEN i = 0
  ELSE i \in Matching(name) /\ \A j \in Matching(name) : i <= j

\* The members that a notification loop reaches.
Audience(i, sender) ==
  {k \in channels[i].Clients \ {sender} : GetChatUser(k) /\ users[k].Enabled}

Notify(i, sender, type, result, who) ==
  {ChannelPacket(k, type, result, channels[i].Name, {who}) :
     k \in Audience(i, sender)}

Answer(c, type, result, name) == ChannelPacket(c, type, result, name, {})

Refuse(c, type, result, name) ==
  /\ Send({Answer(c, type, result, name)})
  /\ UNCHANGED <<channels, crashed>>
-----------------------------------------------------------------------------
\* Mutant of JoinResult: the ban list is not searched.
JoinResultUnbanned(c, name, i) ==
  IF ~users[c].Identified THEN "NotIdentified"
  ELSE IF name \in BadChannelName THEN "InvalidChannelName"
  ELSE IF i = 0
       THEN IF name \in LongChannelName THEN "ChannelNameTooLong"
            ELSE "ChannelCreated"
  ELSE IF c \in channels[i].Clients THEN "AlreadyInChannel"
  ELSE "Ok"

JoinResult(c, name, i) ==
  IF ~users[c].Identified THEN "NotIdentified"
  ELSE IF name \in BadChannelName THEN "InvalidChannelName"
  ELSE IF i = 0
       THEN IF name \in LongChannelName THEN "ChannelNameTooLong"
            ELSE "ChannelCreated"
  ELSE IF c \in channels[i].Clients THEN "AlreadyInChannel"
  ELSE IF UserAndHost(users[c]) \in channels[i].Banned
       THEN "BannedFromChannel"
  ELSE "Ok"

\* The refusal of a long name goes out under the User component, where the
\* type of JoinChannel_Complete reads as Identify_Complete.
JoinRefused(c, name, i) ==
  LET result == JoinResult(c, name, i) IN
  /\ result \notin {"ChannelCreated", "Ok"}
  /\ IF result = "ChannelNameTooLong"
     THEN /\ Send({UserPacket(c, "Identify_Complete", result, {})})
          /\ UNCHANGED <<channels, crashed>>
     ELSE Refuse(c, "JoinChannel_Complete", result, name)

ChannelCreated(c, name, i) ==
  /\ JoinResult(c, name, i) = "ChannelCreated"
  /\ Len(channels) < MaxChannels
  /\ channels' = Append(channels,
       [Enabled |-> TRUE, Name |-> name, Clients |-> {c}, Operators |-> {c},
        Banned |-> {}])
  /\ Send({Answer(c, "JoinChannel_Complete", "ChannelCreated", name)})
  /\ UNCHANGED crashed

Joined(channel, c) == [channel EXCEPT !.Clients = @ \cup {c}]

\* The answer lists the other enabled members, the operators among them and
\* the bans.
ChannelJoined(c, name, i) ==
  LET others(keys) == {UserAndHost(users[k]) : k \in Audience(i, c) \cap keys}
      welcome == [Answer(c, "JoinChannel_Complete", "Ok", name) EXCEPT
                    !.who = others(Client),
                    !.ops = others(channels[i].Operators),
                    !.bans = channels[i].Banned]
  IN /\ JoinResult(c, name, i) = "Ok"
     /\ channels' = [channels EXCEPT ![i] = Joined(@, c)]
     /\ Send({welcome} \cup Notify(i, c, "JoinChannel", "UserJoined",
                                   UserAndHost(users[c])))
     /\ UNCHANGED crashed

JoinChannel(c) ==
  /\ GetChatUser(c)
  /\ \E name \in ChannelName, i \in 0..Len(channels) :
       /\ Finds(name, i)
       /\ \/ JoinRefused(c, name, i)
          \/ ChannelCreated(c, name, i)
          \/ ChannelJoined(c, name, i)
-----------------------------------------------------------------------------
\* What every other request checks first, in this order.
MemberResult(c, name, i) ==
  IF ~users[c].Identified THEN "NotIdentified"
  ELSE IF name \in BadChannelName \/ i = 0 THEN "InvalidChannelName"
  ELSE IF c \notin channels[i].Clients THEN "NotInChannel"
  ELSE "Ok"

\* Mutant of Removed: the operator's entry stays.
RemovedFromClients(channel, k) == [channel EXCEPT !.Clients = @ \ {k}]

\* The entries for a client in both maps of a channel are erased.
Removed(channel, k) ==
  [channel EXCEPT !.Clients = @ \ {k}, !.Operators = @ \ {k}]

\* Mutant of Left: the last member leaves an enabled channel behind.
LeftOpen(channel, c) == Removed(channel, c)

\* A channel that its last member leaves is disabled.
Left(channel, c) ==
  [Removed(channel, c) EXCEPT !.Enabled = channel.Clients # {c}]

LeaveRefused(c, name, i) ==
  /\ MemberResult(c, name, i) # "Ok"
  /\ Refuse(c, "LeaveChannel_Complete", MemberResult(c, name, i), name)

ChannelLeft(c, name, i) ==
  /\ MemberResult(c, name, i) = "Ok"
  /\ channels' = [channels EXCEPT ![i] = Left(@, c)]
  /\ Send({Answer(c, "LeaveChannel_Complete", "Ok", name)}
          \cup Notify(i, c, "LeaveChannel", "UserLeft",
                      UserAndHost(users[c])))
  /\ UNCHANGED crashed

LeaveChannel(c) ==
  /\ GetChatUser(c)
  /\ \E name \in ChannelName, i \in 0..Len(channels) :
       /\ Finds(name, i)
       /\ LeaveRefused(c, name, i) \/ ChannelLeft(c, name, i)
-----------------------------------------------------------------------------
\* Mutant of MessageResult: whoever identified may speak.
MessageResultAnyone(c, name, i, text) ==
  IF ~users[c].Identified THEN "NotIdentified"
  ELSE IF name \in BadChannelName \/ i = 0 THEN "InvalidChannelName"
  ELSE IF text = "empty" THEN "InvalidMessage"
  ELSE IF text = "too long" THEN "MessageTooLong"
  ELSE "Ok"

MessageResult(c, name, i, text) ==
  IF ~users[c].Identified THEN "NotIdentified"
  ELSE IF name \in BadChannelName THEN "InvalidChannelName"
  ELSE IF text = "empty" THEN "InvalidMessage"
  ELSE IF text = "too long" THEN "MessageTooLong"
  ELSE MemberResult(c, name, i)

MessageRefused(c, name, i, text) ==
  /\ MessageResult(c, name, i, text) # "Ok"
  /\ Refuse(c, "SendMessage_Complete", MessageResult(c, name, i, text), name)

ChannelMessage(c, name, i, text) ==
  /\ MessageResult(c, name, i, text) = "Ok"
  /\ Send({Answer(c, "SendMessage_Complete", "Ok", name)}
          \cup Notify(i, c, "SendMessage", "MessageSent",
                      UserAndHost(users[c])))
  /\ UNCHANGED <<channels, crashed>>

SendChannelMessage(c) ==
  /\ GetChatUser(c)
  /\ \E name \in ChannelName, i \in 0..Len(channels), text \in Text :
       /\ Finds(name, i)
       /\ MessageRefused(c, name, i, text) \/ ChannelMessage(c, name, i, text)
-----------------------------------------------------------------------------
Named(i, target) == {k \in channels[i].Clients : users[k].Username = target}

\* Mutant of OperatorResult: every member has an operator's rights.
OperatorResultMember(c, name, i, target, self) ==
  IF ~users[c].Identified THEN "NotIdentified"
  ELSE IF name \in BadChannelName THEN "InvalidChannelName"
  ELSE IF target \in BadUsername THEN "InvalidUsername"
  ELSE IF MemberResult(c, name, i) # "Ok" THEN MemberResult(c, name, i)
  ELSE IF target = users[c].Username THEN self
  ELSE "Ok"

\* What KickUser and BanUser check before they look for the target.
OperatorResult(c, name, i, target, self) ==
  IF ~users[c].Identified THEN "NotIdentified"
  ELSE IF name \in BadChannelName THEN "InvalidChannelName"
  ELSE IF target \in BadUsername THEN "InvalidUsername"
  ELSE IF MemberResult(c, name, i) # "Ok" THEN MemberResult(c, name, i)
  ELSE IF c \notin channels[i].Operators THEN "NotPermitted"
  ELSE IF target = users[c].Username THEN self
  ELSE "Ok"

KickResult(c, name, i, target) ==
  OperatorResult(c, name, i, target, "CannotKickSelf")

KickRefused(c, name, i, target) ==
  /\ KickResult(c, name, i, target) # "Ok"
  /\ Refuse(c, "KickUser_Complete", KickResult(c, name, i, target), name)

\* Mutant of UserKicked: the target is removed before the members are told.
UserKickedUntold(c, name, i, target) ==
  /\ KickResult(c, name, i, target) = "Ok"
  /\ \E k \in Named(i, target) :
       /\ Send({[Answer(c, "KickUser_Complete", "Ok", name) EXCEPT
                   !.who = {UserAndHost(users[k])}]}
               \cup {p \in Notify(i, c, "KickUser", "UserKicked",
                                  UserAndHost(users[k])) : p.to # k})
       /\ channels' = [channels EXCEPT ![i] = Removed(@, k)]
  /\ UNCHANGED crashed

\* The loop stops at the first member of that name in pointer order: any.
UserKicked(c, name, i, target) ==
  /\ KickResult(c, name, i, target) = "Ok"
  /\ \E k \in Named(i, target) :
       /\ Send({[Answer(c, "KickUser_Complete", "Ok", name) EXCEPT
                   !.who = {UserAndHost(users[k])}]}
               \cup Notify(i, c, "KickUser", "UserKicked",
                           UserAndHost(users[k])))
       /\ channels' = [channels EXCEPT ![i] = Removed(@, k)]
  /\ UNCHANGED crashed

\* Nobody of that name is in the channel: kick_user is null, and its
\* Username is read.
AbsentUserKicked(c, name, i, target) ==
  /\ KickResult(c, name, i, target) = "Ok"
  /\ Named(i, target) = {}
  /\ crashed' = TRUE
  /\ Silent
  /\ UNCHANGED channels

KickUser(c) ==
  /\ GetChatUser(c)
  /\ \E name \in ChannelName, i \in 0..Len(channels), target \in Username :
       /\ Finds(name, i)
       /\ \/ KickRefused(c, name, i, target)
          \/ UserKicked(c, name, i, target)
          \/ AbsentUserKicked(c, name, i, target)
-----------------------------------------------------------------------------
\* The search of the ban list compares its username@hostname entries with
\* the bare name of the target.
AlreadyBanned(i, target) ==
  \E banned \in channels[i].Banned : <<target, banned>> \in Spells

BanResult(c, name, i, target) ==
  LET result == OperatorResult(c, name, i, target, "CannotBanSelf") IN
  IF result # "Ok" THEN result
  ELSE IF Named(i, target) = {} THEN "InvalidUsername"
  ELSE IF AlreadyBanned(i, target) THEN "AlreadyBanned"
  ELSE "Ok"

BanRefused(c, name, i, target) ==
  /\ BanResult(c, name, i, target) # "Ok"
  /\ Refuse(c, "BanUser_Complete", BanResult(c, name, i, target), name)

\* Mutant of Ban: the banned user stays in the channel.
BanOnly(channel, k, banned) == [channel EXCEPT !.Banned = @ \cup {banned}]

Ban(channel, k, banned) ==
  [Removed(channel, k) EXCEPT !.Banned = @ \cup {banned}]

UserBanned(c, name, i, target) ==
  /\ BanResult(c, name, i, target) = "Ok"
  /\ \E k \in Named(i, target) :
       LET banned == UserAndHost(users[k]) IN
       /\ Send({[Answer(c, "BanUser_Complete", "Ok", name) EXCEPT
                   !.who = {banned}]}
               \cup Notify(i, c, "BanUser", "UserBanned", banned))
       /\ channels' = [channels EXCEPT ![i] = Ban(@, k, banned)]
  /\ UNCHANGED crashed

BanUser(c) ==
  /\ GetChatUser(c)
  /\ \E name \in ChannelName, i \in 0..Len(channels), target \in Username :
       /\ Finds(name, i)
       /\ BanRefused(c, name, i, target) \/ UserBanned(c, name, i, target)
-----------------------------------------------------------------------------
\* Mutant of WithoutClient: the operator's entry outlives its connection.
WithoutMember(channel, c) ==
  IF ~channel.Enabled THEN channel
  ELSE IF channel.Clients = {c}
       THEN [channel EXCEPT !.Clients = {}, !.Operators = {}, !.Enabled = FALSE]
       ELSE [channel EXCEPT !.Clients = @ \ {c}]

WithoutClient(channel, c) ==
  IF ~channel.Enabled THEN channel
  ELSE IF channel.Clients = {c}
       THEN [channel EXCEPT !.Clients = {}, !.Operators = {}, !.Enabled = FALSE]
       ELSE Removed(channel, c)

\* The first channel that c is in, for the mutants below.
FirstOf(c) ==
  LET inside == {i \in DOMAIN channels : c \in channels[i].Clients}
  IN {i \in inside : \A j \in inside : i <= j}

\* Mutant of OnMemberDisconnected: the loop ends behind the first channel.
OnMemberDisconnectedOnce(c) ==
  /\ Send(UNION {Notify(i, c, "LeaveChannel", "UserLeft",
                        UserAndHost(users[c])) : i \in FirstOf(c)})
  /\ channels' = [i \in DOMAIN channels |->
                    IF i \in FirstOf(c) THEN WithoutClient(channels[i], c)
                    ELSE channels[i]]
  /\ UNCHANGED crashed

\* Mutant of OnMemberDisconnected: the members of one channel are told only.
OnMemberDisconnectedQuietly(c) ==
  /\ Send(UNION {Notify(i, c, "LeaveChannel", "UserLeft",
                        UserAndHost(users[c])) : i \in FirstOf(c)})
  /\ channels' = [i \in DOMAIN channels |-> WithoutClient(channels[i], c)]
  /\ UNCHANGED crashed

OnMemberDisconnected(c) ==
  /\ Send(UNION {Notify(i, c, "LeaveChannel", "UserLeft",
                        UserAndHost(users[c])) :
                   i \in {j \in DOMAIN channels :
                            channels[j].Enabled /\ c \in channels[j].Clients}})
  /\ channels' = [i \in DOMAIN channels |-> WithoutClient(channels[i], c)]
  /\ UNCHANGED crashed
=============================================================================
