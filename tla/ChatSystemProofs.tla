--------------------------- MODULE ChatSystemProofs ---------------------------
(***************************************************************************)
(* ChatServer and its clients: what the server sends is handled, and what  *)
(* a client knows of itself and of its channels is what the server has,    *)
(* once it has read what is under way to it.  For every value of the       *)
(* constants.                                                              *)
(***************************************************************************)
EXTENDS ChatSystem, ChatServerProofs, ClientViewProofs

(***************************************************************************)
(* The packets of a step.  A packet fits when a client handles it and when *)
(* a message in a channel names who sent it.                               *)
(***************************************************************************)
Fit(p) ==
  /\ p \in GoodPacket
  /\ p.component = "Channel" /\ p.type = "SendMessage" =>
       p.who = {UserAndHost(users[serving])}

AllFit == \A p \in out' : Fit(p)

\* A step that leaves the channels as they are and no trace in a view.
Quiet == UNCHANGED channels /\ \A p \in out' : Traceless(p)

LEMMA AnswerFits ==
  ASSUME NEW c, NEW name \in ChannelName, NEW result, NEW packets, Send(packets),
         NEW type \in {"JoinChannel_Complete", "LeaveChannel_Complete",
                       "SendMessage_Complete", "KickUser_Complete",
                       "BanUser_Complete"},
         packets = {Answer(c, type, result, name)}, out' \subseteq Packet,
         type \in {"KickUser_Complete", "BanUser_Complete"} => result # "Ok"
  PROVE  /\ AllFit
         /\ \/ result \notin {"Ok", "ChannelCreated"}
            \/ type = "SendMessage_Complete"
            => \A p \in out' : Traceless(p)
<1> DEFINE p == Answer(c, type, result, name)
<1>1. /\ p.component = "Channel" /\ p.type = type /\ p.result = result
      /\ p.channel = name
  BY DEF Answer, ChannelPacket
<1>2. out' \subseteq {p} /\ out' \subseteq Packet
  BY DEF Send
<1> HIDE DEF p
<1>3. Handles(p) /\ ~Names(p)
  BY <1>1 DEF Handles, Names
<1>4. p \in Packet => Fit(p)
  BY <1>1, <1>3 DEF Fit, GoodPacket
<1>5. \/ result \notin {"Ok", "ChannelCreated"}
      \/ type = "SendMessage_Complete"
      => Traceless(p)
  BY <1>1 DEF Traceless
<1> QED
  BY <1>2, <1>4, <1>5 DEF AllFit

LEMMA NotifyFits ==
  ASSUME ServerInv, NEW i \in DOMAIN channels, NEW sender, NEW who \in HostInfo,
         NEW type \in DOMAIN Notice, NEW result, result = Notice[type],
         type = "SendMessage" => who = UserAndHost(users[serving]),
         NEW p \in Notify(i, sender, type, result, who), p \in Packet
  PROVE  /\ Fit(p)
         /\ type = "SendMessage" => Traceless(p)
<1>1. /\ p.component = "Channel" /\ p.type = type /\ p.result = Notice[type]
      /\ p.channel = channels[i].Name /\ p.who = {who}
  BY DEF Notify, ChannelPacket
<1>2. channels[i].Name \in ChannelName
  BY DEF ServerInv, SoundChannels, Sound, SoundChannel, ChatChannel
<1>3. Handles(p)
  BY <1>1 DEF Handles
<1>4. p \in GoodPacket
  BY <1>1, <1>2, <1>3 DEF GoodPacket
<1> QED
  BY <1>1, <1>4 DEF Fit, Traceless

\* An answer and the notices that go with it.
LEMMA BothFit ==
  ASSUME ServerInv, NEW i \in DOMAIN channels, NEW who \in HostInfo,
         NEW type \in DOMAIN Notice, NEW result, result = Notice[type],
         type = "SendMessage" => who = UserAndHost(users[serving]),
         NEW answer, answer \in Packet => Fit(answer), out' \subseteq Packet,
         Send({answer} \cup Notify(i, serving, type, result, who))
  PROVE  /\ AllFit
         /\ type = "SendMessage" /\ Traceless(answer) =>
              \A p \in out' : Traceless(p)
<1>1. ASSUME NEW p \in out'
      PROVE  /\ Fit(p)
             /\ type = "SendMessage" /\ Traceless(answer) => Traceless(p)
  <2>1. p \in Packet /\ (p = answer \/ p \in Notify(i, serving, type, result, who))
    BY DEF Send
  <2> QED
    BY <2>1, NotifyFits
<1> QED
  BY <1>1 DEF AllFit
-----------------------------------------------------------------------------
(***************************************************************************)
(* What a request to the ChannelComponent comes to.                        *)
(***************************************************************************)
\* The answer to whoever enters channel i.
Welcome(i) ==
  [Answer(serving, "JoinChannel_Complete", "Ok", channels[i].Name) EXCEPT
     !.who = {UserAndHost(users[k]) : k \in Audience(i, serving) \cap Client},
     !.ops = {UserAndHost(users[k]) :
                k \in Audience(i, serving) \cap channels[i].Operators},
     !.bans = channels[i].Banned]

Creates(name) ==
  /\ users[serving].Identified
  /\ \A j \in DOMAIN channels : channels[j].Enabled => channels[j].Name # name
  /\ channels' = Append(channels,
       [Enabled |-> TRUE, Name |-> name, Clients |-> {serving},
        Operators |-> {serving}, Banned |-> {}])
  /\ Send({Answer(serving, "JoinChannel_Complete", "ChannelCreated", name)})

Changes(i, channel) ==
  /\ channels[i].Enabled
  /\ channel.Name = channels[i].Name
  /\ channels' = [channels EXCEPT ![i] = channel]

Enters(i) ==
  /\ users[serving].Identified
  /\ serving \notin channels[i].Clients
  /\ Changes(i, Joined(channels[i], serving))
  /\ Send({Welcome(i)} \cup Notify(i, serving, "JoinChannel", "UserJoined",
                                   UserAndHost(users[serving])))

Leaves(i) ==
  /\ serving \in channels[i].Clients
  /\ Changes(i, Left(channels[i], serving))
  /\ Send({Answer(serving, "LeaveChannel_Complete", "Ok", channels[i].Name)}
          \cup Notify(i, serving, "LeaveChannel", "UserLeft",
                      UserAndHost(users[serving])))

\* The answer to an operator that removed somebody.
Done(type, i, who) ==
  [Answer(serving, type, "Ok", channels[i].Name) EXCEPT !.who = {who}]

Kicks(i, k) ==
  /\ serving \in channels[i].Clients
  /\ k \in channels[i].Clients \ {serving}
  /\ Changes(i, Removed(channels[i], k))
  /\ Send({Done("KickUser_Complete", i, UserAndHost(users[k]))}
          \cup Notify(i, serving, "KickUser", "UserKicked",
                      UserAndHost(users[k])))

Bans(i, k) ==
  /\ serving \in channels[i].Clients
  /\ k \in channels[i].Clients \ {serving}
  /\ Changes(i, Ban(channels[i], k, UserAndHost(users[k])))
  /\ Send({Done("BanUser_Complete", i, UserAndHost(users[k]))}
          \cup Notify(i, serving, "BanUser", "UserBanned",
                      UserAndHost(users[k])))

Request ==
  /\ serving \in clients
  /\ out' \subseteq Packet
  /\ UNCHANGED <<clients, users>>

Effect ==
  \/ Quiet
  \/ \E name \in ChannelName : Creates(name)
  \/ \E i \in DOMAIN channels : Enters(i) \/ Leaves(i)
  \/ \E i \in DOMAIN channels, k \in Client : Kicks(i, k) \/ Bans(i, k)

LEMMA DoneFits ==
  ASSUME ServerInv, NEW i \in DOMAIN channels, NEW who \in HostInfo,
         NEW type \in {"KickUser_Complete", "BanUser_Complete"}
  PROVE  Done(type, i, who) \in Packet => Fit(Done(type, i, who))
<1> DEFINE p == Done(type, i, who)
<1>1. /\ p.component = "Channel" /\ p.type = type /\ p.result = "Ok"
      /\ p.channel = channels[i].Name /\ p.who = {who}
  BY DEF Done, Answer, ChannelPacket
<1> HIDE DEF p
<1>2. channels[i].Name \in ChannelName
  BY DEF ServerInv, SoundChannels, Sound, SoundChannel, ChatChannel
<1>3. Handles(p)
  BY <1>1 DEF Handles
<1>4. p \in Packet => Fit(p)
  BY <1>1, <1>2, <1>3 DEF Fit, GoodPacket
<1> QED
  BY <1>4 DEF p

LEMMA JoinEffect ==
  ASSUME ServerInv, Request, JoinChannel(serving)
  PROVE  Effect /\ AllFit
<1> PICK name \in ChannelName, i \in 0..Len(channels) :
      /\ Finds(name, i)
      /\ \/ JoinRefused(serving, name, i)
         \/ ChannelCreated(serving, name, i)
         \/ ChannelJoined(serving, name, i)
  BY DEF JoinChannel
<1> out' \subseteq Packet /\ serving \in clients
  BY DEF Request
<1>1. CASE JoinRefused(serving, name, i)
  <2> DEFINE result == JoinResult(serving, name, i)
  <2>1. result \notin {"ChannelCreated", "Ok"} /\ UNCHANGED channels
    BY <1>1 DEF JoinRefused, Refuse
  <2>2. CASE Refuse(serving, "JoinChannel_Complete", result, name)
    <3> HIDE DEF result
    <3> QED
      BY <2>1, <2>2, AnswerFits DEF Refuse, Quiet, Effect
  <2>3. CASE Send({UserPacket(serving, "Identify_Complete", result, {})})
    <3> DEFINE p == UserPacket(serving, "Identify_Complete", result, {})
    <3>1. /\ p.component = "User" /\ p.type = "Identify_Complete"
          /\ p.result = result
      BY DEF UserPacket
    <3>2. out' \subseteq {p}
      BY <2>3 DEF Send
    <3> HIDE DEF p, result
    <3>3. Traceless(p) /\ (p \in Packet => Fit(p))
      BY <2>1, <3>1 DEF Traceless, Fit, GoodPacket, Names, Handles
    <3> QED
      BY <2>1, <3>2, <3>3 DEF Quiet, Effect, AllFit
  <2> QED
    BY <1>1, <2>2, <2>3 DEF JoinRefused
<1>2. CASE ChannelCreated(serving, name, i)
  <2>1. users[serving].Identified /\ i = 0
    BY <1>2 DEF ChannelCreated, JoinResult
  <2>2. \A j \in DOMAIN channels : channels[j].Enabled => channels[j].Name # name
    BY <2>1, FindsChannel
  <2>3. Creates(name)
    BY <1>2, <2>1, <2>2 DEF ChannelCreated, Creates
  <2>4. AllFit
    BY <1>2, AnswerFits DEF ChannelCreated
  <2> QED
    BY <2>3, <2>4 DEF Effect
<1>3. CASE ChannelJoined(serving, name, i)
  <2>1. /\ users[serving].Identified /\ i # 0
        /\ serving \notin channels[i].Clients
    BY <1>3 DEF ChannelJoined, JoinResult
  <2>2. i \in DOMAIN channels /\ channels[i].Enabled /\ channels[i].Name = name
    BY <2>1, FindsChannel
  <2>3. channels[i] \in ChatChannel
    BY <2>2 DEF ServerInv, SoundChannels, Sound, SoundChannel
  <2>4. Changes(i, Joined(channels[i], serving))
    BY <1>3, <2>2, <2>3, JoinedFields DEF ChannelJoined, Changes
  <2>5. Send({Welcome(i)} \cup Notify(i, serving, "JoinChannel", "UserJoined",
                                      UserAndHost(users[serving])))
    BY <1>3, <2>2 DEF ChannelJoined, Welcome
  <2>6. Welcome(i) \in Packet => Fit(Welcome(i))
    <3> DEFINE p == Welcome(i)
    <3>1. /\ p.component = "Channel" /\ p.type = "JoinChannel_Complete"
          /\ p.result = "Ok" /\ p.channel = name
      BY <2>2 DEF Welcome, Answer, ChannelPacket
    <3> HIDE DEF p
    <3>2. p \in Packet => Fit(p)
      BY <3>1 DEF Fit, GoodPacket, Names, Handles
    <3> QED
      BY <3>2 DEF p
  <2>7. UserAndHost(users[serving]) \in HostInfo
    BY <2>1, IdentifiedType DEF ServerInv
  <2>8. AllFit
    <3>1. "JoinChannel" \in DOMAIN Notice /\ Notice["JoinChannel"] = "UserJoined"
      BY DEF Notice
    <3> QED
      BY <2>2, <2>5, <2>6, <2>7, <3>1, BothFit
  <2> QED
    BY <2>1, <2>2, <2>4, <2>5, <2>8 DEF Effect, Enters
<1> QED
  BY <1>1, <1>2, <1>3

LEMMA LeaveEffect ==
  ASSUME ServerInv, Request, LeaveChannel(serving)
  PROVE  Effect /\ AllFit
<1> PICK name \in ChannelName, i \in 0..Len(channels) :
      /\ Finds(name, i)
      /\ LeaveRefused(serving, name, i) \/ ChannelLeft(serving, name, i)
  BY DEF LeaveChannel
<1> out' \subseteq Packet /\ serving \in clients
  BY DEF Request
<1>1. CASE LeaveRefused(serving, name, i)
  <2>1. MemberResult(serving, name, i) \notin {"Ok", "ChannelCreated"}
    BY <1>1 DEF LeaveRefused, MemberResult
  <2> QED
    BY <1>1, <2>1, AnswerFits DEF LeaveRefused, Refuse, Quiet, Effect
<1>2. CASE ChannelLeft(serving, name, i)
  <2>1. /\ i \in DOMAIN channels /\ channels[i].Enabled
        /\ serving \in channels[i].Clients
        /\ channels[i] \in ChatChannel
        /\ UserAndHost(users[serving]) \in HostInfo
    BY <1>2, MemberRequest DEF ChannelLeft, SoundChannel
  <2>2. channels[i].Name = name
    BY <2>1, FindsChannel DEF ServerInv, SoundChannels, Sound
  <2>3. Changes(i, Left(channels[i], serving))
    BY <1>2, <2>1, LeftFields DEF ChannelLeft, Changes
  <2> DEFINE answer == Answer(serving, "LeaveChannel_Complete", "Ok", name)
  <2>4. Send({answer} \cup Notify(i, serving, "LeaveChannel", "UserLeft",
                                  UserAndHost(users[serving])))
    BY <1>2 DEF ChannelLeft
  <2>5. Leaves(i)
    BY <2>1, <2>2, <2>3, <2>4 DEF Leaves
  <2>6. answer \in Packet => Fit(answer)
    <3>1. /\ answer.component = "Channel"
          /\ answer.type = "LeaveChannel_Complete" /\ answer.channel = name
      BY DEF Answer, ChannelPacket
    <3> HIDE DEF answer
    <3> QED
      BY <3>1 DEF Fit, GoodPacket, Names, Handles
  <2>7. "LeaveChannel" \in DOMAIN Notice /\ Notice["LeaveChannel"] = "UserLeft"
    BY DEF Notice
  <2> HIDE DEF answer
  <2>8. AllFit
    BY <2>1, <2>4, <2>6, <2>7, BothFit
  <2> QED
    BY <2>1, <2>5, <2>8 DEF Effect
<1> QED
  BY <1>1, <1>2

LEMMA MessageEffect ==
  ASSUME ServerInv, Request, SendChannelMessage(serving)
  PROVE  Effect /\ AllFit
<1> PICK name \in ChannelName, i \in 0..Len(channels), text \in Text :
      /\ Finds(name, i)
      /\ \/ MessageRefused(serving, name, i, text)
         \/ ChannelMessage(serving, name, i, text)
  BY DEF SendChannelMessage
<1> out' \subseteq Packet /\ serving \in clients
  BY DEF Request
<1>1. CASE MessageRefused(serving, name, i, text)
  BY <1>1, AnswerFits DEF MessageRefused, Refuse, Quiet, Effect
<1>2. CASE ChannelMessage(serving, name, i, text)
  <2>0. MemberResult(serving, name, i) = "Ok"
    BY <1>2 DEF ChannelMessage, MessageResult
  <2>1. /\ i \in DOMAIN channels
        /\ UserAndHost(users[serving]) \in HostInfo
    BY <2>0, MemberRequest
  <2> DEFINE answer == Answer(serving, "SendMessage_Complete", "Ok", name)
  <2>2. Send({answer} \cup Notify(i, serving, "SendMessage", "MessageSent",
                                  UserAndHost(users[serving])))
    BY <1>2 DEF ChannelMessage
  <2>3. Traceless(answer) /\ (answer \in Packet => Fit(answer))
    <3>1. /\ answer.component = "Channel"
          /\ answer.type = "SendMessage_Complete" /\ answer.channel = name
      BY DEF Answer, ChannelPacket
    <3> HIDE DEF answer
    <3> QED
      BY <3>1 DEF Fit, GoodPacket, Names, Handles, Traceless
  <2>4. "SendMessage" \in DOMAIN Notice /\ Notice["SendMessage"] = "MessageSent"
    BY DEF Notice
  <2> HIDE DEF answer
  <2>5. AllFit /\ \A p \in out' : Traceless(p)
    BY <2>1, <2>2, <2>3, <2>4, BothFit
  <2> QED
    BY <1>2, <2>5 DEF ChannelMessage, Effect, Quiet
<1> QED
  BY <1>1, <1>2

LEMMA KickEffect ==
  ASSUME ServerInv, Request, KickUser(serving)
  PROVE  Effect /\ AllFit
<1> PICK name \in ChannelName, i \in 0..Len(channels), target \in Username :
      /\ Finds(name, i)
      /\ \/ KickRefused(serving, name, i, target)
         \/ UserKicked(serving, name, i, target)
         \/ AbsentUserKicked(serving, name, i, target)
  BY DEF KickUser
<1> out' \subseteq Packet /\ serving \in clients
  BY DEF Request
<1>1. CASE KickRefused(serving, name, i, target)
  <2>1. KickResult(serving, name, i, target) \notin {"Ok", "ChannelCreated"}
    BY <1>1 DEF KickRefused, KickResult, OperatorResult, MemberResult
  <2> QED
    BY <1>1, <2>1, AnswerFits DEF KickRefused, Refuse, Quiet, Effect
<1>2. CASE UserKicked(serving, name, i, target)
  <2>1. OperatorResult(serving, name, i, target, "CannotKickSelf") = "Ok"
    BY <1>2 DEF UserKicked, KickResult
  <2>2. PICK k \in Named(i, target) :
          /\ Send({[Answer(serving, "KickUser_Complete", "Ok", name) EXCEPT
                      !.who = {UserAndHost(users[k])}]}
                  \cup Notify(i, serving, "KickUser", "UserKicked",
                              UserAndHost(users[k])))
          /\ channels' = [channels EXCEPT ![i] = Removed(channels[i], k)]
    BY <1>2 DEF UserKicked
  <2>3. /\ i \in DOMAIN channels /\ channels[i].Enabled
        /\ serving \in channels[i].Clients
        /\ k \in channels[i].Clients \ {serving}
        /\ UserAndHost(users[k]) \in HostInfo
        /\ channels[i] \in ChatChannel
    BY <2>1, OperatorRequest DEF SoundChannel
  <2>4. channels[i].Name = name /\ k \in Client
    BY <2>3, FindsChannel, MemberType DEF ServerInv, SoundChannels, Sound
  <2>5. Changes(i, Removed(channels[i], k))
    BY <2>2, <2>3, RemovedFields DEF Changes
  <2>6. Kicks(i, k)
    BY <2>2, <2>3, <2>4, <2>5 DEF Kicks, Done
  <2>7. "KickUser" \in DOMAIN Notice /\ Notice["KickUser"] = "UserKicked"
    BY DEF Notice
  <2>8. AllFit
    BY <2>3, <2>6, <2>7, DoneFits, BothFit DEF Kicks
  <2> QED
    BY <2>3, <2>4, <2>6, <2>8 DEF Effect
<1>3. CASE AbsentUserKicked(serving, name, i, target)
  BY <1>3 DEF AbsentUserKicked, Silent, Quiet, Effect, AllFit
<1> QED
  BY <1>1, <1>2, <1>3

LEMMA BanEffect ==
  ASSUME ServerInv, Request, BanUser(serving)
  PROVE  Effect /\ AllFit
<1> PICK name \in ChannelName, i \in 0..Len(channels), target \in Username :
      /\ Finds(name, i)
      /\ \/ BanRefused(serving, name, i, target)
         \/ UserBanned(serving, name, i, target)
  BY DEF BanUser
<1> out' \subseteq Packet /\ serving \in clients
  BY DEF Request
<1>1. CASE BanRefused(serving, name, i, target)
  <2>1. BanResult(serving, name, i, target) \notin {"Ok", "ChannelCreated"}
    BY <1>1 DEF BanRefused, BanResult, OperatorResult, MemberResult
  <2> QED
    BY <1>1, <2>1, AnswerFits DEF BanRefused, Refuse, Quiet, Effect
<1>2. CASE UserBanned(serving, name, i, target)
  <2>1. OperatorResult(serving, name, i, target, "CannotBanSelf") = "Ok"
    BY <1>2 DEF UserBanned, BanResult
  <2>2. PICK k \in Named(i, target) :
          /\ Send({[Answer(serving, "BanUser_Complete", "Ok", name) EXCEPT
                      !.who = {UserAndHost(users[k])}]}
                  \cup Notify(i, serving, "BanUser", "UserBanned",
                              UserAndHost(users[k])))
          /\ channels' = [channels EXCEPT
               ![i] = Ban(channels[i], k, UserAndHost(users[k]))]
    BY <1>2 DEF UserBanned
  <2>3. /\ i \in DOMAIN channels /\ channels[i].Enabled
        /\ serving \in channels[i].Clients
        /\ k \in channels[i].Clients \ {serving}
        /\ UserAndHost(users[k]) \in HostInfo
        /\ channels[i] \in ChatChannel
    BY <2>1, OperatorRequest DEF SoundChannel
  <2>4. channels[i].Name = name /\ k \in Client
    BY <2>3, FindsChannel, MemberType DEF ServerInv, SoundChannels, Sound
  <2>5. Changes(i, Ban(channels[i], k, UserAndHost(users[k])))
    BY <2>2, <2>3, BanFields DEF Changes
  <2>6. Bans(i, k)
    BY <2>2, <2>3, <2>4, <2>5 DEF Bans, Done
  <2>7. "BanUser" \in DOMAIN Notice /\ Notice["BanUser"] = "UserBanned"
    BY DEF Notice
  <2>8. AllFit
    BY <2>3, <2>6, <2>7, DoneFits, BothFit DEF Bans
  <2> QED
    BY <2>3, <2>4, <2>6, <2>8 DEF Effect
<1> QED
  BY <1>1, <1>2

LEMMA RequestEffect ==
  ASSUME ServerInv, HandleChannelPacket, out' \subseteq Packet
  PROVE  Request /\ Effect /\ AllFit
<1>1. Request
  BY NothingAssumption
  DEF HandleChannelPacket, Handled, Serving, ServerInv, Sessions, Request
<1> QED
  BY <1>1, JoinEffect, LeaveEffect, MessageEffect, KickEffect, BanEffect
  DEF HandleChannelPacket
-----------------------------------------------------------------------------
(***************************************************************************)
(* What every step sends.                                                  *)
(***************************************************************************)
LEMMA DepartureFits ==
  ASSUME ServerInv, NEW c \in clients, OnClientDisconnected(c),
         out' \subseteq Packet
  PROVE  AllFit
<1> SUFFICES ASSUME NEW p \in out' PROVE Fit(p)
  BY DEF AllFit
<1>1. PICK i \in DOMAIN channels :
        /\ c \in channels[i].Clients
        /\ p \in Notify(i, c, "LeaveChannel", "UserLeft", UserAndHost(users[c]))
  BY DEF OnClientDisconnected, OnMemberDisconnected, Send
<1>2. UserAndHost(users[c]) \in HostInfo /\ p \in Packet
  BY <1>1, MemberType
<1>3. "LeaveChannel" \in DOMAIN Notice /\ Notice["LeaveChannel"] = "UserLeft"
  BY DEF Notice
<1> QED
  BY <1>1, <1>2, <1>3, NotifyFits

LEMMA UserPacketFits ==
  ASSUME NEW to, NEW result, NEW who, NEW p, p \in Packet,
         \/ p = SystemPacket(to, "Hello_Complete", "Ok")
         \/ p = UserPacket(to, "SendMessage_Complete", result, {})
         \/ p = UserPacket(to, "SendMessage", "MessageSent", who)
         \/ /\ p = UserPacket(to, "Identify_Complete", result, who)
            /\ result = "Ok" => \E user \in HostInfo : who = {user}
  PROVE  Fit(p)
  BY DEF SystemPacket, UserPacket, Fit, GoodPacket, Names, Handles

LEMMA UserRequestFits ==
  ASSUME ServerInv, HandleUserPacket, out' \subseteq Packet
  PROVE  AllFit /\ UNCHANGED channels
<1> SUFFICES ASSUME NEW p \in out' PROVE Fit(p)
  BY DEF AllFit, HandleUserPacket
<1>0. p \in Packet /\ serving \in clients /\ serving \in Client
  BY NothingAssumption DEF HandleUserPacket, Handled, Serving, ServerInv, Sessions
<1>1. CASE \E name \in Username : IdentifyRefused(serving, name)
  BY <1>0, <1>1, UserPacketFits DEF IdentifyRefused, Send
<1>2. CASE \E name \in Username : IdentifyAccepted(serving, name)
  <2>1. PICK name \in Username : IdentifyAccepted(serving, name)
    BY <1>2
  <2> DEFINE hash == HashString[users[serving].Hostname]
  <2>2. p = UserPacket(serving, "Identify_Complete", "Ok", {<<name, hash>>})
    BY <2>1 DEF IdentifyAccepted, Send
  <2>3. p.who = {<<name, hash>>} /\ p.who \in SUBSET HostInfo
    BY <1>0, <2>2 DEF UserPacket, Packet
  <2>4. <<name, hash>> \in HostInfo
    BY <2>3
  <2> HIDE DEF hash
  <2>5. \E user \in HostInfo : {<<name, hash>>} = {user}
    BY <2>4
  <2> QED
    BY <1>0, <2>2, <2>5, UserPacketFits
<1>3. CASE SendUserMessage(serving)
  BY <1>0, <1>3, UserPacketFits
  DEF SendUserMessage, UserMessageRefused, UserMessageSent, Send
<1> QED
  BY <1>1, <1>2, <1>3 DEF HandleUserPacket, Identify

LEMMA StepFits ==
  ASSUME ServerInv, Next
  PROVE  AllFit
<1>1. out' \subseteq Packet
  BY ServerInvStep DEF ServerInv
<1>2. CASE HandleChannelPacket
  BY <1>1, <1>2, RequestEffect
<1>3. CASE HandleUserPacket
  BY <1>1, <1>3, UserRequestFits
<1>4. CASE HandleHello
  BY <1>1, <1>4, UserPacketFits DEF HandleHello, Hello, Send, AllFit
<1>5. CASE MalformedPacket \/ NothingHandled
  BY <1>1, <1>5, DepartureFits, NothingAssumption
  DEF MalformedPacket, NothingHandled, Serving, ServerInv, Sessions
<1>6. CASE \E c \in Client : CloseConnection(c)
  BY <1>1, <1>6, DepartureFits DEF CloseConnection
<1>7. \/ \E c \in Client, host \in Host : OnClientConnected(c, host)
      \/ \E c \in Client : ReceiveChunk(c)
      \/ IgnoredPacket \/ EndOfChunk
      => AllFit
  BY DEF OnClientConnected, ReceiveChunk, IgnoredPacket, EndOfChunk, Silent,
         AllFit
<1> QED
  BY <1>2, <1>3, <1>4, <1>5, <1>6, <1>7 DEF Next

\* What the clients do leaves the server as it is.
LEMMA ClientSteps ==
  ASSUME \/ \E c \in Client : Receive(c)
         \/ \E c \in Client : Disconnect(c)
  PROVE  /\ Silent
         /\ UNCHANGED <<clients, users, channels, crashed, serving, handled>>
  BY DEF Receive, Disconnect

LEMMA SystemSteps ==
  ASSUME [SystemNext]_systemVars
  PROVE  \/ Next
         \/ /\ Silent \/ UNCHANGED out
            /\ UNCHANGED <<clients, users, channels, crashed, serving, handled>>
  BY ClientSteps DEF SystemNext, systemVars, vars, Connect, ServerStep, Next

LEMMA ServerKept ==
  ASSUME ServerInv, [SystemNext]_systemVars
  PROVE  ServerInv'
<1>1. CASE Next
  BY <1>1, ServerInvStep
<1>2. CASE /\ Silent \/ UNCHANGED out
           /\ UNCHANGED <<clients, users, channels, crashed, serving, handled>>
  BY <1>2 DEF Silent, ServerInv, Sessions, SoundChannels, GetChatUser
<1> QED
  BY <1>1, <1>2, SystemSteps

LEMMA SystemServerInvariant == SystemSpec => []ServerInv
<1>1. SystemInit => ServerInv
  BY ServerInvInit DEF SystemInit
<1>2. ServerInv /\ [SystemNext]_systemVars => ServerInv'
  BY ServerKept
<1> QED
  BY <1>1, <1>2, PTL DEF SystemSpec

\* Whatever the peers send and in whatever order, no packet of the server is
\* one that makes a client drop its connection.
THEOREM ClientsHandleAll == SystemSpec => OnlyHandledSent
<1> DEFINE Handled1 == \A p \in out' : Handles(p)
<1>1. ServerInv /\ [SystemNext]_systemVars => [Handled1]_systemVars
  <2> SUFFICES ASSUME ServerInv, SystemNext PROVE Handled1
    OBVIOUS
  <2>1. CASE Next
    BY <2>1, StepFits DEF AllFit, Fit, GoodPacket
  <2>2. CASE Silent
    BY <2>2 DEF Silent
  <2>3. Next \/ Silent
    BY ClientSteps DEF SystemNext, Connect, ServerStep, Next
  <2> QED
    BY <2>1, <2>2, <2>3
<1> QED
  BY <1>1, SystemServerInvariant, PTL DEF SystemSpec, OnlyHandledSent
-----------------------------------------------------------------------------
(***************************************************************************)
(* What a client knows.  It knows itself as the others are told of it, it  *)
(* has one entry for a channel it is in and none for others, and an entry  *)
(* lists each of the members and the operators once.                       *)
(***************************************************************************)
Identities(us, keys) == {UserAndHost(us[k]) : k \in keys}

ChannelEntry(us, channel) ==
  EntryOf(channel.Name, Identities(us, channel.Clients),
          Identities(us, channel.Operators), channel.Banned)

Knows(e, us, c) ==
  us[c].Identified => e.Identified /\ e.User = UserAndHost(us[c])

Sees(e, us, chs, c, name) ==
  /\ \A i \in DOMAIN chs : chs[i].Name = name /\ c \in chs[i].Clients =>
       Has(e, name, ChannelEntry(us, chs[i]))
  /\ (\A i \in DOMAIN chs : chs[i].Name = name => c \notin chs[i].Clients) =>
       Lacks(e, name)

InStep(e, us, chs, exp, c) ==
  /\ Knows(e, us, c)
  /\ \A name \in ChannelName : <<c, name>> \notin exp => Sees(e, us, chs, c, name)

ClientState(c) ==
  /\ view[c] \in View
  /\ inbox[c] \in Seq(GoodPacket)
  /\ ~view[c].Online => inbox[c] = <<>> /\ view[c].Channels = <<>>

ClientInv ==
  \A c \in Client :
    /\ ClientState(c)
    /\ Connected(c) => InStep(Expected(c), users, channels, expelled, c)

SystemTypes ==
  /\ DOMAIN view = Client
  /\ DOMAIN inbox = Client

SystemInv == ServerInv /\ NamesInv /\ SystemTypes /\ ClientInv

LEMMA ExpectedView ==
  ASSUME NEW c \in Client, ClientState(c)
  PROVE  Expected(c) \in View
  BY FoldView DEF ClientState, Expected

\* A channel that stays as it was for the client and a view that keeps it.
LEMMA SeesFrame ==
  ASSUME NEW e, NEW us, NEW chs, NEW c, NEW name, Sees(e, us, chs, c, name),
         NEW e2, NEW us2, NEW chs2, Keeps(e, e2, name),
         \A i \in DOMAIN chs2 : chs2[i].Name = name /\ c \in chs2[i].Clients =>
           /\ i \in DOMAIN chs /\ chs[i].Name = name /\ c \in chs[i].Clients
           /\ ChannelEntry(us2, chs2[i]) = ChannelEntry(us, chs[i]),
         \A i \in DOMAIN chs : chs[i].Name = name /\ c \in chs[i].Clients =>
           i \in DOMAIN chs2 /\ chs2[i].Name = name /\ c \in chs2[i].Clients
  PROVE  Sees(e2, us2, chs2, c, name)
  BY DEF Sees, Keeps
-----------------------------------------------------------------------------
(***************************************************************************)
(* Delivery.                                                               *)
(***************************************************************************)
LEMMA Delivered ==
  ASSUME ServerStep, SystemTypes, NEW c \in Client, ClientState(c),
         Sent(c) \subseteq GoodPacket, IsFiniteSet(Sent(c)),
         NEW s, s = SetToSeq(Sent(c))
  PROVE  /\ s \in Seq(GoodPacket)
         /\ ClientState(c)'
         /\ Expected(c)' = FoldLeft(Received, Expected(c), s)
<1>1. s \in Seq(Sent(c))
  BY SetToSeqIs
<1>2. s \in Seq(GoodPacket)
  BY <1>1
<1>3. view' = view /\ inbox'[c] = inbox[c] \o s
  BY DEF ServerStep
<1>4. inbox'[c] \in Seq(GoodPacket)
  BY <1>2, <1>3, ConcatProperties DEF ClientState
<1>5. ~view[c].Online => inbox'[c] = <<>>
  <2> SUFFICES ASSUME ~view[c].Online PROVE inbox'[c] = <<>>
    OBVIOUS
  <2>1. Sent(c) = {}
    BY DEF Sent
  <2>2. s = <<>>
    BY <2>1, SetToSeqEmpty
  <2> QED
    BY <1>3, <2>2 DEF ClientState
<1>6. ClientState(c)'
  BY <1>3, <1>4, <1>5 DEF ClientState
<1>7. FoldLeft(Received, view[c], inbox[c] \o s) =
        FoldLeft(Received, FoldLeft(Received, view[c], inbox[c]), s)
  BY <1>2, FoldConcat DEF ClientState
<1>8. Expected(c)' = FoldLeft(Received, view'[c], inbox'[c])
  BY DEF Expected
<1> QED
  BY <1>2, <1>3, <1>6, <1>7, <1>8 DEF Expected

LEMMA DeliveredNone ==
  ASSUME ServerStep, SystemTypes, NEW c \in Client, ClientState(c), Sent(c) = {}
  PROVE  ClientState(c)' /\ Expected(c)' = Expected(c)
<1>1. IsFiniteSet(Sent(c)) /\ SetToSeq(Sent(c)) = <<>>
  BY FS_EmptySet, SetToSeqEmpty
<1> QED
  BY <1>1, Delivered, HandlingFolds, Handling!FoldEmpty

LEMMA DeliveredOne ==
  ASSUME ServerStep, SystemTypes, NEW c \in Client, ClientState(c),
         NEW p \in GoodPacket, Sent(c) = {p}
  PROVE  ClientState(c)' /\ Expected(c)' = Received(Expected(c), p)
<1>1. IsFiniteSet(Sent(c)) /\ SetToSeq(Sent(c)) = <<p>>
  BY FS_Singleton, SetToSeqOne
<1>2. ClientState(c)' /\ Expected(c)' = FoldLeft(Received, Expected(c), <<p>>)
  BY <1>1, Delivered
<1> QED
  BY <1>2, HandlingFolds, Handling!FoldOne

\* The notices that change an entry.
NoticeOfEntries == {"JoinChannel", "LeaveChannel", "KickUser", "BanUser"}

\* What a client is sent that asked for something or is a member.
LEMMA SentByRequest ==
  ASSUME ServerInv, HelloBeforeIdentify, serving \in clients,
         NEW i \in DOMAIN channels,
         NEW answer, answer.to = serving, ~Traceless(answer),
         NEW type \in NoticeOfEntries, NEW result, NEW who,
         Send({answer} \cup Notify(i, serving, type, result, who)),
         NEW c \in clients, view[c].Online
  PROVE  Sent(c) = IF c = serving THEN {answer}
                   ELSE IF c \in channels[i].Clients
                   THEN {ChannelPacket(c, type, result, channels[i].Name, {who})}
                   ELSE {}
<1> DEFINE notice(k) == ChannelPacket(k, type, result, channels[i].Name, {who})
           others == channels[i].Clients \ {serving}
<1>1. \A k : notice(k).to = k /\ ~Traceless(notice(k))
  BY DEF ChannelPacket, Traceless, NoticeOfEntries
<1>2. Notify(i, serving, type, result, who) = {notice(k) : k \in others}
  BY AudienceAll DEF Notify
<1> HIDE DEF notice
<1>3. out' = {p \in {answer} \cup {notice(k) : k \in others} : p.to \in clients}
  BY <1>2 DEF Send
<1>4. \A p : p \in Sent(c) <=> p \in {answer} \cup {notice(k) : k \in others}
                               /\ p.to = c /\ ~Traceless(p)
  BY <1>3 DEF Sent
<1>5. \A p : p \in Sent(c) <=> \/ p = answer /\ c = serving
                               \/ p = notice(c) /\ c \in others
  BY <1>1, <1>4
<1> QED
  BY <1>5 DEF notice
-----------------------------------------------------------------------------
(***************************************************************************)
(* A request that changes one channel.                                     *)
(***************************************************************************)
Advances(c) ==
  /\ ClientState(c)'
  /\ Connected(c)' => InStep(Expected(c)', users', channels', expelled', c)

\* Of the channels of a name, a client is in the enabled one at most.
LEMMA OneEnabled ==
  ASSUME ServerInv, NEW i \in DOMAIN channels, channels[i].Enabled,
         NEW j \in DOMAIN channels, channels[j].Name = channels[i].Name,
         NEW c \in channels[j].Clients
  PROVE  j = i
  BY DEF ServerInv, SoundChannels, Sound, SoundChannel

LEMMA SeesEnabled ==
  ASSUME ServerInv, NEW i \in DOMAIN channels, channels[i].Enabled, NEW c,
         NEW e, Sees(e, users, channels, c, channels[i].Name)
  PROVE  /\ c \in channels[i].Clients =>
              Has(e, channels[i].Name, ChannelEntry(users, channels[i]))
         /\ c \notin channels[i].Clients => Lacks(e, channels[i].Name)
  BY OneEnabled DEF Sees

LEMMA ChangesIs ==
  ASSUME ServerInv, NEW i \in DOMAIN channels, NEW channel, Changes(i, channel)
  PROVE  /\ DOMAIN channels' = DOMAIN channels
         /\ channels'[i] = channel
         /\ \A j \in DOMAIN channels : j # i => channels'[j] = channels[j]
         /\ channels[i].Name \in ChannelName
         /\ channel.Name = channels[i].Name
         /\ channels[i].Enabled
         /\ channels[i] \in ChatChannel
  BY DEF Changes, ServerInv, SoundChannels, Sound, SoundChannel, ChatChannel

LEMMA OneChanged ==
  ASSUME ServerInv, NEW i \in DOMAIN channels, NEW channel, Changes(i, channel),
         UNCHANGED users, NEW c, expelled \subseteq expelled',
         NEW e, InStep(e, users, channels, expelled, c),
         NEW e2, SameUser(e, e2),
         \A name : name # channels[i].Name => Keeps(e, e2, name),
         <<c, channels[i].Name>> \notin expelled' =>
           /\ c \in channel.Clients =>
                Has(e2, channels[i].Name, ChannelEntry(users, channel))
           /\ c \notin channel.Clients => Lacks(e2, channels[i].Name)
  PROVE  InStep(e2, users', channels', expelled', c)
<1>1. Knows(e2, users', c)
  BY DEF InStep, Knows, SameUser
<1>2. ASSUME NEW name \in ChannelName, <<c, name>> \notin expelled'
      PROVE  Sees(e2, users', channels', c, name)
  <2>1. CASE name = channels[i].Name
    <3>1. ASSUME NEW j \in DOMAIN channels', channels'[j].Name = name,
                 c \in channels'[j].Clients
          PROVE  j = i
      BY <2>1, <3>1, ChangesIs, OneEnabled
    <3>2. i \in DOMAIN channels' /\ channels'[i] = channel /\ channel.Name = name
      BY <2>1, ChangesIs
    <3> QED
      BY <1>2, <2>1, <3>1, <3>2 DEF Sees
  <2>2. CASE name # channels[i].Name
    <3>1. Sees(e, users, channels, c, name) /\ Keeps(e, e2, name)
      BY <1>2, <2>2 DEF InStep
    <3>2. \A j \in DOMAIN channels' : channels'[j].Name = name =>
            channels'[j] = channels[j] /\ j \in DOMAIN channels
      BY <2>2, ChangesIs
    <3>3. \A j \in DOMAIN channels : channels[j].Name = name =>
            channels'[j] = channels[j] /\ j \in DOMAIN channels'
      BY <2>2, ChangesIs
    <3> QED
      BY <3>1, <3>2, <3>3, SeesFrame
  <2> QED
    BY <2>1, <2>2
<1> QED
  BY <1>1, <1>2 DEF InStep

\* Who is connected and has identified is told apart by name and address.
LEMMA Distinct ==
  ASSUME ServerInv, NamesInv, NEW j \in clients, NEW k \in clients,
         users[j].Identified, users[k].Identified,
         UserAndHost(users[j]) = UserAndHost(users[k])
  PROVE  j = k
  BY DEF UserAndHost, NamesInv, UsernamesExclusive, ServerInv, Sessions

LEMMA MembersIdentified ==
  ASSUME ServerInv, NEW i \in DOMAIN channels
  PROVE  /\ channels[i].Operators \subseteq channels[i].Clients
         /\ channels[i].Clients \subseteq clients
         /\ clients \subseteq Client
         /\ \A k \in channels[i].Clients : users[k].Identified
  BY DEF ServerInv, Sessions, SoundChannels, Sound, SoundChannel

LEMMA IdentitiesWithout ==
  ASSUME ServerInv, NamesInv, NEW keys \in SUBSET clients,
         \A k \in keys : users[k].Identified,
         NEW c \in clients, users[c].Identified
  PROVE  Identities(users, keys \ {c}) =
           Identities(users, keys) \ {UserAndHost(users[c])}
<1>1. \A k \in keys : k = c <=> UserAndHost(users[k]) = UserAndHost(users[c])
  BY Distinct
<1> QED
  BY <1>1 DEF Identities

\* The entry after one more member, after one member less, after a ban.
LEMMA EntryJoined ==
  ASSUME ServerInv, NamesInv, NEW i \in DOMAIN channels,
         NEW c \in clients, users[c].Identified, c \notin channels[i].Clients
  PROVE  WithUser(ChannelEntry(users, channels[i]), UserAndHost(users[c])) =
           ChannelEntry(users, Joined(channels[i], c))
<1>1. channels[i] \in ChatChannel
  BY DEF ServerInv, SoundChannels, Sound, SoundChannel
<1>2. UserAndHost(users[c]) \notin Identities(users, channels[i].Clients)
  BY Distinct, MembersIdentified DEF Identities
<1> DEFINE channel == Joined(channels[i], c)
           members == Identities(users, channels[i].Clients)
           operators == Identities(users, channels[i].Operators)
           who == UserAndHost(users[c])
<1>3. /\ channel.Name = channels[i].Name
      /\ channel.Clients = channels[i].Clients \cup {c}
      /\ channel.Operators = channels[i].Operators
      /\ channel.Banned = channels[i].Banned
  BY <1>1, JoinedFields
<1> HIDE DEF channel
<1>4. Identities(users, channel.Clients) = members \cup {who}
  BY <1>3 DEF Identities
<1> HIDE DEF members, operators, who
<1>5. WithUser(EntryOf(channels[i].Name, members, operators, channels[i].Banned), who)
        = EntryOf(channels[i].Name, members \cup {who}, operators, channels[i].Banned)
  BY <1>2, WithUserEntryOf DEF members, who
<1>6. ChannelEntry(users, channel) =
        EntryOf(channels[i].Name, members \cup {who}, operators, channels[i].Banned)
  BY <1>3, <1>4 DEF ChannelEntry, operators
<1> QED
  BY <1>5, <1>6 DEF ChannelEntry, members, operators, who, channel

LEMMA EntryRemoved ==
  ASSUME ServerInv, NamesInv, NEW i \in DOMAIN channels,
         NEW k \in channels[i].Clients, NEW us,
         \A j \in clients \ {k} : us[j] = users[j],
         NEW channel, channel.Name = channels[i].Name,
         channel.Clients = channels[i].Clients \ {k},
         channel.Operators = channels[i].Operators \ {k},
         channel.Banned = channels[i].Banned
  PROVE  Erase(ChannelEntry(users, channels[i]), UserAndHost(users[k])) =
           ChannelEntry(us, channel)
<1>1. /\ k \in clients /\ users[k].Identified
      /\ channels[i].Operators \in SUBSET clients
      /\ channels[i].Clients \in SUBSET clients
      /\ \A j \in channels[i].Operators : users[j].Identified
      /\ \A j \in channels[i].Clients : users[j].Identified
  BY MembersIdentified
<1>2. /\ Identities(us, channel.Clients) = Identities(users, channel.Clients)
      /\ Identities(us, channel.Operators) = Identities(users, channel.Operators)
  BY <1>1 DEF Identities
<1>3. Identities(users, channels[i].Clients \ {k}) =
        Identities(users, channels[i].Clients) \ {UserAndHost(users[k])}
  BY <1>1, IdentitiesWithout
<1>4. Identities(users, channels[i].Operators \ {k}) =
        Identities(users, channels[i].Operators) \ {UserAndHost(users[k])}
  BY <1>1, IdentitiesWithout
<1> QED
  BY <1>2, <1>3, <1>4, ErasedEntryOf DEF ChannelEntry

LEMMA EntryBanned ==
  ASSUME ServerInv, NamesInv, NEW i \in DOMAIN channels,
         NEW k \in channels[i].Clients
  PROVE  EraseBanned(ChannelEntry(users, channels[i]), UserAndHost(users[k])) =
           ChannelEntry(users, Ban(channels[i], k, UserAndHost(users[k])))
<1> DEFINE who == UserAndHost(users[k])
           channel == Ban(channels[i], k, who)
<1>1. /\ k \in clients /\ users[k].Identified
      /\ channels[i].Operators \in SUBSET clients
      /\ channels[i].Clients \in SUBSET clients
      /\ \A j \in channels[i].Operators : users[j].Identified
      /\ \A j \in channels[i].Clients : users[j].Identified
      /\ channels[i] \in ChatChannel
  BY MembersIdentified DEF ServerInv, SoundChannels, Sound, SoundChannel
<1>2. /\ channel.Name = channels[i].Name
      /\ channel.Clients = channels[i].Clients \ {k}
      /\ channel.Operators = channels[i].Operators \ {k}
      /\ channel.Banned = channels[i].Banned \cup {who}
  BY <1>1, BanFields
<1> HIDE DEF channel
<1> DEFINE members == Identities(users, channels[i].Clients)
           operators == Identities(users, channels[i].Operators)
<1>3. Identities(users, channel.Clients) = members \ {who}
  BY <1>1, <1>2, IdentitiesWithout
<1>4. Identities(users, channel.Operators) = operators \ {who}
  BY <1>1, <1>2, IdentitiesWithout
<1> HIDE DEF members, operators, who
<1>5. EraseBanned(EntryOf(channels[i].Name, members, operators, channels[i].Banned),
                  who) =
        EntryOf(channels[i].Name, members \ {who}, operators \ {who},
                channels[i].Banned \cup {who})
  BY BanningEntryOf
<1>6. ChannelEntry(users, channel) =
        EntryOf(channels[i].Name, members \ {who}, operators \ {who},
                channels[i].Banned \cup {who})
  BY <1>2, <1>3, <1>4 DEF ChannelEntry
<1> QED
  BY <1>5, <1>6 DEF ChannelEntry, members, operators, who, channel
-----------------------------------------------------------------------------
(***************************************************************************)
(* The requests, one by one, for each client.                              *)
(***************************************************************************)
LEMMA Invariants ==
  ASSUME SystemInv, ServerStep, NEW c \in Client
  PROVE  /\ ServerInv /\ NamesInv /\ HelloBeforeIdentify /\ SystemTypes
         /\ ClientState(c)
         /\ Connected(c) => /\ view[c].Online /\ c \in clients
                            /\ Expected(c) \in View
                            /\ InStep(Expected(c), users, channels, expelled, c)
         /\ Connected(c)' => Connected(c)
         /\ view' = view
         /\ expelled \subseteq expelled'
<1>1. ServerInv /\ NamesInv /\ HelloBeforeIdentify /\ SystemTypes
  BY DEF SystemInv, NamesInv
<1>2. /\ ClientState(c)
      /\ Connected(c) => InStep(Expected(c), users, channels, expelled, c)
  BY DEF SystemInv, ClientInv
<1>3. view' = view /\ expelled \subseteq expelled' /\ clients' \subseteq clients
  BY DEF ServerStep
<1> QED
  BY <1>1, <1>2, <1>3, ExpectedView DEF Connected

\* Nothing is under way to a client that is not connected.
LEMMA BystanderAdvances ==
  ASSUME SystemInv, ServerStep, NEW c \in Client, ~Connected(c),
         NEW packets, Send(packets)
  PROVE  Advances(c)
<1>1. Sent(c) = {}
  BY DEF Sent, Send, Connected
<1> QED
  BY <1>1, Invariants, DeliveredNone DEF Advances

LEMMA OutsiderAdvances ==
  ASSUME SystemInv, ServerStep, Request, NEW c \in Client, Connected(c),
         Sent(c) = {}, NEW i \in DOMAIN channels, NEW channel,
         Changes(i, channel), c \notin channels[i].Clients,
         c \notin channel.Clients
  PROVE  Advances(c)
<1> DEFINE e == Expected(c)
<1>1. ClientState(c)' /\ Expected(c)' = e
  BY Invariants, DeliveredNone
<1>2. /\ ServerInv /\ e \in View /\ InStep(e, users, channels, expelled, c)
      /\ expelled \subseteq expelled'
  BY Invariants
<1>3. UNCHANGED users
  BY DEF Request
<1>4. <<c, channels[i].Name>> \notin expelled' => Lacks(e, channels[i].Name)
  BY <1>2, ChangesIs, SeesEnabled DEF InStep
<1> HIDE DEF e
<1>5. InStep(e, users', channels', expelled', c)
  BY <1>2, <1>3, <1>4, SameView, OneChanged
<1> QED
  BY <1>1, <1>5 DEF Advances

LEMMA EnterAdvances ==
  ASSUME SystemInv, ServerStep, Request, AllFit, NEW i \in DOMAIN channels,
         Enters(i), NEW c \in Client
  PROVE  Advances(c)
<1> DEFINE e == Expected(c)
           name == channels[i].Name
           channel == Joined(channels[i], serving)
           user == UserAndHost(users[serving])
           packets == {Welcome(i)} \cup Notify(i, serving, "JoinChannel",
                                               "UserJoined", user)
<1>1. /\ users[serving].Identified /\ serving \notin channels[i].Clients
      /\ Changes(i, channel) /\ Send(packets)
  BY DEF Enters
<1>2. CASE ~Connected(c)
  <2> HIDE DEF packets
  <2> QED
    BY <1>1, <1>2, BystanderAdvances
<1>3. CASE Connected(c)
  <2>1. /\ ServerInv /\ NamesInv /\ HelloBeforeIdentify /\ SystemTypes
        /\ ClientState(c) /\ e \in View /\ c \in clients /\ view[c].Online
        /\ InStep(e, users, channels, expelled, c)
        /\ expelled \subseteq expelled'
    BY <1>3, Invariants
  <2>2. UNCHANGED users /\ serving \in clients
    BY DEF Request
  <2>3. /\ name \in ChannelName /\ channels[i].Enabled
        /\ channels[i] \in ChatChannel
    BY <1>1, <2>1, ChangesIs
  <2>4. /\ channel.Clients = channels[i].Clients \cup {serving}
        /\ channel.Operators = channels[i].Operators
        /\ channel.Banned = channels[i].Banned
        /\ channel.Name = name
    BY <2>3, JoinedFields
  <2>5. user \in HostInfo
    BY <1>1, <2>1, <2>2, IdentifiedType DEF ServerInv
  <2>6. <<c, name>> \notin expelled' =>
          /\ c \in channels[i].Clients => Has(e, name, ChannelEntry(users, channels[i]))
          /\ c \notin channels[i].Clients => Lacks(e, name)
    BY <2>1, <2>3, SeesEnabled DEF InStep
  <2>7. /\ Welcome(i).to = serving /\ Welcome(i).type = "JoinChannel_Complete"
        /\ Welcome(i).result = "Ok" /\ Welcome(i).channel = name
        /\ Welcome(i).who = Identities(users, channels[i].Clients)
        /\ Welcome(i).ops = Identities(users, channels[i].Operators)
        /\ Welcome(i).bans = channels[i].Banned
    <3>1. /\ Audience(i, serving) \cap Client = channels[i].Clients
          /\ Audience(i, serving) \cap channels[i].Operators = channels[i].Operators
      BY <1>1, <2>1, AudienceAll, MembersIdentified
    <3> QED
      BY <3>1 DEF Welcome, Answer, ChannelPacket, Identities
  <2>8. Sent(c) = IF c = serving THEN {Welcome(i)}
                  ELSE IF c \in channels[i].Clients
                  THEN {ChannelPacket(c, "JoinChannel", "UserJoined", name, {user})}
                  ELSE {}
    <3>1. ~Traceless(Welcome(i))
      BY <2>7 DEF Traceless
    <3> QED
      BY <1>1, <2>1, <2>2, <2>7, <3>1, SentByRequest
      DEF NoticeOfEntries
  <2>9. Sent(c) \subseteq GoodPacket
    BY DEF Sent, AllFit, Fit
  <2>10. CASE c = serving
    <3> DEFINE p == Welcome(i)
               e2 == Received(e, p)
    <3>1. Sent(c) = {p} /\ p \in GoodPacket
      BY <2>8, <2>9, <2>10
    <3>2. ClientState(c)' /\ Expected(c)' = e2
      BY <2>1, <3>1, DeliveredOne
    <3>3. e2 = OnJoinComplete(e, p)
      BY <2>7, <3>1, ReceivedIs
    <3>4. p \in Packet
      BY <3>1 DEF GoodPacket
    <3>5. e.User = user
      BY <1>1, <2>1, <2>10 DEF InStep, Knows
    <3>6. user \notin p.who
      BY <1>1, <2>1, <2>2, <2>7, Distinct, MembersIdentified DEF Identities
    <3> HIDE DEF p, e2, e
    <3>7. /\ SameUser(e, e2)
          /\ \A other : other # name => Keeps(e, e2, other)
          /\ Lacks(e, name) =>
               Has(e2, name, EntryOf(name, {user} \cup p.who, p.ops, p.bans))
      BY <2>1, <2>3, <2>7, <3>3, <3>4, <3>5, <3>6, JoinHandled DEF p
    <3>8. EntryOf(name, {user} \cup p.who, p.ops, p.bans) =
            ChannelEntry(users, channel)
      <4>1. Identities(users, channel.Clients) = {user} \cup p.who
        BY <2>4, <2>7 DEF Identities, p
      <4> QED
        BY <2>4, <2>7, <4>1 DEF ChannelEntry, p
    <3>9. InStep(e2, users', channels', expelled', c)
      <4> HIDE DEF channel
      <4>1. <<c, name>> \notin expelled' =>
              Has(e2, name, ChannelEntry(users, channel)) /\ c \in channel.Clients
        BY <1>1, <2>4, <2>6, <2>10, <3>7, <3>8
      <4> QED
        BY <1>1, <2>1, <2>2, <3>7, <4>1, OneChanged
    <3> QED
      BY <3>2, <3>9 DEF Advances
  <2>11. CASE c # serving /\ c \in channels[i].Clients
    <3> DEFINE p == ChannelPacket(c, "JoinChannel", "UserJoined", name, {user})
               e2 == Received(e, p)
    <3>1. Sent(c) = {p} /\ p \in GoodPacket
      BY <2>8, <2>9, <2>11
    <3>2. ClientState(c)' /\ Expected(c)' = e2
      BY <2>1, <3>1, DeliveredOne
    <3>3. p.type = "JoinChannel" /\ p.channel = name /\ p.who = {user}
      BY DEF ChannelPacket
    <3>4. e2 = OnUserJoined(e, p)
      BY <3>1, <3>3, ReceivedIs
    <3> HIDE DEF p, e2, e
    <3>5. /\ SameUser(e, e2)
          /\ \A other : other # name => Keeps(e, e2, other)
          /\ \A entry : Has(e, name, entry) => Has(e2, name, WithUser(entry, user))
      BY <2>1, <2>5, <3>3, <3>4, JoinedHandled
    <3>6. WithUser(ChannelEntry(users, channels[i]), user) =
            ChannelEntry(users, channel)
      BY <1>1, <2>1, <2>2, EntryJoined
    <3>7. InStep(e2, users', channels', expelled', c)
      <4> HIDE DEF channel
      <4>1. <<c, name>> \notin expelled' =>
              Has(e2, name, ChannelEntry(users, channel)) /\ c \in channel.Clients
        BY <2>4, <2>6, <2>11, <3>5, <3>6
      <4> QED
        BY <1>1, <2>1, <2>2, <3>5, <4>1, OneChanged
    <3> QED
      BY <3>2, <3>7 DEF Advances
  <2>12. CASE c # serving /\ c \notin channels[i].Clients
    BY <1>1, <1>3, <2>4, <2>8, <2>12, OutsiderAdvances
  <2> QED
    BY <2>10, <2>11, <2>12
<1> QED
  BY <1>2, <1>3

LEMMA CreateAdvances ==
  ASSUME SystemInv, ServerStep, Request, AllFit, NEW name \in ChannelName,
         Creates(name), NEW c \in Client
  PROVE  Advances(c)
<1> DEFINE e == Expected(c)
           n == Len(channels)
           answer == Answer(serving, "JoinChannel_Complete", "ChannelCreated", name)
           channel == [Enabled |-> TRUE, Name |-> name, Clients |-> {serving},
                       Operators |-> {serving}, Banned |-> {}]
<1>1. /\ users[serving].Identified /\ Send({answer})
      /\ \A j \in DOMAIN channels : channels[j].Enabled => channels[j].Name # name
      /\ channels' = Append(channels, channel)
  BY DEF Creates
<1>2. CASE ~Connected(c)
  <2> HIDE DEF answer
  <2> QED
    BY <1>1, <1>2, BystanderAdvances
<1>3. CASE Connected(c)
  <2>1. /\ ServerInv /\ SystemTypes
        /\ ClientState(c) /\ e \in View /\ c \in clients /\ view[c].Online
        /\ InStep(e, users, channels, expelled, c)
        /\ expelled \subseteq expelled'
    BY <1>3, Invariants
  <2>2. users' = users /\ serving \in clients
    BY DEF Request
  <2>3. /\ n \in Nat /\ DOMAIN channels = 1..n /\ DOMAIN channels' = 1..(n + 1)
        /\ channels'[n + 1] = channel
        /\ \A j \in 1..n : channels'[j] = channels[j]
    BY <1>1, <2>1 DEF ServerInv, SoundChannels, Sound
  <2>4. \A j \in DOMAIN channels : channels[j].Name = name =>
          channels[j].Clients = {}
    BY <1>1, <2>1 DEF ServerInv, SoundChannels, Sound, SoundChannel
  <2>5. <<c, name>> \notin expelled' => Lacks(e, name)
    BY <2>1, <2>4 DEF InStep, Sees
  <2>6. answer.to = serving /\ answer.type = "JoinChannel_Complete"
        /\ answer.result = "ChannelCreated" /\ answer.channel = name
    BY DEF Answer, ChannelPacket
  <2>7. Sent(c) = IF c = serving THEN {answer} ELSE {}
    <3>1. ~Traceless(answer)
      BY <2>6 DEF Traceless
    <3> HIDE DEF answer
    <3> QED
      BY <1>1, <2>1, <2>6, <3>1 DEF Sent, Send
  <2>8. Sent(c) \subseteq GoodPacket
    BY DEF Sent, AllFit, Fit
  <2>9. PICK e2 : /\ ClientState(c)' /\ Expected(c)' = e2 /\ SameUser(e, e2)
                  /\ \A other : other # name => Keeps(e, e2, other)
                  /\ c # serving => Keeps(e, e2, name)
                  /\ c = serving /\ <<c, name>> \notin expelled' =>
                       Has(e2, name, ChannelEntry(users, channel))
    <3>1. CASE c = serving
      <4> DEFINE x == Received(e, answer)
      <4>1. Sent(c) = {answer} /\ answer \in GoodPacket
        BY <2>7, <2>8, <3>1
      <4>2. ClientState(c)' /\ Expected(c)' = x
        BY <2>1, <4>1, DeliveredOne
      <4>3. x = OnJoinComplete(e, answer) /\ answer \in Packet
        BY <2>6, <4>1, ReceivedIs DEF GoodPacket
      <4>4. e.User = UserAndHost(users[c])
        BY <1>1, <2>1, <3>1 DEF InStep, Knows
      <4> HIDE DEF x, answer, e
      <4>5. /\ SameUser(e, x)
            /\ \A other : other # name => Keeps(e, x, other)
            /\ Lacks(e, name) =>
                 Has(x, name, EntryOf(name, {e.User}, {e.User}, {}))
        BY <2>1, <2>6, <4>3, JoinHandled
      <4>6. ChannelEntry(users, channel) = EntryOf(name, {e.User}, {e.User}, {})
        <5>1. Identities(users, {serving}) = {e.User}
          BY <3>1, <4>4 DEF Identities
        <5> QED
          BY <5>1 DEF ChannelEntry
      <4> HIDE DEF channel
      <4> QED
        BY <2>5, <3>1, <4>2, <4>5, <4>6 DEF e
    <3>2. CASE c # serving
      <4>1. ClientState(c)' /\ Expected(c)' = e
        BY <2>1, <2>7, <3>2, DeliveredNone
      <4> HIDE DEF e
      <4> QED
        BY <2>1, <3>2, <4>1, SameView
    <3> QED
      BY <3>1, <3>2
  <2> HIDE DEF e
  <2>10. Knows(e2, users', c)
    BY <2>1, <2>2, <2>9 DEF InStep, Knows, SameUser
  <2>11. ASSUME NEW other \in ChannelName, <<c, other>> \notin expelled'
         PROVE  Sees(e2, users', channels', c, other)
    <3> HIDE DEF n
    <3>1. Sees(e, users, channels, c, other)
      BY <2>1, <2>11 DEF InStep
    <3>2. CASE other = name /\ c = serving
      <4>1. Has(e2, other, ChannelEntry(users', channels'[n + 1]))
        BY <2>2, <2>3, <2>9, <2>11, <3>2
      <4>2. \A j \in DOMAIN channels' :
              channels'[j].Name = name /\ c \in channels'[j].Clients => j = n + 1
        BY <2>3, <2>4
      <4>3. n + 1 \in DOMAIN channels' /\ channels'[n + 1].Name = name
            /\ c \in channels'[n + 1].Clients
        BY <2>3, <3>2
      <4> QED
        BY <3>2, <4>1, <4>2, <4>3 DEF Sees
    <3>3. CASE other # name \/ c # serving
      <4>1. Keeps(e, e2, other)
        BY <2>9, <3>3
      <4>2. ~(channel.Name = other /\ c \in channel.Clients)
        BY <3>3
      <4> HIDE DEF channel
      <4>3. \A j \in DOMAIN channels' :
              channels'[j].Name = other /\ c \in channels'[j].Clients =>
                j \in DOMAIN channels /\ channels'[j] = channels[j]
        BY <2>3, <4>2
      <4>4. \A j \in DOMAIN channels : j \in DOMAIN channels' /\ channels'[j] = channels[j]
        BY <2>3
      <4> QED
        BY <2>2, <3>1, <4>1, <4>3, <4>4, SeesFrame
    <3> QED
      BY <3>2, <3>3
  <2>12. InStep(e2, users', channels', expelled', c)
    BY <2>10, <2>11 DEF InStep
  <2> QED
    BY <2>9, <2>12 DEF Advances
<1> QED
  BY <1>2, <1>3

LEMMA LeaveAdvances ==
  ASSUME SystemInv, ServerStep, Request, AllFit, NEW i \in DOMAIN channels,
         Leaves(i), NEW c \in Client
  PROVE  Advances(c)
<1> DEFINE e == Expected(c)
           name == channels[i].Name
           channel == Left(channels[i], serving)
           user == UserAndHost(users[serving])
           answer == Answer(serving, "LeaveChannel_Complete", "Ok", name)
           packets == {answer} \cup Notify(i, serving, "LeaveChannel",
                                           "UserLeft", user)
<1>1. /\ serving \in channels[i].Clients
      /\ Changes(i, channel) /\ Send(packets)
  BY DEF Leaves
<1>2. CASE ~Connected(c)
  <2> HIDE DEF packets
  <2> QED
    BY <1>1, <1>2, BystanderAdvances
<1>3. CASE Connected(c)
  <2>1. /\ ServerInv /\ NamesInv /\ HelloBeforeIdentify /\ SystemTypes
        /\ ClientState(c) /\ e \in View /\ c \in clients /\ view[c].Online
        /\ InStep(e, users, channels, expelled, c)
        /\ expelled \subseteq expelled'
    BY <1>3, Invariants
  <2>2. UNCHANGED users /\ serving \in clients
    BY DEF Request
  <2>3. /\ name \in ChannelName /\ channels[i].Enabled
        /\ channels[i] \in ChatChannel
    BY <1>1, <2>1, ChangesIs
  <2>4. /\ channel.Clients = channels[i].Clients \ {serving}
        /\ channel.Operators = channels[i].Operators \ {serving}
        /\ channel.Banned = channels[i].Banned
        /\ channel.Name = name
    BY <2>3, LeftFields
  <2>5. user \in HostInfo
    BY <1>1, <2>1, MemberType
  <2>6. <<c, name>> \notin expelled' =>
          /\ c \in channels[i].Clients => Has(e, name, ChannelEntry(users, channels[i]))
          /\ c \notin channels[i].Clients => Lacks(e, name)
    BY <2>1, <2>3, SeesEnabled DEF InStep
  <2>7. /\ answer.to = serving /\ answer.type = "LeaveChannel_Complete"
        /\ answer.result = "Ok" /\ answer.channel = name
    BY DEF Answer, ChannelPacket
  <2>8. Sent(c) = IF c = serving THEN {answer}
                  ELSE IF c \in channels[i].Clients
                  THEN {ChannelPacket(c, "LeaveChannel", "UserLeft", name, {user})}
                  ELSE {}
    <3>1. ~Traceless(answer)
      BY <2>7 DEF Traceless
    <3> HIDE DEF answer
    <3> QED
      BY <1>1, <2>1, <2>2, <2>7, <3>1, SentByRequest
      DEF NoticeOfEntries
  <2>9. Sent(c) \subseteq GoodPacket
    BY DEF Sent, AllFit, Fit
  <2>10. CASE c = serving
    <3> DEFINE e2 == Received(e, answer)
    <3>1. Sent(c) = {answer} /\ answer \in GoodPacket
      BY <2>8, <2>9, <2>10
    <3>2. ClientState(c)' /\ Expected(c)' = e2
      BY <2>1, <3>1, DeliveredOne
    <3>3. e2 = OnLeaveComplete(e, answer)
      BY <2>7, <3>1, ReceivedIs
    <3> HIDE DEF answer, e2, e
    <3>4. /\ SameUser(e, e2)
          /\ \A other : other # name => Keeps(e, e2, other)
          /\ \A entry : Has(e, name, entry) => Lacks(e2, name)
      BY <2>1, <2>7, <3>3, LeaveHandled
    <3>5. <<c, name>> \notin expelled' => Lacks(e2, name) /\ c \notin channel.Clients
      BY <1>1, <2>4, <2>6, <2>10, <3>4
    <3> HIDE DEF channel
    <3>6. InStep(e2, users', channels', expelled', c)
      <4> HIDE DEF channel
      <4> QED
        BY <1>1, <2>1, <2>2, <3>4, <3>5, OneChanged
    <3> QED
      BY <3>2, <3>6 DEF Advances
  <2>11. CASE c # serving /\ c \in channels[i].Clients
    <3> DEFINE p == ChannelPacket(c, "LeaveChannel", "UserLeft", name, {user})
               e2 == Received(e, p)
    <3>1. Sent(c) = {p} /\ p \in GoodPacket
      BY <2>8, <2>9, <2>11
    <3>2. ClientState(c)' /\ Expected(c)' = e2
      BY <2>1, <3>1, DeliveredOne
    <3>3. p.type = "LeaveChannel" /\ p.channel = name /\ p.who = {user}
      BY DEF ChannelPacket
    <3>4. e2 = OnUserGone(e, p)
      BY <3>1, <3>3, ReceivedIs
    <3> HIDE DEF p, e2, e
    <3>5. /\ SameUser(e, e2)
          /\ \A other : other # name => Keeps(e, e2, other)
          /\ \A entry : Has(e, name, entry) => Has(e2, name, Erase(entry, user))
      BY <2>1, <2>5, <3>3, <3>4, GoneHandled
    <3>6. Erase(ChannelEntry(users, channels[i]), user) =
            ChannelEntry(users, channel)
      BY <1>1, <2>1, <2>4, EntryRemoved
    <3>7. InStep(e2, users', channels', expelled', c)
      <4> HIDE DEF channel
      <4>1. <<c, name>> \notin expelled' =>
              Has(e2, name, ChannelEntry(users, channel)) /\ c \in channel.Clients
        BY <2>4, <2>6, <2>11, <3>5, <3>6
      <4> QED
        BY <1>1, <2>1, <2>2, <3>5, <4>1, OneChanged
    <3> QED
      BY <3>2, <3>7 DEF Advances
  <2>12. CASE c # serving /\ c \notin channels[i].Clients
    BY <1>1, <1>3, <2>4, <2>8, <2>12, OutsiderAdvances
  <2> QED
    BY <2>10, <2>11, <2>12
<1> QED
  BY <1>2, <1>3

\* A packet that takes `user' out of channel i and leaves it as `channel'.
Updates(p, i, channel) ==
  \A v \in View :
    /\ SameUser(v, Received(v, p))
    /\ \A other : other # channels[i].Name => Keeps(v, Received(v, p), other)
    /\ Has(v, channels[i].Name, ChannelEntry(users, channels[i])) =>
         Has(Received(v, p), channels[i].Name, ChannelEntry(users, channel))

\* The notice of a removal, or the answer to the operator that asked for it.
Ousts(p, type, done) ==
  p.type = type \/ (p.type = done /\ p.result = "Ok")

OustsFrom(i, channel, user, type, done) ==
  \A p \in GoodPacket :
    p.channel = channels[i].Name /\ p.who = {user} /\ Ousts(p, type, done) =>
      Updates(p, i, channel)

Removal == {"KickUser", "BanUser"}
RemovalDone == {"KickUser_Complete", "BanUser_Complete"}

\* A kick or a ban: k itself may be left with an entry, and that is noted.
LEMMA RemovalAdvances ==
  ASSUME SystemInv, ServerStep, Request, AllFit, NEW i \in DOMAIN channels,
         serving \in channels[i].Clients,
         NEW k \in channels[i].Clients \ {serving},
         NEW channel, Changes(i, channel),
         channel.Clients = channels[i].Clients \ {k},
         NEW type \in Removal, NEW done \in RemovalDone, NEW result,
         Send({Done(done, i, UserAndHost(users[k]))}
              \cup Notify(i, serving, type, result, UserAndHost(users[k]))),
         OustsFrom(i, channel, UserAndHost(users[k]), type, done),
         NEW c \in Client
  PROVE  Advances(c)
<1> DEFINE e == Expected(c)
           name == channels[i].Name
           user == UserAndHost(users[k])
           answer == Done(done, i, user)
           packets == {answer} \cup Notify(i, serving, type, result, user)
<1>2. CASE ~Connected(c)
  <2> HIDE DEF packets
  <2> QED
    BY <1>2, BystanderAdvances DEF packets
<1>3. CASE Connected(c)
  <2>1. /\ ServerInv /\ NamesInv /\ HelloBeforeIdentify /\ SystemTypes
        /\ ClientState(c) /\ e \in View /\ c \in clients /\ view[c].Online
        /\ InStep(e, users, channels, expelled, c)
        /\ expelled \subseteq expelled'
    BY <1>3, Invariants
  <2>2. UNCHANGED users /\ serving \in clients
    BY DEF Request
  <2>3. name \in ChannelName /\ channels[i].Enabled
    BY <2>1, ChangesIs
  <2>4. <<c, name>> \notin expelled' =>
          /\ c \in channels[i].Clients => Has(e, name, ChannelEntry(users, channels[i]))
          /\ c \notin channels[i].Clients => Lacks(e, name)
    BY <2>1, <2>3, SeesEnabled DEF InStep
  <2>5. /\ answer.to = serving /\ answer.type = done
        /\ answer.result = "Ok" /\ answer.channel = name /\ answer.who = {user}
    BY DEF Done, Answer, ChannelPacket
  <2> DEFINE notice == ChannelPacket(c, type, result, name, {user})
  <2>6. /\ notice.to = c /\ notice.type = type
        /\ notice.channel = name /\ notice.who = {user}
    BY DEF ChannelPacket
  <2>7. Sent(c) = IF c = serving THEN {answer}
                  ELSE IF c \in channels[i].Clients THEN {notice} ELSE {}
    <3>1. ~Traceless(answer)
      BY <2>5 DEF Traceless, RemovalDone
    <3>2. Send({answer} \cup Notify(i, serving, type, result, user))
      OBVIOUS
    <3>3. type \in NoticeOfEntries
      BY DEF NoticeOfEntries, Removal
    <3> HIDE DEF answer, user
    <3> QED
      BY <2>1, <2>2, <2>5, <3>1, <3>2, <3>3, SentByRequest
  <2>8. Sent(c) \subseteq GoodPacket
    BY DEF Sent, AllFit, Fit
  <2> HIDE DEF answer, notice, user
  <2>9. CASE c \in channels[i].Clients
    <3>1. PICK p \in GoodPacket :
            /\ Sent(c) = {p}
            /\ p.channel = name /\ p.who = {user}
            /\ Ousts(p, type, done)
            /\ c # serving => p.type = type
      BY <2>5, <2>6, <2>7, <2>8, <2>9 DEF Ousts
    <3> DEFINE e2 == Received(e, p)
    <3>2. ClientState(c)' /\ Expected(c)' = e2
      BY <2>1, <3>1, DeliveredOne
    <3>3. Updates(p, i, channel)
      BY <3>1 DEF user, OustsFrom
    <3> HIDE DEF e
    <3>4. /\ SameUser(e, e2)
          /\ \A other : other # name => Keeps(e, e2, other)
          /\ Has(e, name, ChannelEntry(users, channels[i])) =>
               Has(e2, name, ChannelEntry(users, channel))
      BY <2>1, <3>3 DEF Updates
    <3>5. c = k => <<c, name>> \in expelled'
      <4> SUFFICES ASSUME c = k PROVE <<c, name>> \in expelled'
        OBVIOUS
      <4>1. p \in Sent(c) /\ p.type \in {"KickUser", "BanUser"}
            /\ p.channel = name /\ p.who = {UserAndHost(users[c])}
        BY <3>1 DEF user, Ousts, Removal
      <4>2. <<c, name>> \in Client \X ChannelName
            /\ <<c, name>>[1] = c /\ <<c, name>>[2] = name
        BY <2>3
      <4> QED
        BY <4>1, <4>2 DEF ServerStep
    <3>6. <<c, name>> \notin expelled' =>
            Has(e2, name, ChannelEntry(users, channel)) /\ c \in channel.Clients
      BY <2>4, <2>9, <3>4, <3>5
    <3> HIDE DEF e2
    <3>7. InStep(e2, users', channels', expelled', c)
      BY <2>1, <2>2, <3>4, <3>6, OneChanged
    <3> QED
      BY <3>2, <3>7 DEF Advances
  <2>10. CASE c \notin channels[i].Clients
    <3>1. Sent(c) = {} /\ c \notin channel.Clients
      BY <2>7, <2>10
    <3> QED
      BY <1>3, <2>10, <3>1, OutsiderAdvances
  <2> QED
    BY <2>9, <2>10
<1> QED
  BY <1>2, <1>3

LEMMA KickAdvances ==
  ASSUME SystemInv, ServerStep, Request, AllFit, NEW i \in DOMAIN channels,
         NEW k \in Client, Kicks(i, k), NEW c \in Client
  PROVE  Advances(c)
<1> DEFINE channel == Removed(channels[i], k)
           user == UserAndHost(users[k])
<1>1. /\ ServerInv /\ NamesInv /\ serving \in channels[i].Clients
      /\ k \in channels[i].Clients \ {serving} /\ Changes(i, channel)
      /\ Send({Done("KickUser_Complete", i, user)}
              \cup Notify(i, serving, "KickUser", "UserKicked", user))
  BY Invariants DEF Kicks
<1>2. /\ channel.Name = channels[i].Name
      /\ channel.Clients = channels[i].Clients \ {k}
      /\ channel.Operators = channels[i].Operators \ {k}
      /\ channel.Banned = channels[i].Banned
  BY <1>1, ChangesIs, RemovedFields
<1>3. user \in HostInfo
  BY <1>1, MemberType
<1> HIDE DEF channel
<1>4. Erase(ChannelEntry(users, channels[i]), user) = ChannelEntry(users, channel)
  BY <1>1, <1>2, EntryRemoved
<1> HIDE DEF user
<1>5. ASSUME NEW p \in GoodPacket, p.channel = channels[i].Name, p.who = {user},
             Ousts(p, "KickUser", "KickUser_Complete")
      PROVE  Updates(p, i, channel)
  <2> SUFFICES ASSUME NEW v \in View
               PROVE  LET w == Received(v, p) IN
                      /\ SameUser(v, w)
                      /\ \A other : other # channels[i].Name => Keeps(v, w, other)
                      /\ Has(v, channels[i].Name, ChannelEntry(users, channels[i])) =>
                           Has(w, channels[i].Name, ChannelEntry(users, channel))
    BY DEF Updates
  <2>1. Received(v, p) = OnUserGone(v, p)
    BY <1>5, ReceivedIs DEF Ousts
  <2>2. LET w == OnUserGone(v, p) IN
        /\ SameUser(v, w)
        /\ \A other : other # p.channel => Keeps(v, w, other)
        /\ \A entry : Has(v, p.channel, entry) =>
             Has(w, p.channel, Erase(entry, user))
    BY <1>3, <1>5, GoneHandled
  <2> QED
    BY <1>4, <1>5, <2>1, <2>2
<1>6. OustsFrom(i, channel, user, "KickUser", "KickUser_Complete")
  BY <1>5 DEF OustsFrom
<1> QED
  BY <1>1, <1>2, <1>6, RemovalAdvances
  DEF user, Removal, RemovalDone

LEMMA BanAdvances ==
  ASSUME SystemInv, ServerStep, Request, AllFit, NEW i \in DOMAIN channels,
         NEW k \in Client, Bans(i, k), NEW c \in Client
  PROVE  Advances(c)
<1> DEFINE user == UserAndHost(users[k])
           channel == Ban(channels[i], k, user)
<1>1. /\ ServerInv /\ NamesInv /\ serving \in channels[i].Clients
      /\ k \in channels[i].Clients \ {serving} /\ Changes(i, channel)
      /\ Send({Done("BanUser_Complete", i, user)}
              \cup Notify(i, serving, "BanUser", "UserBanned", user))
  BY Invariants DEF Bans
<1>2. channel.Clients = channels[i].Clients \ {k}
  BY <1>1, ChangesIs, BanFields
<1>3. user \in HostInfo
  BY <1>1, MemberType
<1>4. EraseBanned(ChannelEntry(users, channels[i]), user) =
        ChannelEntry(users, channel)
  BY <1>1, EntryBanned
<1> HIDE DEF channel, user
<1>5. ASSUME NEW p \in GoodPacket, p.channel = channels[i].Name, p.who = {user},
             Ousts(p, "BanUser", "BanUser_Complete")
      PROVE  Updates(p, i, channel)
  <2> SUFFICES ASSUME NEW v \in View
               PROVE  LET w == Received(v, p) IN
                      /\ SameUser(v, w)
                      /\ \A other : other # channels[i].Name => Keeps(v, w, other)
                      /\ Has(v, channels[i].Name, ChannelEntry(users, channels[i])) =>
                           Has(w, channels[i].Name, ChannelEntry(users, channel))
    BY DEF Updates
  <2>1. Received(v, p) = OnUserBanned(v, p)
    BY <1>5, ReceivedIs DEF Ousts
  <2>2. LET w == OnUserBanned(v, p) IN
        /\ SameUser(v, w)
        /\ \A other : other # p.channel => Keeps(v, w, other)
        /\ \A entry : Has(v, p.channel, entry) =>
             Has(w, p.channel, EraseBanned(entry, user))
    BY <1>3, <1>5, BannedHandled
  <2> QED
    BY <1>4, <1>5, <2>1, <2>2
<1>6. OustsFrom(i, channel, user, "BanUser", "BanUser_Complete")
  BY <1>5 DEF OustsFrom
<1> QED
  BY <1>1, <1>2, <1>6, RemovalAdvances
  DEF user, Removal, RemovalDone
-----------------------------------------------------------------------------
(***************************************************************************)
(* The other steps of the server.                                          *)
(***************************************************************************)
\* Nothing changes for a client in channels whose members keep their names.
LEMMA InStepFrame ==
  ASSUME ServerInv, UNCHANGED channels,
         \A i \in DOMAIN channels : \A k \in channels[i].Clients :
           UserAndHost(users'[k]) = UserAndHost(users[k]),
         NEW c, \A name : <<c, name>> \in expelled => <<c, name>> \in expelled',
         NEW e, InStep(e, users, channels, expelled, c),
         NEW e2, Knows(e2, users', c), \A name : Keeps(e, e2, name)
  PROVE  InStep(e2, users', channels', expelled', c)
<1>1. ASSUME NEW i \in DOMAIN channels
      PROVE  ChannelEntry(users', channels[i]) = ChannelEntry(users, channels[i])
  <2>1. /\ Identities(users', channels[i].Clients) =
             Identities(users, channels[i].Clients)
        /\ Identities(users', channels[i].Operators) =
             Identities(users, channels[i].Operators)
    BY MembersIdentified DEF Identities
  <2> QED
    BY <2>1 DEF ChannelEntry
<1>2. ASSUME NEW name \in ChannelName, <<c, name>> \notin expelled'
      PROVE  Sees(e2, users', channels', c, name)
  <2>1. Sees(e, users, channels, c, name) /\ Keeps(e, e2, name)
    BY <1>2 DEF InStep
  <2> QED
    BY <1>1, <2>1, SeesFrame
<1> QED
  BY <1>2 DEF InStep

LEMMA QuietAdvances ==
  ASSUME SystemInv, ServerStep, UNCHANGED channels,
         \A p \in out' : Traceless(p),
         \A k \in Client : /\ users'[k].Identified = users[k].Identified
                           /\ UserAndHost(users'[k]) = UserAndHost(users[k]),
         NEW c \in Client
  PROVE  Advances(c)
<1> DEFINE e == Expected(c)
<1>1. Sent(c) = {}
  BY DEF Sent
<1>2. ClientState(c)' /\ Expected(c)' = e
  BY <1>1, Invariants, DeliveredNone
<1>3. CASE Connected(c)
  <2>1. /\ ServerInv /\ e \in View /\ InStep(e, users, channels, expelled, c)
        /\ expelled \subseteq expelled'
    BY <1>3, Invariants
  <2> HIDE DEF e
  <2>2. Knows(e, users', c)
    BY <2>1 DEF InStep, Knows
  <2>3. \A i \in DOMAIN channels : channels[i].Clients \subseteq Client
    BY <2>1, MembersIdentified
  <2>4. InStep(e, users', channels', expelled', c)
    BY <2>1, <2>2, <2>3, SameView, InStepFrame
  <2> QED
    BY <1>2, <2>4 DEF Advances
<1> QED
  BY <1>2, <1>3, Invariants DEF Advances

\* What Hello and Identify do to the user of the client.
LEMMA HelloUser ==
  ASSUME ServerInv, serving \in Client, Hello(serving)
  PROVE  \A k \in Client : /\ users'[k].Identified = users[k].Identified
                           /\ UserAndHost(users'[k]) = UserAndHost(users[k])
<1>1. /\ users \in [Client -> ChatUser \cup {NoUser}]
      /\ users[serving] \in ChatUser
      /\ users' = [users EXCEPT ![serving].Enabled = TRUE]
  BY DEF Hello, ServerInv, Sessions, GetChatUser
<1>2. \A k \in Client \ {serving} : users'[k] = users[k]
  BY <1>1
<1>3. /\ users'[serving].Identified = users[serving].Identified
      /\ users'[serving].Username = users[serving].Username
      /\ users'[serving].Hostname = users[serving].Hostname
  BY <1>1 DEF ChatUser, GuestUser, IdentifiedUser
<1> QED
  BY <1>2, <1>3 DEF UserAndHost

LEMMA IdentifiedUserIs ==
  ASSUME ServerInv, NEW c \in clients, NEW name, IdentifyAccepted(c, name)
  PROVE  /\ ~users[c].Identified
         /\ users'[c].Identified
         /\ UserAndHost(users'[c]) = <<name, HashString[users[c].Hostname]>>
         /\ \A k \in Client \ {c} : users'[k] = users[k]
<1> DEFINE hash == HashString[users[c].Hostname]
           user == [[[users[c] EXCEPT !.Identified = TRUE]
                       EXCEPT !.Username = name] EXCEPT !.Hostname = hash]
<1>1. c \in Client /\ users \in [Client -> ChatUser \cup {NoUser}]
      /\ users[c] \in ChatUser
  BY DEF ServerInv, Sessions, GetChatUser
<1>2. users'[c] = user /\ \A k \in Client \ {c} : users'[k] = users[k]
  BY <1>1 DEF IdentifyAccepted
<1>3. user.Identified /\ user.Username = name /\ user.Hostname = hash
  <2> HIDE DEF hash
  <2> QED
    BY <1>1 DEF ChatUser, GuestUser, IdentifiedUser
<1>4. ~users[c].Identified
  BY DEF IdentifyAccepted, IdentifyResult
<1> HIDE DEF user
<1> QED
  BY <1>2, <1>3, <1>4 DEF UserAndHost

LEMMA IdentifyAdvances ==
  ASSUME SystemInv, ServerStep, AllFit, UNCHANGED channels,
         serving \in clients, NEW name, IdentifyAccepted(serving, name),
         NEW c \in Client
  PROVE  Advances(c)
<1> DEFINE e == Expected(c)
           who == <<name, HashString[users[serving].Hostname]>>
           answer == UserPacket(serving, "Identify_Complete", "Ok", {who})
<1>0. ServerInv /\ Send({answer})
  BY Invariants DEF IdentifyAccepted
<1>1. /\ ~users[serving].Identified /\ users'[serving].Identified
      /\ UserAndHost(users'[serving]) = who
      /\ \A k \in Client \ {serving} : users'[k] = users[k]
  BY <1>0, IdentifiedUserIs
<1>2. /\ answer.to = serving /\ answer.type = "Identify_Complete"
      /\ answer.result = "Ok" /\ answer.who = {who}
  BY DEF UserPacket
<1> HIDE DEF answer, who
<1>3. CASE ~Connected(c)
  BY <1>0, <1>3, BystanderAdvances
<1>4. CASE Connected(c)
  <2>1. /\ SystemTypes /\ ClientState(c) /\ e \in View
        /\ c \in clients /\ view[c].Online
        /\ InStep(e, users, channels, expelled, c)
        /\ expelled \subseteq expelled'
    BY <1>4, Invariants
  <2>2. \A i \in DOMAIN channels : \A k \in channels[i].Clients :
          UserAndHost(users'[k]) = UserAndHost(users[k])
    <3> SUFFICES ASSUME NEW i \in DOMAIN channels, NEW k \in channels[i].Clients
                 PROVE  users'[k] = users[k]
      OBVIOUS
    <3>1. k \in Client /\ users[k].Identified
      BY <1>0, MembersIdentified
    <3> QED
      BY <1>1, <3>1
  <2>3. Sent(c) = IF c = serving THEN {answer} ELSE {}
    <3>1. ~Traceless(answer)
      BY <1>2 DEF Traceless
    <3> QED
      BY <1>0, <1>2, <2>1, <3>1 DEF Sent, Send
  <2>4. Sent(c) \subseteq GoodPacket
    BY DEF Sent, AllFit, Fit
  <2>5. PICK e2 : /\ ClientState(c)' /\ Expected(c)' = e2
                  /\ \A other : Keeps(e, e2, other)
                  /\ Knows(e2, users', c)
    <3>1. CASE c = serving
      <4> DEFINE x == Received(e, answer)
      <4>1. Sent(c) = {answer} /\ answer \in GoodPacket
        BY <2>3, <2>4, <3>1
      <4>2. ClientState(c)' /\ Expected(c)' = x
        BY <2>1, <4>1, DeliveredOne
      <4>3. x = OnIdentifyComplete(e, answer) /\ who \in HostInfo
        BY <1>2, <4>1, ReceivedIs DEF GoodPacket, Packet
      <4> HIDE DEF x, e
      <4>4. x.Identified /\ x.User = who /\ \A other : Keeps(e, x, other)
        BY <1>2, <2>1, <4>3, IdentifyHandled
      <4>5. Knows(x, users', c)
        BY <1>1, <3>1, <4>4 DEF Knows
      <4> QED
        BY <4>2, <4>4, <4>5 DEF e
    <3>2. CASE c # serving
      <4>1. ClientState(c)' /\ Expected(c)' = e
        BY <2>1, <2>3, <3>2, DeliveredNone
      <4> HIDE DEF e
      <4>2. Knows(e, users', c)
        BY <1>1, <2>1, <3>2 DEF InStep, Knows
      <4> QED
        BY <2>1, <4>1, <4>2, SameView
    <3> QED
      BY <3>1, <3>2
  <2> HIDE DEF e
  <2>6. InStep(e2, users', channels', expelled', c)
    BY <1>0, <2>1, <2>2, <2>5, InStepFrame
  <2> QED
    BY <2>5, <2>6 DEF Advances
<1> QED
  BY <1>3, <1>4

\* The channels that somebody is taken out of at a disconnection, and the
\* notice that client c gets of one.
Departed(d) == {i \in DOMAIN channels : d \in channels[i].Clients}

Shared(d, c) == {i \in Departed(d) : c \in channels[i].Clients}

LeaveNotice(c, i, user) ==
  ChannelPacket(c, "LeaveChannel", "UserLeft", channels[i].Name, {user})

LEMMA ImageFinite ==
  ASSUME NEW S, IsFiniteSet(S), NEW T, NEW f \in [S -> T],
         \A y \in T : \E x \in S : f[x] = y
  PROVE  IsFiniteSet(T)
<1>1. f \in Surjection(S, T)
  BY DEF Surjection
<1> QED
  BY <1>1, FS_Surjection

\* Who is in a channel with the client that goes is told of each of them.
LEMMA SentAtDeparture ==
  ASSUME ServerInv, HelloBeforeIdentify, NEW d \in clients,
         OnClientDisconnected(d), NEW c \in clients, view[c].Online,
         NEW user, user = UserAndHost(users[d])
  PROVE  /\ c = d => Sent(c) = {}
         /\ c # d => Sent(c) = {LeaveNotice(c, i, user) : i \in Shared(d, c)}
         /\ IsFiniteSet(Shared(d, c))
<1> DEFINE notices(i) == Notify(i, d, "LeaveChannel", "UserLeft", user)
<1>1. Departed(d) = {j \in DOMAIN channels :
                       channels[j].Enabled /\ d \in channels[j].Clients}
  BY DEF Departed, ServerInv, SoundChannels, Sound, SoundChannel
<1>2. Send(UNION {notices(i) : i \in Departed(d)})
  BY <1>1 DEF OnClientDisconnected, OnMemberDisconnected
<1>3. \A i \in Departed(d) :
        notices(i) = {LeaveNotice(k, i, user) : k \in channels[i].Clients \ {d}}
  BY AudienceAll DEF Notify, LeaveNotice, Departed
<1>4. \A k, i : LeaveNotice(k, i, user).to = k /\ ~Traceless(LeaveNotice(k, i, user))
  BY DEF LeaveNotice, ChannelPacket, Traceless
<1> HIDE DEF notices
<1>5. \A p : p \in Sent(c) <=>
        \E i \in Departed(d) : p \in notices(i) /\ p.to = c /\ ~Traceless(p)
  BY <1>2 DEF Sent, Send
<1>6. \A p : p \in Sent(c) <=>
        \E i \in Departed(d) : /\ p = LeaveNotice(c, i, user)
                               /\ c \in channels[i].Clients \ {d}
  BY <1>3, <1>4, <1>5
<1>7. IsFiniteSet(Shared(d, c))
  <2>1. DOMAIN channels = 1..Len(channels) /\ Len(channels) \in Nat
    BY DEF ServerInv, SoundChannels, Sound
  <2>2. IsFiniteSet(1..Len(channels)) /\ Shared(d, c) \in SUBSET (1..Len(channels))
    BY <2>1, FS_Interval DEF Departed, Shared
  <2> QED
    BY <2>2, FS_Subset
<1>8. c = d => Sent(c) = {}
  BY <1>6
<1>9. c # d => Sent(c) = {LeaveNotice(c, i, user) : i \in Shared(d, c)}
  BY <1>6 DEF Shared
<1> QED
  BY <1>7, <1>8, <1>9

\* The packets of a disconnection as client c reads them, in whatever order.
LEMMA DepartureRead ==
  ASSUME SystemInv, ServerStep, AllFit, NEW d \in clients,
         OnClientDisconnected(d), NEW c \in Client, c # d, Connected(c),
         NEW e, e = Expected(c), NEW user, user = UserAndHost(users[d])
  PROVE  \E w : /\ ClientState(c)' /\ Expected(c)' = w /\ SameUser(e, w)
                /\ \A name : (\A i \in Departed(d) : channels[i].Name = name =>
                                c \notin channels[i].Clients) =>
                     Keeps(e, w, name)
                /\ \A i \in Departed(d) : \A entry :
                     c \in channels[i].Clients /\ Has(e, channels[i].Name, entry) =>
                       Has(w, channels[i].Name, Erase(entry, user))
<1> DEFINE both == Shared(d, c)
           s == SetToSeq(Sent(c))
           w == Expected(c)'
<1>1. /\ ServerInv /\ HelloBeforeIdentify /\ SystemTypes
      /\ ClientState(c) /\ e \in View /\ c \in clients /\ view[c].Online
  BY Invariants
<1>2. /\ Sent(c) = {LeaveNotice(c, i, user) : i \in both}
      /\ IsFiniteSet(both)
  BY <1>1, SentAtDeparture
<1>3. IsFiniteSet(Sent(c))
  <2> DEFINE f == [i \in both |-> LeaveNotice(c, i, user)]
  <2>1. f \in [both -> Sent(c)] /\ \A p \in Sent(c) : \E i \in both : f[i] = p
    BY <1>2
  <2> HIDE DEF f, both
  <2> QED
    BY <1>2, <2>1, ImageFinite
<1>4. Sent(c) \subseteq GoodPacket
  BY DEF Sent, AllFit, Fit
<1>5. /\ s \in Seq(GoodPacket) /\ ClientState(c)'
      /\ w = FoldLeft(Received, e, s)
  BY <1>1, <1>3, <1>4, Delivered
<1>6. /\ s \in Seq(Sent(c))
      /\ \A j, k \in 1..Len(s) : s[j] = s[k] => j = k
      /\ \A p \in Sent(c) : \E k \in 1..Len(s) : s[k] = p
  BY <1>3, SetToSeqIs
<1>7. \A i : LET p == LeaveNotice(c, i, user) IN
        p.type = "LeaveChannel" /\ p.who = {user} /\ p.channel = channels[i].Name
  BY DEF LeaveNotice, ChannelPacket
<1>8. \A i, j \in both : channels[i].Name = channels[j].Name => i = j
  <2>1. \A i \in both : i \in DOMAIN channels /\ channels[i].Enabled
                        /\ c \in channels[i].Clients
    BY <1>1 DEF Shared, Departed, ServerInv, SoundChannels, Sound, SoundChannel
  <2> QED
    BY <1>1, <2>1, OneEnabled
<1> HIDE DEF s, w, both
<1>9. \A k \in 1..Len(s) : \E i \in both : s[k] = LeaveNotice(c, i, user)
  BY <1>2, <1>6
<1>10. \A i \in both : \E k \in 1..Len(s) : s[k] = LeaveNotice(c, i, user)
  BY <1>2, <1>6
<1>11. \A k \in 1..Len(s) : s[k].type = "LeaveChannel" /\ s[k].who = {user}
  BY <1>7, <1>9
<1>12. \A j, k \in 1..Len(s) : s[j].channel = s[k].channel => j = k
  <2> SUFFICES ASSUME NEW j \in 1..Len(s), NEW k \in 1..Len(s),
                      s[j].channel = s[k].channel
               PROVE  j = k
    OBVIOUS
  <2>1. PICK a \in both : s[j] = LeaveNotice(c, a, user)
    BY <1>9
  <2>2. PICK b \in both : s[k] = LeaveNotice(c, b, user)
    BY <1>9
  <2>3. a = b
    BY <1>7, <1>8, <2>1, <2>2
  <2> QED
    BY <1>6, <2>1, <2>2, <2>3
<1>13. CASE both = {}
  <2>1. ClientState(c)' /\ w = e
    BY <1>1, <1>2, <1>13, DeliveredNone DEF w
  <2>2. \A i \in Departed(d) : c \notin channels[i].Clients
    BY <1>13 DEF both, Shared
  <2> QED
    BY <1>1, <2>1, <2>2, SameView DEF w
<1>14. CASE both # {}
  <2>1. user \in HostInfo
    BY <1>1, <1>14, MemberType DEF both, Shared, Departed
  <2>2. /\ SameUser(e, w)
        /\ \A name : (\A k \in 1..Len(s) : s[k].channel # name) => Keeps(e, w, name)
        /\ \A k \in 1..Len(s) : \A entry : Has(e, s[k].channel, entry) =>
             Has(w, s[k].channel, Erase(entry, user))
    BY <1>1, <1>5, <1>11, <1>12, <2>1, DeparturesHandled
  <2>3. ASSUME NEW name, \A i \in Departed(d) : channels[i].Name = name =>
                           c \notin channels[i].Clients
        PROVE  Keeps(e, w, name)
    <3>1. \A i \in both : channels[i].Name # name
      BY <2>3 DEF both, Shared
    <3>2. \A k \in 1..Len(s) : s[k].channel # name
      BY <1>7, <1>9, <3>1
    <3> QED
      BY <2>2, <3>2
  <2>4. ASSUME NEW i \in Departed(d), NEW entry, c \in channels[i].Clients,
               Has(e, channels[i].Name, entry)
        PROVE  Has(w, channels[i].Name, Erase(entry, user))
    <3>1. PICK k \in 1..Len(s) : s[k] = LeaveNotice(c, i, user)
      BY <1>10, <2>4 DEF both, Shared
    <3>2. s[k].channel = channels[i].Name
      BY <1>7, <3>1
    <3> QED
      BY <2>2, <2>4, <3>2
  <2> QED
    BY <1>5, <2>2, <2>3, <2>4 DEF w
<1> QED
  BY <1>13, <1>14

LEMMA DepartureAdvances ==
  ASSUME SystemInv, ServerStep, AllFit, NEW d \in clients,
         OnClientDisconnected(d), NEW c \in Client
  PROVE  Advances(c)
<1> DEFINE e == Expected(c)
           user == UserAndHost(users[d])
<1>1. ServerInv /\ NamesInv /\ HelloBeforeIdentify /\ SystemTypes /\ ClientState(c)
  BY Invariants
<1>2. CASE ~Connected(c)
  BY <1>2, BystanderAdvances DEF OnClientDisconnected, OnMemberDisconnected
<1>3. CASE Connected(c) /\ c = d
  <2>1. Sent(c) = {}
    BY <1>1, <1>3, SentAtDeparture DEF Connected
  <2>2. ClientState(c)'
    BY <1>1, <2>1, DeliveredNone
  <2>3. ~Connected(c)'
    BY <1>3 DEF OnClientDisconnected, Connected
  <2> QED
    BY <2>2, <2>3 DEF Advances
<1>4. CASE Connected(c) /\ c # d
  <2>1. /\ e \in View /\ c \in clients
        /\ InStep(e, users, channels, expelled, c)
        /\ expelled \subseteq expelled'
    BY <1>4, Invariants
  <2>2. PICK w :
          /\ ClientState(c)' /\ Expected(c)' = w /\ SameUser(e, w)
          /\ \A name : (\A i \in Departed(d) : channels[i].Name = name =>
                          c \notin channels[i].Clients) =>
               Keeps(e, w, name)
          /\ \A i \in Departed(d) : \A entry :
               c \in channels[i].Clients /\ Has(e, channels[i].Name, entry) =>
                 Has(w, channels[i].Name, Erase(entry, user))
    <3> HIDE DEF e, user
    <3> QED
      BY <1>4, DepartureRead DEF e, user
  <2>3. \A k \in clients \ {d} : users'[k] = users[k]
    BY <1>1 DEF OnClientDisconnected, OnUserDisconnected, ServerInv, Sessions
  <2>4. DOMAIN channels' = DOMAIN channels
    BY DEF OnClientDisconnected, OnMemberDisconnected
  <2>5. ASSUME NEW i \in DOMAIN channels
        PROVE  /\ channels'[i].Name = channels[i].Name
               /\ channels'[i].Clients = channels[i].Clients \ {d}
               /\ channels'[i].Operators = channels[i].Operators \ {d}
               /\ channels'[i].Banned = channels[i].Banned
    BY <1>1, WithoutClientFields
    DEF OnClientDisconnected, OnMemberDisconnected, ServerInv, SoundChannels,
        Sound, SoundChannel
  <2> HIDE DEF e
  <2>6. Knows(w, users', c)
    BY <1>4, <2>1, <2>2, <2>3 DEF InStep, Knows, SameUser
  <2>7. ASSUME NEW name \in ChannelName, <<c, name>> \notin expelled'
        PROVE  Sees(w, users', channels', c, name)
    <3>1. Sees(e, users, channels, c, name)
      BY <2>1, <2>7 DEF InStep
    <3>2. ASSUME NEW i \in DOMAIN channels, channels[i].Name = name,
                 c \in channels[i].Clients
          PROVE  Has(w, name, ChannelEntry(users', channels'[i]))
      <4>1. Has(e, name, ChannelEntry(users, channels[i]))
        BY <3>1, <3>2 DEF Sees
      <4>2. CASE d \in channels[i].Clients
        <5>1. Has(w, name, Erase(ChannelEntry(users, channels[i]), user))
          BY <2>2, <3>2, <4>1, <4>2 DEF Departed
        <5>2. Erase(ChannelEntry(users, channels[i]), UserAndHost(users[d])) =
                ChannelEntry(users', channels'[i])
          BY <1>1, <2>3, <2>5, <4>2, EntryRemoved
        <5> QED
          BY <5>1, <5>2
      <4>3. CASE d \notin channels[i].Clients
        <5>1. \A j \in Departed(d) : channels[j].Name = name =>
                c \notin channels[j].Clients
          <6> SUFFICES ASSUME NEW j \in DOMAIN channels, channels[j].Name = name,
                              c \in channels[j].Clients
                       PROVE  j = i
            BY <4>3 DEF Departed
          <6>1. channels[i].Enabled
            BY <1>1, <3>2 DEF ServerInv, SoundChannels, Sound, SoundChannel
          <6> QED
            BY <1>1, <3>2, <6>1, OneEnabled
        <5>2. Has(w, name, ChannelEntry(users, channels[i]))
          BY <2>2, <4>1, <5>1 DEF Keeps
        <5>3. /\ channels[i].Operators \subseteq channels[i].Clients
              /\ channels[i].Clients \subseteq clients \ {d}
          BY <1>1, <4>3, MembersIdentified
        <5>4. /\ channels'[i].Name = channels[i].Name
              /\ channels'[i].Clients = channels[i].Clients
              /\ channels'[i].Operators = channels[i].Operators
              /\ channels'[i].Banned = channels[i].Banned
          BY <2>5, <4>3, <5>3
        <5>5. /\ Identities(users', channels[i].Clients) =
                   Identities(users, channels[i].Clients)
              /\ Identities(users', channels[i].Operators) =
                   Identities(users, channels[i].Operators)
          BY <2>3, <5>3 DEF Identities
        <5>6. ChannelEntry(users', channels'[i]) = ChannelEntry(users, channels[i])
          BY <5>4, <5>5 DEF ChannelEntry
        <5> QED
          BY <5>2, <5>6
      <4> QED
        BY <4>2, <4>3
    <3>3. ASSUME \A i \in DOMAIN channels : channels[i].Name = name =>
                   c \notin channels[i].Clients
          PROVE  Lacks(w, name)
      <4>1. Lacks(e, name) /\ Keeps(e, w, name)
        BY <2>2, <3>1, <3>3 DEF Sees, Departed
      <4> QED
        BY <4>1 DEF Keeps
    <3> QED
      BY <1>4, <2>4, <2>5, <3>2, <3>3 DEF Sees
  <2>8. InStep(w, users', channels', expelled', c)
    BY <2>6, <2>7 DEF InStep
  <2> QED
    BY <2>2, <2>8 DEF Advances
<1> QED
  BY <1>2, <1>3, <1>4

\* Every step of the server, for each client.
LEMMA ServerStepKeeps ==
  ASSUME SystemInv, ServerStep, NEW c \in Client
  PROVE  Advances(c)
<1>1. ServerInv /\ Next /\ clients' \subseteq clients
  BY Invariants DEF ServerStep
<1>2. AllFit /\ out' \subseteq Packet
  BY <1>1, StepFits, ServerInvStep DEF ServerInv
<1>3. serving \in Client => serving \in clients
  BY <1>1, NothingAssumption DEF ServerInv, Sessions
<1>4. CASE \E d \in Client, host \in Host : OnClientConnected(d, host)
  BY <1>1, <1>4 DEF OnClientConnected
<1>5. CASE \E d \in Client : CloseConnection(d)
  BY <1>2, <1>5, DepartureAdvances DEF CloseConnection
<1>6. CASE MalformedPacket \/ NothingHandled
  BY <1>2, <1>3, <1>6, DepartureAdvances
  DEF MalformedPacket, NothingHandled, Serving
<1>7. CASE (\E d \in Client : ReceiveChunk(d)) \/ IgnoredPacket \/ EndOfChunk
  <2>1. out' = {} /\ UNCHANGED <<users, channels>>
    BY <1>7 DEF ReceiveChunk, IgnoredPacket, EndOfChunk, Silent
  <2> QED
    BY <2>1, QuietAdvances
<1>8. CASE HandleHello
  <2>1. UNCHANGED channels /\ Hello(serving) /\ serving \in Client
    BY <1>8 DEF HandleHello, Handled, Serving
  <2>2. \A p \in out' : Traceless(p)
    BY <2>1 DEF Hello, Send, SystemPacket, Traceless
  <2> QED
    BY <1>1, <2>1, <2>2, HelloUser, QuietAdvances
<1>9. CASE HandleUserPacket
  <2>1. serving \in clients /\ UNCHANGED channels
    BY <1>3, <1>9 DEF HandleUserPacket, Handled, Serving
  <2>2. CASE \E name \in Username : IdentifyRefused(serving, name)
    <3>1. PICK name \in Username : IdentifyRefused(serving, name)
      BY <2>2
    <3>2. \A p \in out' :
            /\ p.type = "Identify_Complete"
            /\ p.result = IdentifyResult(serving, name)
      BY <3>1 DEF IdentifyRefused, Send, UserPacket
    <3>3. IdentifyResult(serving, name) \notin {"Ok", "ChannelCreated"}
      BY <3>1 DEF IdentifyRefused, IdentifyResult
    <3>4. UNCHANGED users /\ \A p \in out' : Traceless(p)
      BY <3>1, <3>2, <3>3 DEF IdentifyRefused, Traceless
    <3> QED
      BY <2>1, <3>4, QuietAdvances
  <2>3. CASE \E name \in Username : IdentifyAccepted(serving, name)
    BY <1>2, <2>1, <2>3, IdentifyAdvances
  <2>4. CASE SendUserMessage(serving)
    <3>1. UNCHANGED users /\ \A p \in out' : Traceless(p)
      BY <2>4
      DEF SendUserMessage, UserMessageRefused, UserMessageSent, Send,
          UserPacket, Traceless
    <3> QED
      BY <2>1, <3>1, QuietAdvances
  <2> QED
    BY <1>9, <2>2, <2>3, <2>4 DEF HandleUserPacket, Identify
<1>10. CASE HandleChannelPacket
  <2>1. Request /\ Effect
    BY <1>1, <1>2, <1>10, RequestEffect
  <2>2. CASE Quiet
    BY <2>1, <2>2, QuietAdvances DEF Request, Quiet
  <2> QED
    BY <1>2, <2>1, <2>2, CreateAdvances, EnterAdvances, LeaveAdvances,
       KickAdvances, BanAdvances DEF Effect
<1> QED
  BY <1>1, <1>4, <1>5, <1>6, <1>7, <1>8, <1>9, <1>10 DEF Next
-----------------------------------------------------------------------------
(***************************************************************************)
(* The steps of the clients.                                               *)
(***************************************************************************)
LEMMA SameExpected ==
  ASSUME NEW c, view'[c] = view[c], inbox'[c] = inbox[c]
  PROVE  /\ Expected(c)' = Expected(c)
         /\ ClientState(c) => ClientState(c)'
  BY DEF Expected, ClientState

\* Who is not concerned by the step.
LEMMA OthersAdvance ==
  ASSUME SystemInv, UNCHANGED channels,
         NEW d, \A k \in clients \ {d} : users'[k] = users[k],
         \A i \in DOMAIN channels : d \in channels[i].Clients => users'[d] = users[d],
         NEW c \in Client, c # d, view'[c] = view[c], inbox'[c] = inbox[c],
         \A name : <<c, name>> \in expelled => <<c, name>> \in expelled',
         c \in clients' => c \in clients
  PROVE  Advances(c)
<1> DEFINE e == Expected(c)
<1>1. ServerInv /\ ClientState(c)
  BY DEF SystemInv, ClientInv
<1>2. Expected(c)' = e /\ ClientState(c)'
  BY <1>1, SameExpected
<1>3. ASSUME Connected(c)' PROVE InStep(e, users', channels', expelled', c)
  <2>1. /\ Connected(c) /\ InStep(e, users, channels, expelled, c)
        /\ e \in View /\ c \in clients
    BY <1>1, <1>3, ExpectedView DEF Connected, SystemInv, ClientInv
  <2>2. \A i \in DOMAIN channels : \A k \in channels[i].Clients :
          UserAndHost(users'[k]) = UserAndHost(users[k])
    BY <1>1, MembersIdentified
  <2> HIDE DEF e
  <2>3. Knows(e, users', c) /\ \A name : Keeps(e, e, name)
    BY <2>1, SameView DEF InStep, Knows
  <2> QED
    BY <1>1, <2>1, <2>2, <2>3, InStepFrame
<1> QED
  BY <1>2, <1>3 DEF Advances

LEMMA ConnectAdvances ==
  ASSUME SystemInv, NEW d \in Client, NEW host \in Host, Connect(d, host),
         NEW c \in Client
  PROVE  Advances(c)
<1>1. /\ ServerInv /\ DOMAIN view = Client /\ ClientState(c)
      /\ users \in [Client -> ChatUser \cup {NoUser}]
  BY DEF SystemInv, SystemTypes, ClientInv, ServerInv, Sessions
<1>2. /\ ~view[d].Online /\ d \notin clients /\ clients' = clients \cup {d}
      /\ view' = [view EXCEPT ![d] = OnConnected(view[d])]
      /\ OnUserConnected(d, host)
      /\ UNCHANGED <<inbox, expelled, channels>>
  BY DEF Connect, OnClientConnected
<1>3. ~users'[d].Identified /\ \A k \in Client \ {d} : users'[k] = users[k]
  BY <1>1, <1>2 DEF OnUserConnected
<1>4. \A i \in DOMAIN channels : d \notin channels[i].Clients
  BY <1>1, <1>2, MembersIdentified
<1>5. CASE c # d
  <2>1. \A k \in clients \ {d} : users'[k] = users[k]
    BY <1>1, <1>3 DEF ServerInv, Sessions
  <2>2. view'[c] = view[c]
    BY <1>2, <1>5
  <2> QED
    BY <1>2, <1>4, <1>5, <2>1, <2>2, OthersAdvance
<1>6. CASE c = d
  <2> DEFINE w == OnConnected(view[d])
  <2>1. /\ view[d] \in View /\ inbox[d] = <<>> /\ view[d].Channels = <<>>
    BY <1>1, <1>2, <1>6 DEF ClientState
  <2>2. w \in View /\ w.Online /\ w.Channels = <<>>
    BY <2>1 DEF OnConnected, View
  <2>3. view'[d] = w /\ inbox'[d] = <<>>
    BY <1>1, <1>2, <2>1
  <2> HIDE DEF w
  <2>4. Expected(d)' = w
    BY <2>3, HandlingFolds, Handling!FoldEmpty DEF Expected
  <2>5. ClientState(d)'
    BY <2>2, <2>3 DEF ClientState
  <2>6. \A name : Lacks(w, name)
    BY <2>2 DEF Lacks, Entries
  <2>7. InStep(w, users', channels', expelled', d)
    BY <1>2, <1>3, <1>4, <2>6 DEF InStep, Knows, Sees
  <2> QED
    BY <1>6, <2>4, <2>5, <2>7 DEF Advances
<1> QED
  BY <1>5, <1>6

LEMMA ReceiveAdvances ==
  ASSUME SystemInv, NEW d \in Client, Receive(d), NEW c \in Client
  PROVE  Advances(c)
<1>1. /\ ServerInv /\ SystemTypes /\ ClientState(c)
      /\ Connected(c) => InStep(Expected(c), users, channels, expelled, c)
  BY DEF SystemInv, ClientInv
<1>2. /\ view[d].Online /\ inbox[d] # <<>>
      /\ view' = [view EXCEPT ![d] = Received(view[d], Head(inbox[d]))]
      /\ inbox' = [inbox EXCEPT ![d] = Tail(inbox[d])]
      /\ UNCHANGED <<clients, users, channels, expelled>>
  BY DEF Receive
<1>3. CASE c # d
  <2>1. view'[c] = view[c] /\ inbox'[c] = inbox[c]
    BY <1>2, <1>3
  <2> QED
    BY <1>2, <1>3, <2>1, OthersAdvance
<1>4. CASE c = d
  <2> DEFINE p == Head(inbox[d])
             w == Received(view[d], p)
  <2>1. view[d] \in View /\ inbox[d] \in Seq(GoodPacket)
    BY <1>1, <1>4 DEF ClientState
  <2>2. view'[d] = w /\ inbox'[d] = Tail(inbox[d])
    BY <1>1, <1>2 DEF SystemTypes
  <2>3. p \in GoodPacket /\ Tail(inbox[d]) \in Seq(GoodPacket)
    BY <1>2, <2>1
  <2>4. w \in View /\ w.Online = view[d].Online
    BY <2>1, <2>3, ReceivedKeeps
  <2>5. FoldLeft(Received, w, Tail(inbox[d])) = FoldLeft(Received, view[d], inbox[d])
    <3>1. inbox[d] # <<>>
      BY <1>2
    <3>2. Handling!Folded(w, Tail(inbox[d])) = Handling!Folded(view[d], inbox[d])
      BY <2>1, <3>1, Handling!FoldHead
    <3> HIDE DEF w
    <3> QED
      BY <3>2, HandlingFolds
  <2> HIDE DEF w, p
  <2>6. ClientState(d)'
    BY <1>2, <2>2, <2>3, <2>4 DEF ClientState
  <2>7. Expected(d)' = Expected(d)
    BY <2>2, <2>5 DEF Expected
  <2>8. Connected(d)' => Connected(d)
    BY <1>2, <2>2, <2>4 DEF Connected
  <2> QED
    BY <1>1, <1>2, <1>4, <2>6, <2>7, <2>8 DEF Advances
<1> QED
  BY <1>3, <1>4

LEMMA OfflineView ==
  ASSUME NEW v \in View
  PROVE  /\ OnDisconnected(v) \in View
         /\ ~OnDisconnected(v).Online
         /\ OnDisconnected(v).Channels = <<>>
<1> DEFINE v1 == [v EXCEPT !.Online = FALSE]
           v2 == [v1 EXCEPT !.Enabled = FALSE]
<1>1. v1 \in View /\ v1.Online = FALSE
  BY DEF View
<1> HIDE DEF v1
<1>2. v2 \in View /\ v2.Online = FALSE
  BY <1>1 DEF View
<1>3. OnDisconnected(v) = WithChannels(v2, <<>>)
  BY DEF OnDisconnected, WithChannels, v1
<1>4. <<>> \in Seq(Entry)
  OBVIOUS
<1> DEFINE w == WithChannels(v2, <<>>)
<1> HIDE DEF v2
<1>5. w \in View /\ w.Channels = <<>> /\ w.Online = v2.Online
  BY <1>2, <1>4, WithChannelsIs DEF SameUser
<1> HIDE DEF w
<1>6. w.Online = FALSE
  BY <1>2, <1>5
<1> QED
  BY <1>3, <1>5, <1>6 DEF w

LEMMA DisconnectAdvances ==
  ASSUME SystemInv, NEW d \in Client, Disconnect(d), NEW c \in Client
  PROVE  Advances(c)
<1>1. /\ SystemTypes /\ ClientState(c)
  BY DEF SystemInv, ClientInv
<1> DEFINE w == IF Reconnects THEN OnDisconnected(view[d]) ELSE NewView
<1>2. /\ view' = [view EXCEPT ![d] = w]
      /\ inbox' = [inbox EXCEPT ![d] = <<>>]
      /\ expelled' = {x \in expelled : x[1] # d}
      /\ UNCHANGED <<clients, users, channels>>
  BY DEF Disconnect
<1>3. CASE c # d
  <2>1. view'[c] = view[c] /\ inbox'[c] = inbox[c]
    BY <1>2, <1>3
  <2>2. \A name : <<c, name>>[1] # d
    BY <1>3
  <2> HIDE DEF w
  <2> QED
    BY <1>2, <1>3, <2>1, <2>2, OthersAdvance
<1>4. CASE c = d
  <2>1. view[d] \in View
    BY <1>1, <1>4 DEF ClientState
  <2>2. w \in View /\ ~w.Online /\ w.Channels = <<>>
    <3>1. NewView \in View /\ ~NewView.Online /\ NewView.Channels = <<>>
      BY DEF View, NewView
    <3> QED
      BY <2>1, <3>1, OfflineView
  <2>3. view'[d] = w /\ inbox'[d] = <<>>
    BY <1>1, <1>2 DEF SystemTypes
  <2> HIDE DEF w
  <2>4. ClientState(d)' /\ ~Connected(d)'
    BY <2>2, <2>3 DEF ClientState, Connected
  <2> QED
    BY <1>4, <2>4 DEF Advances
<1> QED
  BY <1>3, <1>4
-----------------------------------------------------------------------------
(***************************************************************************)
(* The invariant of the system, and what it says.                          *)
(***************************************************************************)
LEMMA SystemInvInit == SystemInit => SystemInv
<1> SUFFICES ASSUME SystemInit PROVE SystemInv
  OBVIOUS
<1>1. ServerInv /\ NamesInv
  BY ServerInvInit
  DEF SystemInit, Init, NamesInv, HelloBeforeIdentify, UsernamesExclusive,
      GetChatUser
<1>2. NewView \in View /\ ~NewView.Online /\ NewView.Channels = <<>>
  BY DEF View, NewView
<1>3. \A c \in Client : view[c] = NewView /\ inbox[c] = <<>>
  BY DEF SystemInit
<1>4. SystemTypes
  BY DEF SystemInit, SystemTypes
<1>5. ClientInv
  <2>1. <<>> \in Seq(GoodPacket)
    OBVIOUS
  <2> QED
    BY <1>2, <1>3, <2>1 DEF ClientInv, ClientState, Connected
<1> QED
  BY <1>1, <1>4, <1>5 DEF SystemInv

LEMMA SystemInvStep ==
  ASSUME HelloFirst, SystemInv, [SystemNext]_systemVars
  PROVE  SystemInv'
<1>1. ServerInv /\ NamesInv /\ SystemTypes /\ ClientInv
  BY DEF SystemInv
<1>2. NamesInv'
  <2>1. CASE Next
    BY <1>1, <2>1, NamesStep
  <2>2. CASE UNCHANGED users
    BY <1>1, <2>2, NamesFrame DEF GetChatUser
  <2> QED
    BY <2>1, <2>2, SystemSteps
<1>3. SystemTypes'
  BY <1>1
  DEF SystemTypes, SystemNext, systemVars, Connect, ServerStep, Receive,
      Disconnect
<1>4. ASSUME SystemNext, NEW c \in Client PROVE Advances(c)
  BY <1>4, ConnectAdvances, ServerStepKeeps, ReceiveAdvances,
     DisconnectAdvances DEF SystemNext
<1>5. ClientInv'
  <2>1. CASE SystemNext
    BY <1>4, <2>1 DEF Advances, ClientInv
  <2>2. CASE UNCHANGED systemVars
    BY <1>1, <2>2
    DEF systemVars, vars, ClientInv, ClientState, Connected, Expected
  <2> QED
    BY <2>1, <2>2
<1> QED
  BY <1>1, <1>2, <1>3, <1>5, ServerKept DEF SystemInv

LEMMA SystemInvariant ==
  ASSUME HelloFirst
  PROVE  SystemSpec => []SystemInv
<1>1. SystemInit => SystemInv
  BY SystemInvInit
<1>2. SystemInv /\ [SystemNext]_systemVars => SystemInv'
  BY SystemInvStep
<1> QED
  BY <1>1, <1>2, PTL DEF SystemSpec

\* An entry that lists a set of identities mirrors the channel.
LEMMA EntryMirrors ==
  ASSUME NEW channel
  PROVE  Mirrors(ChannelEntry(users, channel), channel)
  BY DEF Mirrors, ChannelEntry, EntryOf, Identities

\* When everything under way to a client has been read, it has one entry for
\* each channel that it is in, with the members, operators and bans that the
\* server has, and none for the others, unless it was expelled and so may
\* have kept an old one.
THEOREM ViewsConverge ==
  ASSUME HelloFirst
  PROVE  SystemSpec => []ViewsAgree
<1>1. ASSUME SystemInv PROVE ViewsAgree
  <2> SUFFICES ASSUME NEW c \in Client, NEW name \in ChannelName,
                      Connected(c), <<c, name>> \notin expelled,
                      NEW v, v = Expected(c),
                      NEW joined, joined = {i \in Matching(name) :
                                              c \in channels[i].Clients}
               PROVE  /\ Cardinality(Entries(v, name)) = Cardinality(joined)
                      /\ \A i \in joined : \A j \in Entries(v, name) :
                           Mirrors(v.Channels[j], channels[i])
    BY DEF ViewsAgree
  <2>1. ServerInv /\ Sees(v, users, channels, c, name)
    BY <1>1 DEF SystemInv, ClientInv, InStep
  <2>2. joined = {i \in DOMAIN channels : /\ channels[i].Name = name
                                          /\ c \in channels[i].Clients}
    BY <2>1 DEF Matching, ServerInv, SoundChannels, Sound, SoundChannel
  <2>3. CASE joined = {}
    <3>1. Entries(v, name) = {}
      BY <2>1, <2>2, <2>3 DEF Sees, Lacks
    <3> QED
      BY <2>3, <3>1
  <2>4. CASE joined # {}
    <3>1. PICK i \in joined : TRUE
      BY <2>4
    <3>2. joined = {i}
      <4>1. \A j \in joined : j = i
        BY <2>1, <2>2, <3>1, OneEnabled DEF Matching
      <4> QED
        BY <3>1, <4>1
    <3>3. PICK j : /\ Entries(v, name) = {j}
                   /\ v.Channels[j] = ChannelEntry(users, channels[i])
      BY <2>1, <2>2, <3>1 DEF Sees, Has
    <3>4. Cardinality({i}) = 1 /\ Cardinality({j}) = 1
      BY FS_Singleton
    <3> QED
      BY <3>2, <3>3, <3>4, EntryMirrors
  <2> QED
    BY <2>3, <2>4
<1> QED
  BY <1>1, SystemInvariant, PTL

\* A client that has identified will know the name and the hashed address
\* under which the others know it.
THEOREM OwnNameKnown ==
  ASSUME HelloFirst
  PROVE  SystemSpec => []KnowsItsName
<1>1. SystemInv => KnowsItsName
  BY DEF SystemInv, ClientInv, InStep, Knows, KnowsItsName
<1> QED
  BY <1>1, SystemInvariant, PTL

\* Each message that the server passes on finds, in the entry of its
\* receiver, the sender that it names.
THEOREM MessagesAlwaysShown ==
  ASSUME HelloFirst
  PROVE  SystemSpec => MessagesShown
<1> DEFINE Shown == \A p \in out' :
             /\ p.component = "Channel" /\ p.type = "SendMessage"
             /\ Connected(p.to)
             /\ <<p.to, p.channel>> \notin expelled
             => Shows(Expected(p.to), p)
<1>1. SystemInv /\ [SystemNext]_systemVars => [Shown]_systemVars
  <2> SUFFICES ASSUME SystemInv, SystemNext, NEW p \in out',
                      p.component = "Channel", p.type = "SendMessage",
                      Connected(p.to), <<p.to, p.channel>> \notin expelled
               PROVE  Shows(Expected(p.to), p)
    OBVIOUS
  <2>1. ServerInv /\ Next
    BY ClientSteps
    DEF SystemInv, SystemNext, Connect, ServerStep, Next, Silent
  <2>2. /\ p \in GoodPacket /\ p.who = {UserAndHost(users[serving])}
        /\ Heard(p)
    BY <2>1, StepFits, StepHeard DEF AllFit, Fit, NoticesHeard
  <2>3. PICK i \in DOMAIN channels :
          /\ channels[i].Enabled /\ channels[i].Name = p.channel
          /\ p.to \in channels[i].Clients
          /\ serving \in channels[i].Clients
    BY <2>2 DEF Heard
  <2> DEFINE e == Expected(p.to)
             user == UserAndHost(users[serving])
  <2>4. p.to \in Client /\ p.channel \in ChannelName
    BY <2>2 DEF GoodPacket, Packet
  <2>5. Sees(e, users, channels, p.to, p.channel)
    BY <2>4 DEF SystemInv, ClientInv, InStep
  <2> HIDE DEF e
  <2>6. PICK j : /\ Entries(e, p.channel) = {j}
                 /\ e.Channels[j] = ChannelEntry(users, channels[i])
    BY <2>3, <2>5 DEF Sees, Has
  <2>7. user \in Identities(users, channels[i].Clients)
    BY <2>3 DEF Identities
  <2>8. Subject(p) = user
    BY <2>2, SubjectIs
  <2> HIDE DEF user
  <2>9. BagIn(user, SetToBag(Identities(users, channels[i].Clients)))
    BY <2>7, BagMember
  <2>10. e.Channels[j].Clients = SetToBag(Identities(users, channels[i].Clients))
    BY <2>6 DEF ChannelEntry, EntryOf
  <2>11. j \in First(e, p.channel)
    <3>1. e \in View
      BY <2>4, ExpectedView DEF e, SystemInv, ClientInv
    <3>2. j \in 1..Len(e.Channels) /\ e.Channels \in Seq(Entry)
      BY <2>6, <3>1, EntriesIn, ViewChannels
    <3>3. j <= j
      BY <3>2
    <3> QED
      BY <2>6, <3>3 DEF First
  <2> QED
    BY <2>8, <2>9, <2>10, <2>11 DEF Shows, e
<1> QED
  BY <1>1, SystemInvariant, PTL DEF SystemSpec, MessagesShown
=============================================================================
