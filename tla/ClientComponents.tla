-------------------------- MODULE ClientComponents --------------------------
(***************************************************************************)
(* The components of jchat_client: what a client knows of itself and of    *)
(* the channels it is in, and how every packet of the server changes that. *)
(* A handler is an operator from the old view to the new one; ChatSystem   *)
(* applies it.                                                             *)
(*                                                                         *)
(* An entry of channels_ is Enabled from its creation until the statement  *)
(* that precedes its erasure, so the flag is left out.  Clients and        *)
(* Operators are vectors of which the order shows nowhere: bags.           *)
(* BannedUsers is only ever added to: a set.                               *)
(***************************************************************************)
EXTENDS ChatProtocol, Bags, SequencesExt

CONSTANT NoName  \* the empty name and address of a ChatUser never identified
ASSUME NoNameAssumption == NoName \notin HostInfo

\* How often each name and address is in a vector of ChatUsers.
IdentityBag ==
  UNION {[S -> Nat \ {0}] : S \in SUBSET (HostInfo \cup {NoName})}

Entry ==
  [Name : ChannelName, Clients : IdentityBag, Operators : IdentityBag,
   Banned : SUBSET HostInfo]

\* user_ of the UserComponent and channels_ of the ChannelComponent.
View ==
  [Online : BOOLEAN, Enabled : BOOLEAN, Identified : BOOLEAN,
   User : HostInfo \cup {NoName}, Channels : Seq(Entry)]

NewView ==
  [Online |-> FALSE, Enabled |-> FALSE, Identified |-> FALSE,
   User |-> NoName, Channels |-> <<>>]

\* ChatClient::onConnected and onDisconnected, for all components.
OnConnected(v) == [v EXCEPT !.Online = TRUE, !.Enabled = TRUE]

\* Mutant of OnDisconnected: channels_ is not cleared.
OnDisconnectedKeeping(v) == [v EXCEPT !.Online = FALSE, !.Enabled = FALSE]

OnDisconnected(v) ==
  [v EXCEPT !.Online = FALSE, !.Enabled = FALSE, !.Channels = <<>>]
-----------------------------------------------------------------------------
Entries(v, name) == {j \in DOMAIN v.Channels : v.Channels[j].Name = name}

\* Every handler stops at the first entry of the name that the packet has.
First(v, name) ==
  {j \in Entries(v, name) : \A k \in Entries(v, name) : j <= k}

\* `changed' gives channels_ afterwards, for each entry it may stop at.
WithEntry(v, name, changed) ==
  IF First(v, name) = {} THEN v
  ELSE [v EXCEPT !.Channels = changed[CHOOSE j \in First(v, name) : TRUE]]

\* The first of Clients and the first of Operators that have that name and
\* address go.
Erase(entry, user) ==
  [entry EXCEPT !.Clients = @ (-) SetToBag({user}),
                !.Operators = @ (-) SetToBag({user})]

\* The user that a notice is about.
Subject(p) == CHOOSE user \in p.who : TRUE
-----------------------------------------------------------------------------
\* Mutant of OnIdentifyComplete: the answer is not copied to user_.
OnIdentifyUncopied(v, p) ==
  IF p.result = "Ok" THEN [v EXCEPT !.Identified = TRUE] ELSE v

OnIdentifyComplete(v, p) ==
  IF p.result = "Ok"
  THEN [v EXCEPT !.User = Subject(p), !.Identified = TRUE] ELSE v

\* A new entry at every success, whatever entries of that name there are.
OnJoinComplete(v, p) ==
  LET self == SetToBag({v.User})
      created == p.result = "ChannelCreated"
      entry ==
        [Name |-> p.channel,
         Clients |-> IF created THEN self ELSE self (+) SetToBag(p.who),
         Operators |-> IF created THEN self ELSE SetToBag(p.ops),
         Banned |-> IF created THEN {} ELSE p.bans]
  IN IF p.result \in {"Ok", "ChannelCreated"}
     THEN [v EXCEPT !.Channels = Append(@, entry)] ELSE v

OnLeaveComplete(v, p) ==
  LET Removed == [j \in DOMAIN v.Channels |-> RemoveAt(v.Channels, j)]
  IN IF p.result = "Ok" THEN WithEntry(v, p.channel, Removed) ELSE v

OnUserJoined(v, p) ==
  LET Added == [j \in DOMAIN v.Channels |->
        [v.Channels EXCEPT ![j].Clients = @ (+) SetToBag({Subject(p)})]]
  IN WithEntry(v, p.channel, Added)

\* LeaveChannel and KickUser, and the answer to a kick.
OnUserGone(v, p) ==
  LET Gone == [j \in DOMAIN v.Channels |->
        [v.Channels EXCEPT ![j] = Erase(@, Subject(p))]]
  IN WithEntry(v, p.channel, Gone)

\* A banned user goes and is listed.
EraseBanned(entry, user) ==
  [Erase(entry, user) EXCEPT !.Banned = @ \cup {user}]

\* BanUser and the answer to a ban.
OnUserBanned(v, p) ==
  LET Banned == [j \in DOMAIN v.Channels |->
        [v.Channels EXCEPT ![j] = EraseBanned(@, Subject(p))]]
  IN WithEntry(v, p.channel, Banned)
-----------------------------------------------------------------------------
\* Mutant of Notice: a ban is expected to carry the result of a kick.
NoticeKicked ==
  [JoinChannel |-> "UserJoined", LeaveChannel |-> "UserLeft",
   SendMessage |-> "MessageSent", KickUser |-> "UserKicked",
   BanUser |-> "UserKicked"]

\* The results that a notice has to carry; others are not handled.
Notice ==
  [JoinChannel |-> "UserJoined", LeaveChannel |-> "UserLeft",
   SendMessage |-> "MessageSent", KickUser |-> "UserKicked",
   BanUser |-> "UserBanned"]

\* The packets for which a component returns true.
Handles(p) ==
  \/ p.component = "System" /\ p.type = "Hello_Complete" /\ p.result = "Ok"
  \/ /\ p.component = "User"
     /\ \/ p.type \in {"Identify_Complete", "SendMessage_Complete"}
        \/ p.type = "SendMessage" /\ p.result = "MessageSent"
  \/ /\ p.component = "Channel"
     /\ \/ p.type \in {"JoinChannel_Complete", "LeaveChannel_Complete",
                       "SendMessage_Complete", "KickUser_Complete",
                       "BanUser_Complete"}
        \/ p.type \in DOMAIN Notice /\ p.result = Notice[p.type]

\* Handle of the component that the header names.
Received(v, p) ==
  CASE ~Handles(p) -> v
    [] p.type = "Identify_Complete" -> OnIdentifyComplete(v, p)
    [] p.type = "JoinChannel_Complete" -> OnJoinComplete(v, p)
    [] p.type = "LeaveChannel_Complete" -> OnLeaveComplete(v, p)
    [] p.type = "JoinChannel" -> OnUserJoined(v, p)
    [] \/ p.type \in {"LeaveChannel", "KickUser"}
       \/ p.type = "KickUser_Complete" /\ p.result = "Ok" -> OnUserGone(v, p)
    [] \/ p.type = "BanUser"
       \/ p.type = "BanUser_Complete" /\ p.result = "Ok" -> OnUserBanned(v, p)
    [] OTHER -> v

\* Mutant of Shows: the sender is looked up among the operators.
ShowsOperators(v, p) ==
  \E j \in First(v, p.channel) : BagIn(Subject(p), v.Channels[j].Operators)

\* A message in a channel is shown when the first entry of the name has its
\* sender among its clients.
Shows(v, p) ==
  \E j \in First(v, p.channel) : BagIn(Subject(p), v.Channels[j].Clients)
=============================================================================
