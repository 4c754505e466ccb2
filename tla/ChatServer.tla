----------------------------- MODULE ChatServer -----------------------------
(***************************************************************************)
(* The chat server: the worker thread of its TcpServer accepts connections *)
(* and reads one chunk of bytes at a time; ChatServer::onDataReceived      *)
(* takes the packets of the chunk one by one to the System, User and       *)
(* Channel components.  All of this runs on that one thread, so a step of  *)
(* the model is one packet, one accept or one disconnection.               *)
(*                                                                         *)
(* With HelloFirst every peer behaves like jchat_client, which sends Hello *)
(* on connection before anything else; without it a peer sends any packet  *)
(* at any time.                                                            *)
(***************************************************************************)
EXTENDS SystemComponent, ChannelComponent

CONSTANT HelloFirst
ASSUME HelloFirstAssumption == HelloFirst \in BOOLEAN

VARIABLES
  serving,  \* the client whose chunk is being read, NoClient between chunks
  handled   \* the local variable of onDataReceived

vars == <<clients, out, users, channels, crashed, serving, handled>>

Idle == ~crashed /\ serving = NoClient
Serving == ~crashed /\ serving \in Client

Init ==
  /\ clients = {}
  /\ out = {}
  /\ users = [c \in Client |-> NoUser]
  /\ channels = <<>>
  /\ crashed = FALSE
  /\ serving = NoClient
  /\ handled = FALSE

\* The components hear of a client before it is in clients_.
OnClientConnected(c, host) ==
  /\ Idle
  /\ c \notin clients
  /\ OnUserConnected(c, host)
  /\ clients' = clients \cup {c}
  /\ Silent
  /\ UNCHANGED <<channels, crashed, serving, handled>>

\* The components, in the order in which main added them, then clients_.
OnClientDisconnected(c) ==
  /\ OnUserDisconnected(c)
  /\ OnMemberDisconnected(c)
  /\ clients' = clients \ {c}
  /\ serving' = NoClient
  /\ handled' = FALSE

\* recv failed, found the end of the stream or filled the whole buffer.
CloseConnection(c) == Idle /\ c \in clients /\ OnClientDisconnected(c)

ReceiveChunk(c) ==
  /\ Idle
  /\ c \in clients
  /\ serving' = c
  /\ handled' = FALSE
  /\ Silent
  /\ UNCHANGED <<clients, users, channels, crashed>>
-----------------------------------------------------------------------------
\* A packet of the chunk that a component handles.
Handled ==
  /\ Serving
  /\ handled' = TRUE
  /\ UNCHANGED <<clients, serving>>

\* Only Hello is sent by a polite peer whose Hello has not been accepted.
MaySend(c) == HelloFirst => users[c].Enabled

HandleHello == Handled /\ Hello(serving) /\ UNCHANGED <<channels, crashed>>

HandleUserPacket ==
  /\ Handled
  /\ MaySend(serving)
  /\ Identify(serving) \/ SendUserMessage(serving)
  /\ UNCHANGED <<channels, crashed>>

HandleChannelPacket ==
  /\ Handled
  /\ MaySend(serving)
  /\ \/ JoinChannel(serving)
     \/ LeaveChannel(serving)
     \/ SendChannelMessage(serving)
     \/ KickUser(serving)
     \/ BanUser(serving)
  /\ UNCHANGED users

\* A packet whose component returns false: a Hello of another version, a
\* type that is unknown or not implemented, a body that cannot be read.
IgnoredPacket ==
  /\ Serving
  /\ Silent
  /\ UNCHANGED <<clients, users, channels, crashed, serving, handled>>

\* A header that cannot be right drops the connection on the spot, even
\* after packets that were handled.
MalformedPacket == Serving /\ OnClientDisconnected(serving)

EndOfChunk ==
  /\ Serving
  /\ handled
  /\ serving' = NoClient
  /\ handled' = FALSE
  /\ Silent
  /\ UNCHANGED <<clients, users, channels, crashed>>

NothingHandled == Serving /\ ~handled /\ OnClientDisconnected(serving)
-----------------------------------------------------------------------------
Next ==
  \/ \E c \in Client, host \in Host : OnClientConnected(c, host)
  \/ \E c \in Client : CloseConnection(c)
  \/ \E c \in Client : ReceiveChunk(c)
  \/ HandleHello
  \/ HandleUserPacket
  \/ HandleChannelPacket
  \/ IgnoredPacket
  \/ MalformedPacket
  \/ EndOfChunk
  \/ NothingHandled

Spec == Init /\ [][Next]_vars
-----------------------------------------------------------------------------
(***************************************************************************)
(* Invariants.                                                             *)
(***************************************************************************)
\* Every variable has the shape of the C++ object it stands for; a packet
\* never describes a user by a guest name or an address in clear.
TypeOK ==
  /\ clients \subseteq Client
  /\ out \subseteq Packet
  /\ users \in [Client -> ChatUser \cup {NoUser}]
  /\ channels \in Seq(ChatChannel)
  /\ Len(channels) <= MaxChannels
  /\ crashed \in BOOLEAN
  /\ serving \in Client \cup {NoClient}
  /\ handled \in BOOLEAN

\* A RemoteChatClient that was deleted is referenced nowhere: not by the user
\* map, not by a channel (closed ones included), not by the reading loop.
\* Its address may be given to the next connection.
NoDanglingClient ==
  /\ \A c \in Client : GetChatUser(c) <=> c \in clients
  /\ \A i \in DOMAIN channels :
       channels[i].Clients \cup channels[i].Operators \subseteq clients
  /\ serving \in clients \cup {NoClient}

\* channels_ is searched by name among the enabled channels: at most one has
\* the name, it has members, its operators are members, and every member has
\* identified.
ChannelLifecycle ==
  \A i \in DOMAIN channels :
    /\ channels[i].Enabled <=> channels[i].Clients # {}
    /\ channels[i].Operators \subseteq channels[i].Clients
    /\ \A k \in channels[i].Clients : users[k].Identified
    /\ \A j \in DOMAIN channels :
         /\ channels[i].Enabled /\ channels[j].Enabled
         /\ channels[i].Name = channels[j].Name
         => i = j

\* Two connections never hold the same user name, whichever of their Hello,
\* Identify and disconnection come first.
UsernamesExclusive ==
  \A j, k \in Client :
    /\ GetChatUser(j) /\ users[j].Identified
    /\ GetChatUser(k) /\ users[k].Identified
    /\ users[j].Username = users[k].Username
    => j = k

\* Nobody is a member of a channel that bans its username@hostname, not even
\* after leaving, reconnecting and identifying again.
NoMemberBanned ==
  \A i \in DOMAIN channels : \A k \in channels[i].Clients :
    UserAndHost(users[k]) \notin channels[i].Banned
-----------------------------------------------------------------------------
(***************************************************************************)
(* Action properties.                                                      *)
(***************************************************************************)
\* Who may take a member out of a channel or change its bans.
AuthorisedRemoval ==
  \A i \in DOMAIN channels :
    /\ \A k \in channels[i].Clients \ channels'[i].Clients :
         \/ k = serving
         \/ k \notin clients'
         \/ serving \in channels[i].Operators
    /\ channels'[i].Banned # channels[i].Banned =>
         serving \in channels[i].Operators

\* A member other than the sender of the packet only loses its membership
\* with its connection or to an operator of that very channel, and only an
\* operator of the channel changes its ban list.
RemovalNeedsAuthority == [][AuthorisedRemoval]_vars

\* The operators afterwards are those before who are still members.
OperatorsFollowMembership ==
  \A i \in DOMAIN channels :
    channels'[i].Operators = channels[i].Operators \cap channels'[i].Clients

\* The privilege of the creator is never granted to anyone else, lasts as
\* long as the membership and does not come back with it.
OperatorsOnlyLost == [][OperatorsFollowMembership]_vars

\* What every step keeps of the channels there were before it.
ClosedKept ==
  \A i \in DOMAIN channels :
    /\ channels'[i].Name = channels[i].Name
    /\ channels[i].Banned \subseteq channels'[i].Banned
    /\ ~channels[i].Enabled => channels'[i] = channels[i]

\* A channel keeps its name and its bans, and once closed it stays as it was:
\* a later JoinChannel of the name opens another one.
ClosedForGood == [][ClosedKept]_vars

\* `k' is told, on channel i, of the user that client c was before the step.
Told(k, i, user) ==
  \E p \in out' : /\ p.to = k
                  /\ p.component = "Channel"
                  /\ p.channel = channels[i].Name
                  /\ user \in p.who

\* Those who stay, those who enter and those who are removed.
MembersTold ==
  \A i \in DOMAIN channels :
    LET before == channels[i].Clients
        after == channels'[i].Clients
    IN /\ \A c \in before \ after : \A k \in before \ {c} :
            Told(k, i, UserAndHost(users[c]))
       /\ \A c \in after \ before : \A k \in before :
            /\ Told(k, i, UserAndHost(users[c]))
            /\ Told(c, i, UserAndHost(users[k]))
       /\ \A c \in (before \ after) \cap clients' :
            \/ \E p \in out' : p.to = c /\ p.type = "LeaveChannel_Complete"
            \/ Told(c, i, UserAndHost(users[c]))

\* Whoever stays in a channel is told in the same step of everyone who
\* enters or leaves it, by whatever way; who enters is told who is there;
\* who is removed, and still connected, is told of that.
MembersInformed == [][MembersTold]_vars

\* A notice goes to a member other than the sender of what it tells of.
Heard(p) ==
  p.component = "Channel" /\ p.type \in
    {"JoinChannel", "LeaveChannel", "SendMessage", "KickUser", "BanUser"}
  => \E i \in DOMAIN channels :
       /\ channels[i].Enabled /\ channels[i].Name = p.channel
       /\ p.to \in channels[i].Clients
       /\ p.to # serving
       /\ p.type = "SendMessage" => serving \in channels[i].Clients

NoticesHeard == \A p \in out' : Heard(p)

\* What happens in a channel reaches its members of that moment and nobody
\* else: not the sender, not who left, was removed or closed the connection.
\* What is said there is said by a member.
OnlyMembersHear == [][NoticesHeard]_vars
=============================================================================
