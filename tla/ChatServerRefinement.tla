------------------------ MODULE ChatServerRefinement ------------------------
(***************************************************************************)
(* ChatServer implements ChatService when every peer says Hello first.     *)
(***************************************************************************)
EXTENDS ChatServer

CONSTANT Nobody  \* the identity of a client that has not identified
ASSUME NobodyAssumption == Nobody \notin HostInfo

\* A client is somebody from its accepted Identify until it disconnects.
IdentityOf(c) ==
  IF GetChatUser(c) /\ users[c].Identified
  THEN UserAndHost(users[c]) ELSE Nobody

\* A room is the enabled channel of its name.
RoomOf(name) ==
  IF Matching(name) = {}
  THEN [members |-> {}, operators |-> {}, banned |-> {}]
  ELSE LET i == CHOOSE j \in Matching(name) : TRUE IN
       [members |-> channels[i].Clients, operators |-> channels[i].Operators,
        banned |-> channels[i].Banned]

Service == INSTANCE ChatService WITH
  Person <- Client, Name <- Username, Place <- HashedHost,
  Room <- ChannelName, Nobody <- Nobody,
  identity <- [c \in Client |-> IdentityOf(c)],
  rooms <- [name \in ChannelName |-> RoomOf(name)]

\* Every behaviour of the server, crashes included, is one of ChatService:
\* duplicates, forgotten members, operators of nothing or bans that do not
\* hold would be steps that the service does not have.
ServesChat == Service!Spec
=============================================================================
