----------------------------- MODULE ChatSystem -----------------------------
(***************************************************************************)
(* ChatServer and the clients that are connected to it.  A packet of the   *)
(* server travels through the stream of its connection before the client   *)
(* handles it; the requests of a client are free, since its user may type  *)
(* any command at any time, so their way to the server adds nothing.       *)
(*                                                                         *)
(* The client that connects at address c is process c.  It may end the     *)
(* connection or lose it at any time, with all that is under way to it.    *)
(***************************************************************************)
EXTENDS ChatServer, ClientComponents

CONSTANTS
  MaxInFlight,  \* bound on the packets under way to a client
  MaxEntries,   \* bound on channels_ of a client, which an expulsion lets grow
  Reconnects    \* the same ChatClient connects again, not a new process
ASSUME SystemAssumption ==
  MaxInFlight \in Nat /\ MaxEntries \in Nat /\ Reconnects \in BOOLEAN

VARIABLES
  view,     \* what each client knows
  inbox,    \* the packets sent to it that it has not read
  expelled  \* history: <<c, name>> when c was kicked or banned since it connected

systemVars == <<vars, view, inbox, expelled>>

SystemInit ==
  /\ Init
  /\ view = [c \in Client |-> NewView]
  /\ inbox = [c \in Client |-> <<>>]
  /\ expelled = {}

Connect(c, host) ==
  /\ ~view[c].Online
  /\ OnClientConnected(c, host)
  /\ view' = [view EXCEPT ![c] = OnConnected(@)]
  /\ UNCHANGED <<inbox, expelled>>

(***************************************************************************)
(* Packets that change no view are handled without a trace, so they do not *)
(* have to wait in a stream: all answers but the successful ones, Hello and *)
(* messages.                                                               *)
(***************************************************************************)
Traceless(p) ==
  \/ p.type \in {"Hello_Complete", "SendMessage", "SendMessage_Complete"}
  \/ /\ p.type \in {"Identify_Complete", "JoinChannel_Complete",
                    "LeaveChannel_Complete", "KickUser_Complete",
                    "BanUser_Complete"}
     /\ p.result \notin {"Ok", "ChannelCreated"}

Sent(c) == {p \in out' : p.to = c /\ view[c].Online /\ ~Traceless(p)}

\* A step of the server, but for an accept.  It sends a client more than one
\* such packet only when somebody disconnects from several channels; the
\* handlers of these commute.
ServerStep ==
  /\ Next
  /\ clients' \subseteq clients
  /\ inbox' = [c \in Client |-> inbox[c] \o SetToSeq(Sent(c))]
  /\ \A c \in Client : Len(inbox'[c]) <= MaxInFlight
  /\ expelled' = expelled \cup
       {e \in Client \X ChannelName :
          \E p \in Sent(e[1]) : /\ p.type \in {"KickUser", "BanUser"}
                                /\ p.channel = e[2]
                                /\ p.who = {UserAndHost(users[e[1]])}}
  /\ UNCHANGED view

Receive(c) ==
  /\ view[c].Online
  /\ inbox[c] # <<>>
  /\ view' = [view EXCEPT ![c] = Received(@, Head(inbox[c]))]
  /\ Len(view'[c].Channels) <= MaxEntries
  /\ inbox' = [inbox EXCEPT ![c] = Tail(@)]
  /\ Silent
  /\ UNCHANGED <<clients, users, channels, crashed, serving, handled, expelled>>

\* A process that ends with its connection leaves nothing behind.
Disconnect(c) ==
  /\ view[c].Online
  /\ view' = [view EXCEPT
       ![c] = IF Reconnects THEN OnDisconnected(@) ELSE NewView]
  /\ inbox' = [inbox EXCEPT ![c] = <<>>]
  /\ expelled' = {e \in expelled : e[1] # c}
  /\ Silent
  /\ UNCHANGED <<clients, users, channels, crashed, serving, handled>>

SystemNext ==
  \/ \E c \in Client, host \in Host : Connect(c, host)
  \/ ServerStep
  \/ \E c \in Client : Receive(c)
  \/ \E c \in Client : Disconnect(c)

SystemSpec == SystemInit /\ [][SystemNext]_systemVars
-----------------------------------------------------------------------------
\* What a client will know once it has read all that is under way to it.
Expected(c) == FoldLeft(Received, view[c], inbox[c])

\* The connection is up at both ends.
Connected(c) == view[c].Online /\ c \in clients

\* The entry of a client shows the channel as the server has it.
Mirrors(entry, channel) ==
  LET identities(keys) == SetToBag({UserAndHost(users[k]) : k \in keys})
  IN /\ entry.Clients = identities(channel.Clients)
     /\ entry.Operators = identities(channel.Operators)
     /\ entry.Banned = channel.Banned

\* Whatever joins, departures, kicks, bans and disconnections cross on their
\* way, a client that was not expelled from a channel ends up with one entry
\* for it if it is a member and none if it is not; the entry has exactly the
\* members, operators and bans of the server, each once.
ViewsAgree ==
  \A c \in Client, name \in ChannelName :
    Connected(c) /\ <<c, name>> \notin expelled =>
      LET v == Expected(c)
          joined == {i \in Matching(name) : c \in channels[i].Clients}
      IN /\ Cardinality(Entries(v, name)) = Cardinality(joined)
         /\ \A i \in joined : \A j \in Entries(v, name) :
              Mirrors(v.Channels[j], channels[i])

\* A client that has identified learns the name and the hashed address that
\* the others are told.
KnowsItsName ==
  \A c \in Client : Connected(c) /\ users[c].Identified =>
    Expected(c).Identified /\ Expected(c).User = UserAndHost(users[c])

\* Every packet that the server sends is one that a handler of the client
\* accepts; any other would make the client drop the connection.
OnlyHandledSent == [][\A p \in out' : Handles(p)]_systemVars

\* A message in a channel reaches the screen of every other member that was
\* not expelled: by then the client knows of its sender.
MessagesShown ==
  [][\A p \in out' :
       /\ p.component = "Channel" /\ p.type = "SendMessage"
       /\ Connected(p.to)
       /\ <<p.to, p.channel>> \notin expelled
       => Shows(Expected(p.to), p)]_systemVars
=============================================================================
