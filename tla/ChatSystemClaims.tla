-------------------------- MODULE ChatSystemClaims --------------------------
(***************************************************************************)
(* What comments of the client say of its channels, and what the code does *)
(* not keep.  A run of TLC refutes each property of this module.           *)
(***************************************************************************)
EXTENDS MCChatSystem

\* The entries of a client in which it finds itself.
Current(v) == {j \in DOMAIN v.Channels : BagIn(v.User, v.Channels[j].Clients)}

\* channel_component.cpp:489, "Find the channel and remove the user" (and 439,
\* "Find the channel and add the user"): the channel that a client is in has
\* no client that the server does not have in it.  A client that was kicked
\* and came back has two entries, and the notices go to the old one.
DepartedRemoved ==
  \A c \in Client, i \in DOMAIN channels :
    Connected(c) /\ c \in channels[i].Clients =>
      LET v == Expected(c) IN
      \A j \in Current(v) \cap Entries(v, channels[i].Name) :
        BagToSet(v.Channels[j].Clients)
          \subseteq {UserAndHost(users[k]) : k \in channels[i].Clients}
=============================================================================
