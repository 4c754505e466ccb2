-------------------------- MODULE ChatServerClaims --------------------------
(***************************************************************************)
(* What comments and callers of the server say of it, and what the code    *)
(* does not keep.  A run of TLC refutes each property of this module.      *)
(***************************************************************************)
EXTENDS ChatServer

\* channel_component.cpp:812, "Check if the target is in the channel" before
\* a kick: the server survives a kick of somebody who is not.
NeverCrashed == ~crashed

\* channel_component.cpp:1058, "Check if the target is already banned": the
\* answer AlreadyBanned is given of a member that the channel bans.
AlreadyBannedIsBanned ==
  [][(\E p \in out' : p.result = "AlreadyBanned") =>
       \E i \in DOMAIN channels : \E k \in channels[i].Clients :
         UserAndHost(users[k]) \in channels[i].Banned]_vars

\* channel_message_result.h:28-30 lists ChannelNameTooLong among the results
\* of JoinChannel: it comes in an answer of the Channel component.
ChannelResultOnChannel ==
  \A p \in out : p.result = "ChannelNameTooLong" => p.component = "Channel"
=============================================================================
