---------------------------- MODULE ChatTransport ---------------------------
(***************************************************************************)
(* ChatServer as its components see it: which clients it knows and a Send  *)
(* that looks the client up.  `out' holds the packets that the latest step *)
(* handed to TcpServer::Send, whose result no caller looks at.             *)
(***************************************************************************)
EXTENDS ChatProtocol

VARIABLES
  clients,  \* the RemoteChatClients in ChatServer::clients_
  out       \* the packets sent by the latest step

\* Send drops, without a word, what is meant for a client not in clients_.
Send(packets) == out' = {p \in packets : p.to \in clients}

Silent == out' = {}
=============================================================================
