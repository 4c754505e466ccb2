--------------------------- MODULE SystemComponent --------------------------
(***************************************************************************)
(* The server's SystemComponent: the Hello that opens a session.  A Hello  *)
(* of another protocol version is not handled (see IgnoredPacket in        *)
(* ChatServer).                                                            *)
(***************************************************************************)
EXTENDS UserComponent

Hello(c) ==
  /\ GetChatUser(c)
  /\ users' = [users EXCEPT ![c].Enabled = TRUE]
  /\ Send({SystemPacket(c, "Hello_Complete", "Ok")})
=============================================================================
