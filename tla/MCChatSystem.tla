---------------------------- MODULE MCChatSystem ----------------------------
(***************************************************************************)
(* Small instances of ChatSystem for TLC.                                  *)
(***************************************************************************)
EXTENDS ChatSystem, TLC

CollidingHash == [h \in Host |-> CHOOSE x \in HashedHost : TRUE]

\* Clients are only addresses, and no text is special here.
SystemSymmetry == Permutations(Client) \cup Permutations(Username)

\* No step reads `out': states that differ in it alone are one.
WithoutOut ==
  <<clients, users, channels, crashed, serving, handled, view, inbox, expelled>>
=============================================================================
