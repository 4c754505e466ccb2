------------------------- MODULE MCChatServerClaims -------------------------
(***************************************************************************)
(* Small instances of ChatServerClaims for TLC.                            *)
(***************************************************************************)
EXTENDS ChatServerClaims

CONSTANTS alice, bob

CollidingHash == [h \in Host |-> CHOOSE x \in HashedHost : TRUE]

\* The text of bob's name reads as alice's username@hostname.
BobSpellsAlice == {<<bob, <<alice, x>>>> : x \in HashedHost}
=============================================================================
