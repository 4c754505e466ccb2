---------------------------- MODULE MCChatServer ----------------------------
(***************************************************************************)
(* Small instances of ChatServer, its properties and its refinement for    *)
(* TLC.                                                                    *)
(***************************************************************************)
EXTENDS ChatServerRefinement, TLC

CONSTANTS alice, bob  \* user names some instances refer to

\* Utility::HashString ORs bytes together: distinct addresses collide easily.
CollidingHash == [h \in Host |-> CHOOSE x \in HashedHost : TRUE]

DistinctHash ==
  CHOOSE f \in [Host -> HashedHost] :
    \A g, h \in Host : f[g] = f[h] => g = h

\* The text of bob's name reads as alice's username@hostname.
BobSpellsAlice == {<<bob, <<alice, x>>>> : x \in HashedHost}

\* Clients are only addresses: interchangeable.
ClientSymmetry == Permutations(Client)
=============================================================================
