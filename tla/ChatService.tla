----------------------------- MODULE ChatService ----------------------------
(***************************************************************************)
(* What the chat server promises, without packets, chunks, the vector of   *)
(* channels or the users that have not identified: identities are          *)
(* exclusive, a room is open while it has members, its founder alone may   *)
(* remove and ban others, and a ban keeps an identity out while the room   *)
(* is open.                                                                *)
(***************************************************************************)
CONSTANTS Person, Name, Place, Room, Nobody

VARIABLES
  identity,  \* who a person has identified as
  rooms      \* members, operators and bans of each room

vars == <<identity, rooms>>

Identity == Name \X Place

Closed == [members |-> {}, operators |-> {}, banned |-> {}]

Init ==
  /\ identity = [p \in Person |-> Nobody]
  /\ rooms = [r \in Room |-> Closed]

LogIn(p, id) ==
  /\ identity[p] = Nobody
  /\ \A q \in Person : identity[q] # Nobody => identity[q][1] # id[1]
  /\ identity' = [identity EXCEPT ![p] = id]
  /\ UNCHANGED rooms

With(room, p) == [room EXCEPT !.members = @ \cup {p}]

\* A room that loses its last member forgets its bans.
Without(room, p) ==
  IF room.members \subseteq {p} THEN Closed
  ELSE [room EXCEPT !.members = @ \ {p}, !.operators = @ \ {p}]

LogOut(p) ==
  /\ identity[p] # Nobody
  /\ identity' = [identity EXCEPT ![p] = Nobody]
  /\ rooms' = [r \in Room |-> Without(rooms[r], p)]

Found(p, r) ==
  /\ identity[p] # Nobody
  /\ rooms[r].members = {}
  /\ rooms' = [rooms EXCEPT ![r] = [members |-> {p}, operators |-> {p},
                                    banned |-> {}]]
  /\ UNCHANGED identity

Enter(p, r) ==
  /\ identity[p] # Nobody
  /\ rooms[r].members # {}
  /\ p \notin rooms[r].members
  /\ identity[p] \notin rooms[r].banned
  /\ rooms' = [rooms EXCEPT ![r] = With(@, p)]
  /\ UNCHANGED identity

Banning(room, p, id) ==
  Without([members |-> room.members, operators |-> room.operators,
           banned |-> room.banned \cup {id}], p)

Leave(p, r) ==
  /\ p \in rooms[r].members
  /\ rooms' = [rooms EXCEPT ![r] = Without(@, p)]
  /\ UNCHANGED identity

Remove(operator, p, r) ==
  /\ operator \in rooms[r].operators
  /\ p \in rooms[r].members \ {operator}
  /\ rooms' = [rooms EXCEPT ![r] = Without(@, p)]
  /\ UNCHANGED identity

Ban(operator, p, r) ==
  /\ operator \in rooms[r].operators
  /\ p \in rooms[r].members \ {operator}
  /\ rooms' = [rooms EXCEPT ![r] = Banning(@, p, identity[p])]
  /\ UNCHANGED identity

Next ==
  \/ \E p \in Person, id \in Identity : LogIn(p, id)
  \/ \E p \in Person : LogOut(p)
  \/ \E p \in Person, r \in Room : Found(p, r) \/ Enter(p, r) \/ Leave(p, r)
  \/ \E o, p \in Person, r \in Room : Remove(o, p, r) \/ Ban(o, p, r)

Spec == Init /\ [][Next]_vars
=============================================================================
