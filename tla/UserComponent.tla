---------------------------- MODULE UserComponent ---------------------------
(***************************************************************************)
(* The server's UserComponent: one ChatUser per connection, the claim on a *)
(* user name (Identify) and private messages (SendMessage).                *)
(***************************************************************************)
EXTENDS ChatTransport

CONSTANT NoUser
ASSUME NoUserAssumption == NoUser \notin ChatUser

VARIABLE users  \* users_; NoUser where the map has no entry

GetChatUser(c) == users[c] # NoUser

OnUserConnected(c, host) ==
  users' = [users EXCEPT ![c] = [Enabled |-> FALSE, Identified |-> FALSE,
                                 Username |-> Guest, Hostname |-> host]]

OnUserDisconnected(c) == users' = [users EXCEPT ![c] = NoUser]

\* The entries that the two loops over users_ accept as owner of a name.
Holders(name) ==
  {k \in Client : /\ GetChatUser(k)
                  /\ users[k].Enabled
                  /\ users[k].Identified
                  /\ users[k].Username = name}

\* Mutants of IdentifyResult: no limit on the length, and no search of users_.
IdentifyResultUnlimited(c, name) ==
  IF name \in BadUsername THEN "InvalidUsername"
  ELSE IF users[c].Identified THEN "AlreadyIdentified"
  ELSE IF Holders(name) # {} THEN "UsernameInUse"
  ELSE "Ok"

IdentifyResultUnsearched(c, name) ==
  IF name \in BadUsername THEN "InvalidUsername"
  ELSE IF name \in LongUsername THEN "UsernameTooLong"
  ELSE IF users[c].Identified THEN "AlreadyIdentified"
  ELSE "Ok"

IdentifyResult(c, name) ==
  IF name \in BadUsername THEN "InvalidUsername"
  ELSE IF name \in LongUsername THEN "UsernameTooLong"
  ELSE IF users[c].Identified THEN "AlreadyIdentified"
  ELSE IF Holders(name) # {} THEN "UsernameInUse"
  ELSE "Ok"

IdentifyRefused(c, name) ==
  /\ IdentifyResult(c, name) # "Ok"
  /\ Send({UserPacket(c, "Identify_Complete", IdentifyResult(c, name), {})})
  /\ UNCHANGED users

IdentifyAccepted(c, name) ==
  LET hash == HashString[users[c].Hostname] IN
  /\ IdentifyResult(c, name) = "Ok"
  /\ users' = [users EXCEPT ![c].Identified = TRUE,
                            ![c].Username = name,
                            ![c].Hostname = hash]
  /\ Send({UserPacket(c, "Identify_Complete", "Ok", {<<name, hash>>})})

Identify(c) ==
  \E name \in Username : IdentifyRefused(c, name) \/ IdentifyAccepted(c, name)

\* The test for an unidentified target comes after a lookup that only finds
\* identified ones, so UserNotIdentified is never the answer.
UserMessageResult(c, name, text) ==
  IF ~users[c].Identified THEN "NotIdentified"
  ELSE IF users[c].Username = name THEN "CannotMessageSelf"
  ELSE IF name \in BadUsername \/ Holders(name) = {} THEN "InvalidUsername"
  ELSE IF text = "empty" THEN "InvalidMessage"
  ELSE IF text = "too long" THEN "MessageTooLong"
  ELSE "Ok"

UserMessageRefused(c, name, text) ==
  LET result == UserMessageResult(c, name, text) IN
  /\ result # "Ok"
  /\ Send({UserPacket(c, "SendMessage_Complete", result, {})})

\* The loop keeps the last holder in pointer order: any of them.
UserMessageSent(c, name, text) ==
  /\ UserMessageResult(c, name, text) = "Ok"
  /\ \E target \in Holders(name) :
       Send({UserPacket(target, "SendMessage", "MessageSent",
                        {UserAndHost(users[c])}),
             UserPacket(c, "SendMessage_Complete", "Ok", {})})

SendUserMessage(c) ==
  /\ \E name \in Username, text \in Text :
       UserMessageRefused(c, name, text) \/ UserMessageSent(c, name, text)
  /\ UNCHANGED users
=============================================================================
