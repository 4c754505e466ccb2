# jChatSystem in TLA+

TLA+ models of jChatSystem, a chat system of one TCP server and many console
clients (`src/jchat_server`, `src/jchat_client`, `src/jchat_common`,
`src/jchat_lib`), with TLC runs that check them on small instances and TLAPS
proofs that hold for every instance.

    tlc -workers 2 -config sessions.cfg MCChatServer     # and the other .cfg files
    tlapm ChatSystemProofs.tla                            # and the other *Proofs.tla

## 1. Inventory

### The server

One worker thread (`TcpServer::worker_loop`) accepts connections, reads one
chunk of at most 8191 bytes at a time and drops connections. It calls
`ChatServer`, which cuts the chunk into packets and hands each to the component
of its type. The main thread only sleeps. All handlers therefore run one after
the other, and their locks are never contended.

| component | state | operations | correct when |
|---|---|---|---|
| `TcpServer` | `accepted_clients_`, sockets | accept, recv, disconnect, Send, Start, Stop, DisconnectClient | every accepted client is reported once and dropped once; Stop ends |
| `ChatServer` | `clients_`, `components_` | onClientConnected, onDataReceived, onClientDisconnected, Send, Start, Stop | a `RemoteChatClient` is used only between connection and disconnection |
| `SystemComponent` | - | Hello | - |
| `UserComponent` | `users_` | connect, disconnect, Identify, SendMessage | user names are exclusive |
| `ChannelComponent` | `channels_` (members, operators, bans) | Join, Leave, SendMessage, Kick, Ban, disconnect | channels are consistent, only operators remove, bans hold, members are informed |

`ChannelComponent` and `SystemComponent` ask `UserComponent` for the `ChatUser`
of a client and share it; all three send through `ChatServer::Send`, which
looks the client up in `clients_`. A disconnection visits the components in the
order in which `main` added them: the user is erased before the channels are.

### The client

| component | state | operations | correct when |
|---|---|---|---|
| `TcpClient` | socket, `is_connected_`, worker thread | Connect, worker loop, Disconnect, destructor, Send | OnConnected and OnDisconnected alternate; no thread is lost |
| `ChatClient` | `is_connected_`, `components_` | Connect, Disconnect, onDataReceived | `is_connected_` agrees with the socket |
| client components | own user, `channels_` | one Send and two handlers per request | the view of a channel agrees with the server's |
| `Event` | callbacks, a mutex | Add, call | no callback waits for its own event |

### Shared

`Buffer` and `TypedBuffer` (positions, widths, byte order), the headers of the
protocol, `Utility` (hash and random numbers), `String`, `CommandLine`,
`IPEndpoint`.

### What is hard here

* Sessions interleave: a packet of one client arrives between any two of
  another's, a connection ends at any point, and the allocator may give the
  next connection the same `RemoteChatClient` address, the key of every map.
* A peer may send the packets in any order. `Hello`, `Identify` and the channel
  requests are not checked against each other in all the places that rely on
  an order.
* `channels_` is searched by name but keeps every channel that ever existed.
* TCP is a stream and the handlers take a chunk for a sequence of packets.
* The client has two threads that connect, disconnect and report both, and a
  server that is stopped shares its tables with its worker.

The list of hazards, each at its line, is in `PROJECT.json`.

## 2. Modules

| module | models | state |
|---|---|---|
| `ChatProtocol` | texts, `ChatUser`, packets, results | - |
| `ChatTransport` | `ChatServer::Send` | `clients`, `out` |
| `UserComponent` | the server's `user_component.cpp` | `users` |
| `SystemComponent` | the server's `system_component.cpp` | - |
| `ChannelComponent` | the server's `channel_component.cpp` | `channels`, `crashed` |
| `ChatServer` | `chat_server.cpp`, the worker loop; `Spec`, the properties | `serving`, `handled` |
| `ChatService` | what a chat server promises (abstract) | `identity`, `rooms` |
| `ChatServerRefinement` | the mapping from `ChatServer` to `ChatService` | - |
| `ClientComponents` | the three components of the client, as operators on a view | - |
| `ChatSystem` | `ChatServer`, its clients and the packets between them | `view`, `inbox`, `expelled` (history) |
| `TcpConnection` | `TcpClient` and the flag of `ChatClient`: caller and worker thread | flags, socket, places of the threads |
| `ServerLifecycle` | `TcpServer` and `ChatServer`: Start, Stop, destructor and worker | flags, tables, places of the threads |
| `ByteBuffer` | `Buffer`, `TypedBuffer`, as operators on bytes and a position | - |
| `PacketStream` | Send, TCP and `onDataReceived`, byte by byte | `wire`, `handled`, ... |
| `ChatServerClaims`, `ChatSystemClaims` | statements of comments and callers that the code refutes | - |
| `MCChatServer`, `MCChatServerClaims`, `MCChatSystem`, `MCPacketStream` | values of constants for TLC | - |
| `ChatServerProofs`, `ChatRefinementProofs`, `ChatSystemProofs`, `ServerLifecycleProofs`, `TcpConnectionProofs`, `PacketStreamProofs` | theorems | - |
| `ClientViewProofs` | lemmas about bags and the handlers of the client | - |
| `FoldSteps` | lemmas about `FoldLeft`, for an operator that the instance gives | - |

The components extend one another as they use one another in the code, and
`ChatServer` composes them. One action is one packet, one accept or one
disconnection: that is the grain at which the worker thread can be interleaved
with what other clients do, since it serves nothing else in between.

`ChatSystem` extends `ChatServer` and `ClientComponents`. The two modules about
threads and the one about bytes stand beside it: what they need of the chat is
that a packet is handled or not.

### The server: how the state corresponds to the code

* A `RemoteChatClient` is an element of `Client`, which stands for its address:
  the element is free again after a disconnection and the next connection may
  take it. `users` and the member and operator sets of a channel are the maps
  keyed by such pointers.
* `users[c]` is the shared `ChatUser`, which channels hold too; the entry of a
  channel is always the one of `users_`, so only the keys are kept.
* `channels` is the vector `channels_`, disabled entries included.
* `serving` and `handled` are the loop of `worker_loop` and the local variable
  of `onDataReceived`. A chunk ends with `EndOfChunk` (something was handled),
  `NothingHandled` or `MalformedPacket` (a bad header); the last two drop the
  connection in the same step.
* `out` holds the packets that the latest step gave to `TcpServer::Send`. Each
  has the result, the channel, the users it describes, which of them it marks
  as operators, and the bans. Texts of messages and the echo of the request
  are left out: nothing reads them again.
* Texts are model values. The classes that the handlers test for (empty or with
  a `#`, too long) are subsets of them. `username@hostname` is a pair, which
  loses nothing because a hash has no `@`. The one comparison of such a text
  with a bare name (`channel_component.cpp:1061`) goes through the constant
  `Spells`, the names whose text reads as such a pair.
* `Utility::HashString` is a function `HashString` of the address, any function.
* Pointer order decides which of two members of one name a loop finds; the
  model takes any of them.
* `crashed` is the end of the process in `KickUser` (see section 4). Nothing
  happens afterwards, which is why the runs say `CHECK_DEADLOCK FALSE`.
* Calls whose failure the server program cannot meet (`GetComponent`, events
  without callbacks) are taken to succeed.

With `HelloFirst = TRUE` every peer behaves like `jchat_client`, which sends
Hello from `SystemComponent::OnConnected` before its user can type anything.
With `FALSE` a peer sends anything at any time. Exclusive names, bans and the
information of every member need the first; what is said of "any peer" below
holds for both.

### The client and its view

* `view[c]` is `user_` of the `UserComponent` and `channels_` of the
  `ChannelComponent`. An entry holds its clients and operators as bags, since a
  vector may list somebody twice, which `ViewsAgree` would notice.
* `Received(v, p)` is `Handle` of the component that the header names, one
  operator per type of packet.
* `inbox[c]` is what is under way to a client. Packets that change no view
  (refusals, Hello, messages) do not wait in it.
* Requests are not queued: a user may type any command at any time, so a
  request that arrives late is one that was typed late.
* `Reconnects` lets the same `ChatClient` connect again, with what
  `OnDisconnected` leaves behind. The client program ends instead.
* `expelled` remembers who was kicked or banned since it connected: the view of
  such a client keeps the entry, and its later views are wrong (section 4).

### Threads

`TcpConnection` and `ServerLifecycle` give each thread its place in the code
(`caller`, `worker`) and each access to something shared an action. Both say
what the C++ standard says of a `std::thread` that is assigned to or destroyed
while joinable (the process is terminated), and that a thread joins another
only when that has ended. Three things are decided in them:

* `is_connected_` and `is_listening_` are plain `bool`s that two threads use, a
  data race. The models take their accesses as sequentially consistent, the
  outcome of builds in which the calls in the loop keep the compiler from
  holding the flag in a register.
* Use of destroyed objects makes the process `"undefined"` or leaves it
  running, either. In `ServerLifecycle` these are the deleted clients that Stop
  visits (`RemoveClients`) and what the worker finds while a `ChatServer` is
  destroyed (`Callback`). In `TcpConnection` it is the same for a `ChatClient`:
  `~ChatClient` is empty, so the events and `components_` go before
  `~TcpClient` joins the worker, and `WorkerReceives` and `WorkerReports` find
  them `Destroyed`. The client program never destroys a connected `ChatClient`;
  the class allows it.
* In `TcpConnection`, `exits` says whether the program added the callback that
  ends it on a disconnection, as `main.cpp:36` does.

### Bytes

`PacketStream` runs `ByteBuffer` on sequences of bytes. Both ends' orders of
bytes are chosen at the start. A write takes a packet whole, its first bytes or
nothing; a chunk ends anywhere. `written`, `taken` and `torn` record what was
written whole, how much of it was received in whole packets and what, if
anything, broke the stream. All packets have a number and a text for a body,
the shape of an answer to Identify and most others.

The loops of the code (of `Buffer::Write` and `WriteArray`, of
`onDataReceived`) are folds of a named turn (`Put`, `WriteByte`, `Turn`) over
the turns that the loop can take. The turns of `onDataReceived` carry the
order of bytes of the host in their state.

## 3. Runs

| run | shows | states |
|---|---|---|
| `sessions` | `UsernamesExclusive`, `NoMemberBanned`, `RemovalNeedsAuthority`, `MembersInformed`, `OnlyMembersHear` for polite peers | 163 346 |
| `service` | `ServesChat`: `ChatServer` implements `ChatService`; `NoDanglingClient`, `ChannelLifecycle`, `MembersInformed` with two channels; for polite peers | 39 016 |
| `any_peer` | `TypeOK`, `NoDanglingClient`, `ChannelLifecycle`, `OperatorsOnlyLost`, `ClosedForGood` for any peers | 94 516 |
| `views` | `ViewsAgree`, `KnowsItsName`, `OnlyHandledSent`, `MessagesShown` for `jchat_client`s that reconnect | 298 118 |
| `connection` | `ConnectionTypeOK`, `SocketAccounted`, `EnabledWhileConnected`, `TerminatesOnlyLost`, `UndefinedOnlyUnjoined`, `LostForGood`, and under fairness `EndReported`, `JoinReturns` | 603 |
| `lifecycle` | `LifecycleTypeOK`, `TablesAgree`, `UndefinedOnlyWithClients`, and under fairness `StopReturnsOrSilence`, `ConnectionsAccepted` | 22 290 |
| `stream` | `PacketsExact`, and under fairness `PacketsArrive` | 49 564 |
| `claim_*` | one statement each that the code does not keep | - |

Bounds, and why they are enough:

* `sessions` has three clients: an operator, the one it removes, and a witness
  who must be told. Three good names let a banned client come back under its
  own name or another, and `noname` is a bad one. All clients have one host and
  one hash, the worst case for bans. One channel name with `MaxChannels = 2`
  is enough for a channel to close and be opened again beside its old entry.
* `service` has two clients, two channel names and `MaxChannels = 2`: a
  disconnection leaves two channels at once, and a lookup that misses an open
  channel makes a second enabled one of its name. A lookup that stops at a
  disabled entry of the name needs three entries to do so: with
  `MaxChannels = 3` these properties hold as well, in 300 196 states, but
  `ServesChat` then takes longer than five minutes, as it does with three
  clients.
* `any_peer` has two hosts with distinct hashes, a name that is too long, a
  channel name without `#`, one that is too long and a name that reads as a
  ban entry. `MaxChannels = 1` makes a closed channel unable to come back,
  except for a lookup that wrongly finds it. That a name has one enabled channel
  only, and departures from several channels, mean something in `service`; for
  peers of any kind they rest on `ChannelsConsistent` and `NoDanglingReference`.
* `views` has three clients, for an operator, a member and somebody who comes
  and goes. `MaxInFlight = 1`: the properties are about the view once all that
  is under way has been read (`Expected`), so a longer queue adds what reading
  it first shows as well. `MaxEntries = 1`: only an expelled client can have
  two entries of a name, and expelled clients are excepted.
* `connection` has no constants: its states are all there are. There is one
  connection at a time, and any number one after the other.
* `lifecycle` has three clients: one accepted, one that waits, and one that
  comes in between. Start and Stop follow each other without a bound.
* `stream` has 16 values of a byte instead of 256, three packets (one without
  text, one whose text contains a tag, one of an unknown type), three calls of
  Send and a buffer of 33 bytes, which two packets fit in, two of the longest
  do not, and some sums of lengths just fill. `Cut` names where a write or a
  chunk may end besides the end: within the header, behind it, within the body
  and at the ends of packets.
* `MaxChannels`, `MaxInFlight`, `MaxEntries` and `MaxSent` are the only bounds
  on the behaviour; the other variables are finite by nature.
* Clients are addresses, so the runs use them symmetrically where no liveness
  is checked.

Fairness, and why the code justifies it: the operating system runs both threads
(`WF` of everything the worker does and of what the caller does once it has
called, in `connection` and `lifecycle`), and TCP delivers bytes to a worker
that keeps reading (`WF` of `ReceiveSome` in `stream`). Nobody has to call
Connect, Disconnect, Start or Stop, no peer has to send or close, and no packet
has to be sent. `select` has no time limit, so a silent peer leaves a worker
there: the properties name that case.

Beside the definitions that model the code stand some named "mutant of": each
is a definition changed as a slip of the programmer would, and puts to the test
the property that `PROJECT.json` names with it.

### What the properties mean

The server:

* `NoDanglingClient`: an address that was freed is a key nowhere.
* `ChannelLifecycle`: an enabled channel has members, at most one of a name is
  enabled, operators are members, members have identified.
* `UsernamesExclusive`, `NoMemberBanned`: as named, across disconnections.
* `RemovalNeedsAuthority`: a member goes by its own packet, with its
  connection, or by an operator of the same channel, who alone adds bans.
* `OperatorsOnlyLost`: operators afterwards are the operators before that are
  still members.
* `ClosedForGood`: names and bans are kept; a closed channel never changes.
* `MembersInformed`: whoever stays is told of everyone who comes or goes, by
  whatever way; who comes is told who is there; who is removed is told.
* `OnlyMembersHear`: a notice goes to members of that moment other than the
  sender, and what is said comes from a member.
* `ServesChat`: the rooms of `ChatService` are the enabled channels and its
  identities the identified users. A disconnection is one `LogOut`, however
  many channels it leaves; a crash and all that only answers are stutters.

Server and clients:

* `ViewsAgree`: with what is under way read, a client that was not expelled has
  one entry for each channel it is in and none for others, with exactly the
  members, operators and bans of the server.
* `KnowsItsName`: an identified client knows the name and the hash that others
  are told.
* `OnlyHandledSent`: the server sends nothing that the client does not handle.
  The refusal of a long channel name is no exception: the client handles it, as
  a refused Identify (`claim_toolong`).
* `MessagesShown`: when a message arrives, the client knows its sender.

Threads and bytes:

* `SocketAccounted`: between calls the socket is open exactly while
  `is_connected_` says so; only a Disconnect or destructor that raced a worker
  closes it a second time. `EnabledWhileConnected`: so with the user's
  `Enabled`, except where the report of the end overtook OnConnected.
* `TerminatesOnlyLost`: `std::terminate` comes from the destructor only, after
  a connection that the worker gave up. `UndefinedOnlyUnjoined`: a `ChatClient`
  that never connected, or that disconnected, is destroyed safely. `LostForGood`: after that a `ChatClient`
  neither connects nor disconnects any more.
* `EndReported`, `JoinReturns`: ends are reported; Disconnect returns or the
  server is silent for ever.
* `TablesAgree`: `accepted_clients_`, `clients_` and the components' tables.
  `UndefinedOnlyWithClients`: Stop is safe while nobody is connected.
* `StopReturnsOrSilence`, `ConnectionsAccepted`: as `JoinReturns`, and the
  backlog is served.
* `PacketsExact`, `PacketsArrive`: no packet is lost, changed, repeated or read
  early while none is cut; what breaks the stream is named. What is read behind
  a cut is modelled, as the code reads it, but neither property asks anything
  of it.

## 4. Where code and text disagree

Each is the counterexample of a `claim_*` run:

* `claim_kick`: `KickUser` of a name that no member has reads a null pointer
  (`channel_component.cpp:829`) after "Check if the target is in the channel".
* `claim_names`: names are searched among users that said Hello only
  (`user_component.cpp:158`), and Identify does not ask for Hello.
* `claim_banned`: "Check if the target is already banned"
  (`channel_component.cpp:1058`) compares `username@hostname` with a name.
* `claim_toolong`: `ChannelNameTooLong` goes out under the User component
  (`channel_component.cpp:194`).
* `claim_departed`: "Find the channel and remove the user" (the client's
  `channel_component.cpp:489`) finds the entry that an earlier kick left, not
  the one that a second join added (`:76`).

Two more are plain from the text, and part of the models: a channel that its
last member leaves is disabled and kept where `channel_component.cpp:472` says
"delete it", and one handled packet makes up for unhandled ones where
`chat_server.cpp:217` says "if any are unhandled, drop the connection".

## 5. Proofs

The theorems about `ChatServer` and `ChatSystem` hold for any number of
clients, names and channels and for any bounds, under the assumptions on their
constants (`NamesAssumption`, `HashAssumption`, `NothingAssumption`,
`NoUserAssumption`, `MaxChannelsAssumption`, `HelloFirstAssumption`,
`NobodyAssumption`, `NoNameAssumption`, `SystemAssumption`); those about
`ServerLifecycle` for any set of clients (`ListenerAssumption`); the one about
`PacketStream` for any packets with texts of any length, any set of known
types, any number of calls and places to cut, and a byte of any number of
values that tells the tags apart (`BaseAssumption`). Its `StreamAssumption`
asks that the buffer be no larger than a number of four bytes can say: the
code's is of 8192 bytes, and the length in a header of 32 bits. `TcpConnection`
has no constants: its theorems say of all its behaviours what TLC finds, by an
argument that a reader can follow.

| theorem | property | peers |
|---|---|---|
| `TypeCorrect` | `TypeOK` | any |
| `NoDanglingReference` | `NoDanglingClient` | any |
| `ChannelsConsistent` | `ChannelLifecycle` | any |
| `AuthorityRequired` | `RemovalNeedsAuthority` | any |
| `OperatorsNeverGained` | `OperatorsOnlyLost` | any |
| `ClosedStaysClosed` | `ClosedForGood` | any |
| `MembersAloneHear` | `OnlyMembersHear` | any |
| `ExclusiveNames` | `UsernamesExclusive` | `HelloFirst` |
| `BansHold` | `NoMemberBanned` | `HelloFirst` |
| `MembersAlwaysInformed` | `MembersInformed` | `HelloFirst` |
| `Implementation` | `ServesChat` | `HelloFirst` |
| `ClientsHandleAll` | `OnlyHandledSent` | any |
| `ViewsConverge` | `ViewsAgree` | `HelloFirst` |
| `OwnNameKnown` | `KnowsItsName` | `HelloFirst` |
| `MessagesAlwaysShown` | `MessagesShown` | `HelloFirst` |
| `LifecycleTypeCorrect` | `LifecycleTypeOK` | - |
| `TablesAlwaysAgree` | `TablesAgree` | - |
| `UndefinedNeedsClients` | `UndefinedOnlyWithClients` | - |
| `ConnectionTypeCorrect` | `ConnectionTypeOK` | - |
| `SocketAlwaysAccounted` | `SocketAccounted` | - |
| `EnabledAgrees` | `EnabledWhileConnected` | - |
| `TerminationNeedsLoss` | `TerminatesOnlyLost` | - |
| `UndefinedNeedsWorker` | `UndefinedOnlyUnjoined` | - |
| `LostStaysLost` | `LostForGood` | - |
| `PacketsAlwaysExact` | `PacketsExact` | hosts of either order of bytes |

* Types and names, in `ChatServerProofs`. The three invariants hold together: `ServerInv` says that
  the users are those of the connected clients (`Sessions`), that the vector of
  channels is `Sound` for them, and that packets are well formed. Soundness is
  a predicate of a vector, a set of clients and their users, with one lemma for
  each way to change it: replace a channel, append one, change the users, take
  a client out of all. There is one lemma per request and one per other step.
  `UsernamesExclusive` is not inductive: Identify searches the enabled users
  only. With `HelloBeforeIdentify` (who identified had said Hello) it is:
  `NamesInv`.
* Bans and rights, in `ChatServerProofs`. `ChannelEffect` classifies what a step does to a
  channel: nothing, let the sender in, or take one member out, with or without
  a ban. The action properties follow from it. `BansHold` needs exclusive names
  as well: otherwise the ban of one member would hit another of the same name.
* Notices, in `ChatServerProofs`. One lemma per request for what it sends. That nobody is
  left out (`MembersAlwaysInformed`) needs that every member is enabled, since
  the loops skip others, and so that Hello came first; that nobody else hears
  (`MembersAloneHear`) does not.
* `ChatRefinementProofs`. The rooms are a function of the vector of channels
  and the identities one of the users, so that the lemmas about replacing,
  appending and emptying channels speak of the states before and after a step.
  Every accepted request is one step of the service and everything else, the
  crash included, is none. Exclusive names are what makes an accepted Identify
  a `LogIn`.
* `ChatSystemProofs`. `ViewsAgree` is not inductive: that an entry is right
  after the next packet depends on what it listed before, on the names of
  members being distinct, and on the client knowing its own name before it
  joins. `SystemInv` adds to the invariants of the server that the view and the
  inbox are well formed and that a connected client is `InStep`: with all that
  is under way read, it knows its name, and for each channel name that it was
  not expelled from it has exactly the entry that the server would give it now,
  or none. TLC checks `ClientInv` on the instance of `views`. The proof turns
  on delivery: what a step sends to a client goes to the end of its inbox, so
  the view that it will have is the one it would have had, after handling those
  packets. `RequestEffect` says of a request to the `ChannelComponent` which
  packets go with which change of a channel (create, enter, leave, kick, ban,
  or nothing); one lemma per kind (`EnterAdvances`, ...) shows that the packet
  a client is sent makes of its entry the entry of the changed channel. A
  disconnection sends a client one notice for each channel it shares with the
  one that goes; the notices may come in any order because they are about
  different channels (`DeparturesHandled`).
* `FoldSteps`. A fold over a sequence is the end of a trace of its states
  (`FoldTrace`, `TraceFold`), from which follow the folds of the empty sequence,
  of one element, and of a sequence with an element added at either end. The
  operator is a constant of the module. A lemma cannot be instantiated with an
  operator but a module can: each user takes `INSTANCE FoldSteps WITH Op <- ...`
  for each of its loops.
* `ClientViewProofs`. Bags that hold each element once behave like
  sets. One lemma per handler says what it does to the entry of the packet's
  channel, that it leaves the entries of other channels as they were though
  erasing one moves those behind it, and that it touches nothing else.
* `ServerLifecycleProofs` and `TcpConnectionProofs`. The inductive invariants
  relate the places of both threads to the flags, the thread handle, the socket
  and the tables: who is between which two assignments, and what the shared
  state then differs by.
* `PacketStreamProofs`. From the inside out: the digits of a number make the
  number again in either order (`ReadTwoBytes`, `ReadFourBytes`); writing at
  the end of a buffer appends (`WriteAfter`), although `Write` decides with an
  index that runs ahead of the position; so `Encode` yields the same bytes on
  every host, which `PacketBytes` lays out (`EncodeIs`, `PacketLayout`).
  Wherever a chunk holds those bytes, one turn of the loop takes exactly that
  packet (`TakePacketHeld`), so a chunk of whole packets is read to its end and
  every packet of a known type is handled (`ChunkTaken`). The inductive
  invariant `StreamInv` is `PacketsExact` with the types: `SendKeeps` needs that
  bytes of packets in a row are joined (`BytesAppend`), `ReceiveKeeps` that a
  chunk of the first packets leaves exactly the bytes of the others.

Only model-checked:

* Liveness (`EndReported`, `JoinReturns`, `StopReturnsOrSilence`,
  `ConnectionsAccepted`, `PacketsArrive`): it needs ENABLED and well-founded
  arguments that this prover does not take.

## 6. Not modelled

* `TcpServer::DisconnectClient`, `RemoveComponent`, `Buffer::Rewind` and
  `Clear`, temporary callbacks: no program of the repository uses them. So with
  the reading and writing of a buffer in the middle: nothing writes but at the
  end, where `Write` is right.
* `Event` and the mutexes of the components: callbacks are added before a
  thread runs, each event is raised by one thread at a time and no handler
  raises its own, so no lock is ever waited for.
* The OpUser, DeopUser and UnbanUser packets: "TODO" in the code on both ends.
* What a component does that raises or extends an event from one of that
  event's callbacks, or calls DisconnectClient from the worker: it would wait
  for a lock of its own, and nothing in the repository does it.
* SIGPIPE: both ends call `send` without `MSG_NOSIGNAL`, so that a POSIX system
  ends a process that sends to a connection which the peer has closed and that
  has not changed the default. A write in `PacketStream` that fails sends
  nothing.
* Memory: `ReadString` and `ReadBlob` make room for the length that the packet
  claims before they look whether as many bytes are there. The model refuses
  the packet, as the code does when there is room; that there is none (a length
  of up to 2^32 - 1) is left out.
* What a hash promises: the models take any function. That two hosts with one
  hash share their bans is in them, and no property calls it right or wrong.
* The length of `channels_`, which only grows: `MaxChannels` bounds the
  instances, and the theorems hold for any value of it.
* `TcpClient::Send` that meets a socket which the worker closes: the number
  would have to belong to another file by then.
* Failures of `socket`, `bind`, `accept` and the like: each returns without a
  change, which is a call that did not begin.
* Console input and output of the two programs, command line and string
  helpers, address formatting, and the random numbers of guest names, which
  nothing compares.
