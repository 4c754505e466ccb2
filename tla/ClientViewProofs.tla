--------------------------- MODULE ClientViewProofs ---------------------------
(***************************************************************************)
(* What the handlers of a client do to its view: lemmas about the folding  *)
(* of packets into a view, about the bags of an entry and about each       *)
(* handler, for every value of the constants.                              *)
(***************************************************************************)
EXTENDS ClientComponents, WellFoundedInduction, FiniteSetTheorems,
        SequenceTheorems, TLAPS

\* The views that a client goes through when it handles packets in a row.
Handling == INSTANCE FoldSteps WITH Op <- Received

LEMMA HandlingFolds ==
  ASSUME NEW v, NEW s
  PROVE  FoldLeft(Received, v, s) = Handling!Folded(v, s)
  BY DEF FoldLeft, MapThenFoldSet, Max, Handling!Folded, Handling!FoldLeft,
         Handling!MapThenFoldSet, Handling!Max

-----------------------------------------------------------------------------
(***************************************************************************)
(* Bags of names and addresses.                                            *)
(***************************************************************************)
LEMMA BagSum ==
  ASSUME NEW S, NEW T, S \cap T = {}
  PROVE  SetToBag(S) (+) SetToBag(T) = SetToBag(S \cup T)
  BY DEF SetToBag, (+)

LEMMA BagDifference ==
  ASSUME NEW S, NEW x
  PROVE  SetToBag(S) (-) SetToBag({x}) = SetToBag(S \ {x})
<1> DEFINE D == [e \in S |-> IF e \in {x} THEN 1 - 1 ELSE 1]
<1>1. SetToBag(S) (-) SetToBag({x}) = [e \in {d \in S : D[d] > 0} |-> D[e]]
  BY DEF SetToBag, (-)
<1>2. {d \in S : D[d] > 0} = S \ {x}
  OBVIOUS
<1>3. \A e \in S \ {x} : D[e] = 1
  OBVIOUS
<1> HIDE DEF D
<1> QED
  BY <1>1, <1>2, <1>3 DEF SetToBag

LEMMA BagMember ==
  ASSUME NEW S, NEW x
  PROVE  BagIn(x, SetToBag(S)) <=> x \in S
  BY DEF BagIn, BagToSet, SetToBag

LEMMA IdentityBagIs ==
  ASSUME NEW B
  PROVE  B \in IdentityBag <=>
           /\ DOMAIN B \subseteq HostInfo \cup {NoName}
           /\ B \in [DOMAIN B -> Nat \ {0}]
<1>1. ASSUME B \in IdentityBag
      PROVE  /\ DOMAIN B \subseteq HostInfo \cup {NoName}
             /\ B \in [DOMAIN B -> Nat \ {0}]
  <2>1. PICK S \in SUBSET (HostInfo \cup {NoName}) : B \in [S -> Nat \ {0}]
    BY <1>1 DEF IdentityBag
  <2> QED
    BY <2>1
<1>2. ASSUME DOMAIN B \subseteq HostInfo \cup {NoName},
             B \in [DOMAIN B -> Nat \ {0}]
      PROVE  B \in IdentityBag
  BY <1>2 DEF IdentityBag
<1> QED
  BY <1>1, <1>2

LEMMA SetToBagType ==
  ASSUME NEW S \in SUBSET (HostInfo \cup {NoName})
  PROVE  SetToBag(S) \in IdentityBag
<1>1. DOMAIN SetToBag(S) = S /\ SetToBag(S) \in [S -> Nat \ {0}]
  BY DEF SetToBag
<1> QED
  BY <1>1, IdentityBagIs

LEMMA BagSumType ==
  ASSUME NEW B \in IdentityBag, NEW C \in IdentityBag
  PROVE  B (+) C \in IdentityBag
<1> DEFINE D == B (+) C
<1>1. /\ DOMAIN B \subseteq HostInfo \cup {NoName} /\ B \in [DOMAIN B -> Nat \ {0}]
      /\ DOMAIN C \subseteq HostInfo \cup {NoName} /\ C \in [DOMAIN C -> Nat \ {0}]
  BY IdentityBagIs
<1>2. DOMAIN D = DOMAIN B \cup DOMAIN C
  BY DEF (+)
<1>3. \A e \in DOMAIN D : D[e] \in Nat \ {0}
  BY <1>1 DEF (+)
<1>4. D = [e \in DOMAIN D |-> D[e]]
  BY DEF (+)
<1> HIDE DEF D
<1>5. D \in [DOMAIN D -> Nat \ {0}]
  BY <1>3, <1>4
<1>6. D \in IdentityBag
  BY <1>1, <1>2, <1>5, IdentityBagIs
<1> QED
  BY <1>6 DEF D

LEMMA BagDifferenceType ==
  ASSUME NEW B \in IdentityBag, NEW x
  PROVE  B (-) SetToBag({x}) \in IdentityBag
<1> DEFINE E == [e \in DOMAIN B |-> IF e \in {x} THEN B[e] - 1 ELSE B[e]]
           D == B (-) SetToBag({x})
<1>1. DOMAIN B \subseteq HostInfo \cup {NoName} /\ B \in [DOMAIN B -> Nat \ {0}]
  BY IdentityBagIs
<1>2. D = [e \in {d \in DOMAIN E : E[d] > 0} |-> E[e]]
  BY DEF (-), SetToBag
<1>3. DOMAIN E = DOMAIN B /\ \A e \in DOMAIN E : E[e] \in Int
  BY <1>1
<1> HIDE DEF E, D
<1>4. DOMAIN D \subseteq DOMAIN B /\ D \in [DOMAIN D -> Nat \ {0}]
  BY <1>2, <1>3
<1>5. D \in IdentityBag
  BY <1>1, <1>4, IdentityBagIs
<1> QED
  BY <1>5 DEF D
-----------------------------------------------------------------------------
(***************************************************************************)
(* What a view knows of a channel name.                                    *)
(***************************************************************************)
Lacks(v, name) == Entries(v, name) = {}

Has(v, name, entry) ==
  \E j : Entries(v, name) = {j} /\ v.Channels[j] = entry

\* w still knows of a name what v did, and is the view of the same user.
Keeps(v, w, name) ==
  /\ Lacks(v, name) => Lacks(w, name)
  /\ \A entry : Has(v, name, entry) => Has(w, name, entry)

SameUser(v, w) ==
  /\ w \in View
  /\ w.Online = v.Online /\ w.Identified = v.Identified /\ w.User = v.User

\* The view with other channels.
WithChannels(v, s) == [v EXCEPT !.Channels = s]

LEMMA WithChannelsIs ==
  ASSUME NEW v \in View, NEW s \in Seq(Entry)
  PROVE  /\ SameUser(v, WithChannels(v, s))
         /\ WithChannels(v, s) \in View
         /\ WithChannels(v, s).Channels = s
  BY DEF SameUser, View, WithChannels

LEMMA ViewChannels ==
  ASSUME NEW v \in View
  PROVE  v.Channels \in Seq(Entry)
  BY DEF View

LEMMA EntriesIn ==
  ASSUME NEW v \in View, NEW name
  PROVE  \A j : j \in Entries(v, name) <=>
           j \in 1..Len(v.Channels) /\ v.Channels[j].Name = name
<1>1. v.Channels \in Seq(Entry)
  BY DEF View
<1> QED
  BY <1>1 DEF Entries

LEMMA Replaced ==
  ASSUME NEW v \in View, NEW s \in Seq(Entry), NEW j \in 1..Len(v.Channels),
         Len(s) = Len(v.Channels), s[j].Name = v.Channels[j].Name,
         \A k \in 1..Len(v.Channels) : k # j => s[k] = v.Channels[k]
  PROVE  LET w == WithChannels(v, s) IN
         /\ SameUser(v, w)
         /\ \A name : name # s[j].Name => Keeps(v, w, name)
         /\ Entries(v, s[j].Name) = {j} => Has(w, s[j].Name, s[j])
<1> DEFINE w == WithChannels(v, s)
<1>1. SameUser(v, w) /\ w.Channels = s /\ w \in View
  BY WithChannelsIs
<1> HIDE DEF w
<1>2. ASSUME NEW name PROVE Entries(w, name) = Entries(v, name)
  <2>1. \A k : k \in Entries(w, name) <=> k \in 1..Len(s) /\ s[k].Name = name
    BY <1>1, EntriesIn
  <2>2. \A k : k \in Entries(v, name) <=>
               k \in 1..Len(s) /\ v.Channels[k].Name = name
    BY EntriesIn
  <2> QED
    BY <2>1, <2>2
<1>3. ASSUME NEW name, name # s[j].Name PROVE Keeps(v, w, name)
  <2>1. \A k \in Entries(v, name) : w.Channels[k] = v.Channels[k]
    BY <1>1, <1>3, EntriesIn
  <2> QED
    BY <1>2, <2>1 DEF Keeps, Lacks, Has
<1>4. Entries(v, s[j].Name) = {j} => Has(w, s[j].Name, s[j])
  BY <1>1, <1>2 DEF Has
<1> QED
  BY <1>1, <1>3, <1>4 DEF w

LEMMA Appended ==
  ASSUME NEW v \in View, NEW entry \in Entry
  PROVE  LET w == WithChannels(v, Append(v.Channels, entry)) IN
         /\ SameUser(v, w)
         /\ \A name : name # entry.Name => Keeps(v, w, name)
         /\ Lacks(v, entry.Name) => Has(w, entry.Name, entry)
<1> DEFINE n == Len(v.Channels)
           s == Append(v.Channels, entry)
           w == WithChannels(v, s)
<1>1. v.Channels \in Seq(Entry) /\ n \in Nat
  BY DEF View
<1>2. /\ s \in Seq(Entry) /\ Len(s) = n + 1 /\ s[n + 1] = entry
      /\ \A k \in 1..n : s[k] = v.Channels[k]
  BY <1>1
<1> HIDE DEF s
<1>3. SameUser(v, w) /\ w.Channels = s /\ w \in View
  BY <1>2, WithChannelsIs
<1> HIDE DEF n, w
<1>4. ASSUME NEW name
      PROVE  Entries(w, name) =
               Entries(v, name) \cup (IF entry.Name = name THEN {n + 1} ELSE {})
  <2>1. \A k : k \in Entries(w, name) <=> k \in 1..(n + 1) /\ s[k].Name = name
    BY <1>2, <1>3, EntriesIn
  <2>2. \A k : k \in Entries(v, name) <=>
               k \in 1..n /\ v.Channels[k].Name = name
    BY EntriesIn DEF n
  <2>3. \A k \in 1..n : s[k].Name = name <=> v.Channels[k].Name = name
    BY <1>2
  <2>4. s[n + 1].Name = name <=> entry.Name = name
    BY <1>2
  <2> QED
    BY <1>1, <2>1, <2>2, <2>3, <2>4
<1>5. ASSUME NEW name, name # entry.Name PROVE Keeps(v, w, name)
  <2>1. Entries(w, name) = Entries(v, name)
    BY <1>4, <1>5
  <2>2. \A k \in Entries(v, name) : w.Channels[k] = v.Channels[k]
    BY <1>2, <1>3, EntriesIn DEF n
  <2> QED
    BY <2>1, <2>2 DEF Keeps, Lacks, Has
<1>6. Lacks(v, entry.Name) => Has(w, entry.Name, entry)
  BY <1>2, <1>3, <1>4 DEF Has, Lacks
<1> QED
  BY <1>3, <1>5, <1>6 DEF w, s

LEMMA RemoveAtIs ==
  ASSUME NEW X, NEW s \in Seq(X), NEW j \in 1..Len(s)
  PROVE  /\ RemoveAt(s, j) \in Seq(X)
         /\ Len(RemoveAt(s, j)) = Len(s) - 1
         /\ \A k \in 1..(Len(s) - 1) :
              RemoveAt(s, j)[k] = IF k < j THEN s[k] ELSE s[k + 1]
<1> DEFINE front == SubSeq(s, 1, j - 1)
           back == SubSeq(s, j + 1, Len(s))
<1>1. /\ front \in Seq(X) /\ Len(front) = j - 1
      /\ \A k \in 1..(j - 1) : front[k] = s[k]
  OBVIOUS
<1>2. /\ back \in Seq(X) /\ Len(back) = Len(s) - j
      /\ \A k \in 1..(Len(s) - j) : back[k] = s[k + j]
  OBVIOUS
<1> HIDE DEF front, back
<1>3. RemoveAt(s, j) = front \o back
  BY DEF RemoveAt, front, back
<1>4. /\ front \o back \in Seq(X)
      /\ Len(front \o back) = Len(s) - 1
      /\ \A k \in 1..(Len(s) - 1) : (front \o back)[k] =
           IF k <= Len(front) THEN front[k] ELSE back[k - Len(front)]
  <2>1. Len(s) \in Nat /\ Len(front) + Len(back) = Len(s) - 1
    BY <1>1, <1>2
  <2>2. front \in Seq(X) /\ back \in Seq(X)
    BY <1>1, <1>2
  <2>3. /\ front \o back \in Seq(X)
        /\ Len(front \o back) = Len(front) + Len(back)
        /\ \A k \in 1..(Len(front) + Len(back)) : (front \o back)[k] =
             IF k <= Len(front) THEN front[k] ELSE back[k - Len(front)]
    BY <2>2, ConcatProperties
  <2> QED
    BY <2>1, <2>3
<1>5. ASSUME NEW k \in 1..(Len(s) - 1)
      PROVE  (front \o back)[k] = IF k < j THEN s[k] ELSE s[k + 1]
  <2>1. CASE k < j
    BY <1>1, <1>4, <2>1
  <2>2. CASE ~(k < j)
    <3>1. k - (j - 1) \in 1..(Len(s) - j) /\ (k - (j - 1)) + j = k + 1
      BY <2>2
    <3>2. back[k - (j - 1)] = s[k + 1]
      BY <1>2, <3>1
    <3> QED
      BY <1>1, <1>4, <2>2, <3>2
  <2> QED
    BY <2>1, <2>2
<1> QED
  BY <1>3, <1>4, <1>5

LEMMA Erased ==
  ASSUME NEW v \in View, NEW j \in 1..Len(v.Channels)
  PROVE  LET w == WithChannels(v, RemoveAt(v.Channels, j)) IN
         /\ SameUser(v, w)
         /\ \A name : name # v.Channels[j].Name => Keeps(v, w, name)
         /\ Entries(v, v.Channels[j].Name) = {j} => Lacks(w, v.Channels[j].Name)
<1> DEFINE n == Len(v.Channels)
           s == RemoveAt(v.Channels, j)
           w == WithChannels(v, s)
           back(k) == IF k < j THEN k ELSE k + 1
<1>1. v.Channels \in Seq(Entry) /\ n \in Nat /\ j \in 1..n
  BY DEF View
<1>2. /\ s \in Seq(Entry) /\ Len(s) = n - 1
      /\ \A k \in 1..(n - 1) : s[k] = v.Channels[back(k)]
  BY <1>1, RemoveAtIs
<1> HIDE DEF s
<1>3. SameUser(v, w) /\ w.Channels = s /\ w \in View
  BY <1>2, WithChannelsIs
<1> HIDE DEF w
<1>4. ASSUME NEW name, NEW k
      PROVE  k \in Entries(w, name) <=> k \in 1..(n - 1) /\ back(k) \in Entries(v, name)
  <2>1. k \in Entries(w, name) <=> k \in 1..(n - 1) /\ s[k].Name = name
    BY <1>2, <1>3, EntriesIn
  <2>2. ASSUME k \in 1..(n - 1)
        PROVE  back(k) \in Entries(v, name) <=> s[k].Name = name
    <3>1. back(k) \in 1..n
      BY <1>1, <2>2
    <3> HIDE DEF back
    <3>2. back(k) \in Entries(v, name) <=> v.Channels[back(k)].Name = name
      BY <3>1, EntriesIn
    <3> QED
      BY <1>2, <2>2, <3>2
  <2> QED
    BY <2>1, <2>2
<1>5. ASSUME NEW name, name # v.Channels[j].Name PROVE Keeps(v, w, name)
  <2>1. Entries(v, name) \subseteq (1..n) \ {j}
    BY <1>5, EntriesIn
  <2>2. Lacks(v, name) => Lacks(w, name)
    <3> HIDE DEF back
    <3> QED
      BY <1>4 DEF Lacks
  <2>3. ASSUME NEW entry, Has(v, name, entry) PROVE Has(w, name, entry)
    <3>1. PICK i : Entries(v, name) = {i} /\ v.Channels[i] = entry
      BY <2>3 DEF Has
    <3> DEFINE k == IF i < j THEN i ELSE i - 1
    <3>2. i \in 1..n /\ i # j
      BY <2>1, <3>1
    <3>3. k \in 1..(n - 1) /\ back(k) = i
      BY <1>1, <3>2
    <3>4. \A m \in 1..(n - 1) : back(m) = i => m = k
      BY <1>1, <3>2
    <3> HIDE DEF k, back
    <3>5. Entries(w, name) = {k}
      BY <1>4, <3>1, <3>3, <3>4
    <3>6. w.Channels[k] = entry
      BY <1>2, <1>3, <3>1, <3>3
    <3> QED
      BY <3>5, <3>6 DEF Has
  <2> QED
    BY <2>2, <2>3 DEF Keeps
<1>6. ASSUME Entries(v, v.Channels[j].Name) = {j}
      PROVE  Lacks(w, v.Channels[j].Name)
  <2>1. \A k \in 1..(n - 1) : back(k) # j
    BY <1>1
  <2> HIDE DEF back
  <2> QED
    BY <1>4, <1>6, <2>1 DEF Lacks
<1> QED
  BY <1>3, <1>5, <1>6 DEF w, s
-----------------------------------------------------------------------------
(***************************************************************************)
(* The handlers.                                                           *)
(***************************************************************************)
LEMMA SameView ==
  ASSUME NEW v \in View
  PROVE  SameUser(v, v) /\ \A name : Keeps(v, v, name)
  BY DEF SameUser, Keeps

LEMMA WithEntryIs ==
  ASSUME NEW v \in View, NEW name, NEW changed
  PROVE  /\ \/ WithEntry(v, name, changed) = v /\ \A j : Entries(v, name) # {j}
            \/ \E j \in Entries(v, name) :
                 WithEntry(v, name, changed) = WithChannels(v, changed[j])
         /\ \A j : Entries(v, name) = {j} =>
              WithEntry(v, name, changed) = WithChannels(v, changed[j])
<1>1. First(v, name) \subseteq Entries(v, name)
  BY DEF First
<1>2. ASSUME NEW j, Entries(v, name) = {j} PROVE First(v, name) = {j}
  <2>1. j \in 1..Len(v.Channels)
    BY <1>2, EntriesIn
  <2>2. v.Channels \in Seq(Entry)
    BY DEF View
  <2> QED
    BY <1>2, <2>1, <2>2 DEF First
<1>3. CASE First(v, name) = {}
  BY <1>2, <1>3 DEF WithEntry
<1>4. CASE First(v, name) # {}
  <2> DEFINE i == CHOOSE j \in First(v, name) : TRUE
  <2>1. i \in First(v, name)
    BY <1>4
  <2>2. WithEntry(v, name, changed) = WithChannels(v, changed[i])
    BY <1>4 DEF WithEntry, WithChannels
  <2> HIDE DEF i
  <2> QED
    BY <1>1, <1>2, <2>1, <2>2
<1> QED
  BY <1>3, <1>4

LEMMA EntryChanged ==
  ASSUME NEW v \in View, NEW name, NEW changed,
         \A j \in 1..Len(v.Channels) :
           /\ changed[j] \in Seq(Entry) /\ Len(changed[j]) = Len(v.Channels)
           /\ changed[j][j].Name = v.Channels[j].Name
           /\ \A k \in 1..Len(v.Channels) :
                k # j => changed[j][k] = v.Channels[k]
  PROVE  LET w == WithEntry(v, name, changed) IN
         /\ SameUser(v, w)
         /\ \A other : other # name => Keeps(v, w, other)
         /\ \A j : Entries(v, name) = {j} => Has(w, name, changed[j][j])
<1> DEFINE w == WithEntry(v, name, changed)
<1>1. ASSUME NEW j \in Entries(v, name)
      PROVE  LET x == WithChannels(v, changed[j]) IN
             /\ SameUser(v, x)
             /\ \A other : other # name => Keeps(v, x, other)
             /\ Entries(v, name) = {j} => Has(x, name, changed[j][j])
  <2>1. j \in 1..Len(v.Channels) /\ v.Channels[j].Name = name
    BY EntriesIn
  <2> QED
    BY <2>1, Replaced
<1>2. CASE w = v /\ \A j : Entries(v, name) # {j}
  BY <1>2, SameView
<1>3. CASE \E j \in Entries(v, name) : w = WithChannels(v, changed[j])
  <2>1. PICK j \in Entries(v, name) : w = WithChannels(v, changed[j])
    BY <1>3
  <2> HIDE DEF w
  <2> QED
    BY <1>1, <2>1 DEF w
<1> QED
  BY <1>2, <1>3, WithEntryIs

\* A packet that the client handles and that describes whom it should.
Names(p) ==
  \/ p.type \in {"JoinChannel", "LeaveChannel", "KickUser", "BanUser"}
  \/ /\ p.type \in {"Identify_Complete", "KickUser_Complete",
                    "BanUser_Complete"}
     /\ p.result = "Ok"

GoodPacket ==
  {p \in Packet : /\ Handles(p)
                  /\ p.component = "Channel" => p.channel \in ChannelName
                  /\ Names(p) => \E user \in HostInfo : p.who = {user}}

LEMMA SubjectIs ==
  ASSUME NEW p, NEW user, p.who = {user}
  PROVE  Subject(p) = user
  BY DEF Subject

\* An entry that lists nobody twice.
EntryOf(name, members, operators, bans) ==
  [Name |-> name, Clients |-> SetToBag(members),
   Operators |-> SetToBag(operators), Banned |-> bans]

LEMMA ErasedEntry ==
  ASSUME NEW entry \in Entry, NEW user
  PROVE  Erase(entry, user) \in Entry /\ Erase(entry, user).Name = entry.Name
<1>1. /\ entry.Clients (-) SetToBag({user}) \in IdentityBag
      /\ entry.Operators (-) SetToBag({user}) \in IdentityBag
  BY BagDifferenceType DEF Entry
<1> DEFINE cs == entry.Clients (-) SetToBag({user})
           os == entry.Operators (-) SetToBag({user})
<1>2. Erase(entry, user) = [[entry EXCEPT !.Clients = cs] EXCEPT !.Operators = os]
  BY DEF Erase, Entry
<1> HIDE DEF cs, os
<1>3. cs \in IdentityBag /\ os \in IdentityBag
  BY <1>1 DEF cs, os
<1> QED
  BY <1>2, <1>3 DEF Entry

LEMMA ErasedEntryOf ==
  ASSUME NEW name, NEW members, NEW operators, NEW bans, NEW user
  PROVE  Erase(EntryOf(name, members, operators, bans), user) =
           EntryOf(name, members \ {user}, operators \ {user}, bans)
<1> DEFINE cs == SetToBag(members)
           os == SetToBag(operators)
           entry == [Name |-> name, Clients |-> cs, Operators |-> os,
                     Banned |-> bans]
           cs2 == cs (-) SetToBag({user})
           os2 == os (-) SetToBag({user})
<1>1. entry.Clients = cs /\ entry.Operators = os
  OBVIOUS
<1>2. Erase(entry, user) = [[entry EXCEPT !.Clients = cs2] EXCEPT !.Operators = os2]
  BY <1>1 DEF Erase
<1> HIDE DEF cs2, os2
<1>3. Erase(entry, user) =
        [Name |-> name, Clients |-> cs2, Operators |-> os2, Banned |-> bans]
  BY <1>2
<1>4. /\ cs2 = SetToBag(members \ {user})
      /\ os2 = SetToBag(operators \ {user})
  BY BagDifference DEF cs2, os2
<1> QED
  BY <1>3, <1>4 DEF EntryOf

LEMMA GoneHandled ==
  ASSUME NEW v \in View, NEW p, NEW user \in HostInfo, p.who = {user}
  PROVE  LET w == OnUserGone(v, p) IN
         /\ SameUser(v, w)
         /\ \A other : other # p.channel => Keeps(v, w, other)
         /\ \A entry : Has(v, p.channel, entry) =>
              Has(w, p.channel, Erase(entry, user))
<1> DEFINE gone == [j \in DOMAIN v.Channels |->
                     [v.Channels EXCEPT ![j] = Erase(@, Subject(p))]]
           w == WithEntry(v, p.channel, gone)
<1>1. Subject(p) = user
  BY SubjectIs
<1>2. v.Channels \in Seq(Entry) /\ DOMAIN v.Channels = 1..Len(v.Channels)
  BY DEF View
<1>3. ASSUME NEW j \in 1..Len(v.Channels)
      PROVE  /\ gone[j] \in Seq(Entry) /\ Len(gone[j]) = Len(v.Channels)
             /\ gone[j][j] = Erase(v.Channels[j], user)
             /\ gone[j][j].Name = v.Channels[j].Name
             /\ \A k \in 1..Len(v.Channels) : k # j => gone[j][k] = v.Channels[k]
  <2> DEFINE new == Erase(v.Channels[j], user)
  <2>1. new \in Entry /\ new.Name = v.Channels[j].Name
    BY <1>2, ErasedEntry
  <2>2. gone[j] = [v.Channels EXCEPT ![j] = new]
    BY <1>1, <1>2
  <2> HIDE DEF gone, new
  <2>3. gone[j] \in Seq(Entry) /\ Len(gone[j]) = Len(v.Channels)
    BY <1>2, <2>1, <2>2
  <2>4. gone[j][j] = new /\ \A k \in 1..Len(v.Channels) :
                              k # j => gone[j][k] = v.Channels[k]
    BY <1>2, <2>2
  <2> QED
    BY <2>1, <2>3, <2>4 DEF new
<1>4. w = OnUserGone(v, p)
  BY DEF OnUserGone
<1> HIDE DEF gone
<1>5. /\ SameUser(v, w)
      /\ \A other : other # p.channel => Keeps(v, w, other)
      /\ \A j : Entries(v, p.channel) = {j} => Has(w, p.channel, gone[j][j])
  BY <1>3, EntryChanged
<1> HIDE DEF w
<1>6. ASSUME NEW entry, Has(v, p.channel, entry)
      PROVE  Has(w, p.channel, Erase(entry, user))
  <2>1. PICK j : Entries(v, p.channel) = {j} /\ v.Channels[j] = entry
    BY <1>6 DEF Has
  <2>2. j \in 1..Len(v.Channels)
    BY <2>1, EntriesIn
  <2> QED
    BY <1>3, <1>5, <2>1, <2>2
<1> QED
  BY <1>4, <1>5, <1>6

\* The entry with one more client.
WithUser(entry, user) == [entry EXCEPT !.Clients = @ (+) SetToBag({user})]

LEMMA WithUserEntry ==
  ASSUME NEW entry \in Entry, NEW user \in HostInfo
  PROVE  WithUser(entry, user) \in Entry /\ WithUser(entry, user).Name = entry.Name
<1> DEFINE cs == entry.Clients (+) SetToBag({user})
<1>1. cs \in IdentityBag
  BY BagSumType, SetToBagType DEF Entry
<1>2. WithUser(entry, user) = [entry EXCEPT !.Clients = cs]
  BY DEF WithUser
<1> HIDE DEF cs
<1> QED
  BY <1>1, <1>2 DEF Entry

LEMMA BanningEntry ==
  ASSUME NEW entry \in Entry, NEW user \in HostInfo
  PROVE  EraseBanned(entry, user) \in Entry /\ EraseBanned(entry, user).Name = entry.Name
<1> DEFINE erased == Erase(entry, user)
<1>1. erased \in Entry /\ erased.Name = entry.Name
  BY ErasedEntry
<1>2. EraseBanned(entry, user) = [erased EXCEPT !.Banned = @ \cup {user}]
  BY DEF EraseBanned
<1> HIDE DEF erased
<1> QED
  BY <1>1, <1>2 DEF Entry

LEMMA WithUserEntryOf ==
  ASSUME NEW name, NEW members, NEW operators, NEW bans, NEW user,
         user \notin members
  PROVE  WithUser(EntryOf(name, members, operators, bans), user) =
           EntryOf(name, members \cup {user}, operators, bans)
<1> DEFINE cs == SetToBag(members)
           cs2 == cs (+) SetToBag({user})
           entry == EntryOf(name, members, operators, bans)
<1>1. cs2 = SetToBag(members \cup {user})
  BY BagSum
<1>2. entry = [Name |-> name, Clients |-> cs, Operators |-> SetToBag(operators),
               Banned |-> bans]
  BY DEF EntryOf
<1>3. WithUser(entry, user) = [entry EXCEPT !.Clients = entry.Clients (+) SetToBag({user})]
  BY DEF WithUser
<1> HIDE DEF cs, entry
<1>4. WithUser(entry, user) = [entry EXCEPT !.Clients = cs2]
  BY <1>2, <1>3
<1> HIDE DEF cs2
<1>5. WithUser(entry, user) =
        [Name |-> name, Clients |-> cs2, Operators |-> SetToBag(operators),
         Banned |-> bans]
  BY <1>2, <1>4
<1> QED
  BY <1>1, <1>5 DEF entry, EntryOf

LEMMA BanningEntryOf ==
  ASSUME NEW name, NEW members, NEW operators, NEW bans, NEW user
  PROVE  EraseBanned(EntryOf(name, members, operators, bans), user) =
           EntryOf(name, members \ {user}, operators \ {user}, bans \cup {user})
<1> DEFINE erased == Erase(EntryOf(name, members, operators, bans), user)
           cs == SetToBag(members \ {user})
           os == SetToBag(operators \ {user})
<1>1. erased = [Name |-> name, Clients |-> cs, Operators |-> os, Banned |-> bans]
  BY ErasedEntryOf DEF EntryOf
<1>2. EraseBanned(EntryOf(name, members, operators, bans), user) =
        [erased EXCEPT !.Banned = @ \cup {user}]
  BY DEF EraseBanned
<1> HIDE DEF erased, cs, os
<1>3. [erased EXCEPT !.Banned = @ \cup {user}] =
        [Name |-> name, Clients |-> cs, Operators |-> os,
         Banned |-> bans \cup {user}]
  BY <1>1
<1> QED
  BY <1>2, <1>3 DEF EntryOf, cs, os

LEMMA JoinedHandled ==
  ASSUME NEW v \in View, NEW p, NEW user \in HostInfo, p.who = {user}
  PROVE  LET w == OnUserJoined(v, p) IN
         /\ SameUser(v, w)
         /\ \A other : other # p.channel => Keeps(v, w, other)
         /\ \A entry : Has(v, p.channel, entry) =>
              Has(w, p.channel, WithUser(entry, user))
<1> DEFINE added == [j \in DOMAIN v.Channels |->
                     [v.Channels EXCEPT ![j].Clients = @ (+) SetToBag({Subject(p)})]]
           w == WithEntry(v, p.channel, added)
<1>1. Subject(p) = user
  BY SubjectIs
<1>2. v.Channels \in Seq(Entry) /\ DOMAIN v.Channels = 1..Len(v.Channels)
  BY DEF View
<1>3. ASSUME NEW j \in 1..Len(v.Channels)
      PROVE  /\ added[j] \in Seq(Entry) /\ Len(added[j]) = Len(v.Channels)
             /\ added[j][j] = WithUser(v.Channels[j], user)
             /\ added[j][j].Name = v.Channels[j].Name
             /\ \A k \in 1..Len(v.Channels) : k # j => added[j][k] = v.Channels[k]
  <2> DEFINE new == WithUser(v.Channels[j], user)
  <2>1. new \in Entry /\ new.Name = v.Channels[j].Name
    BY <1>2, WithUserEntry
  <2>2. added[j] = [v.Channels EXCEPT ![j] = new]
    BY <1>1, <1>2 DEF WithUser
  <2> HIDE DEF added, new
  <2>3. added[j] \in Seq(Entry) /\ Len(added[j]) = Len(v.Channels)
    BY <1>2, <2>1, <2>2
  <2>4. added[j][j] = new /\ \A k \in 1..Len(v.Channels) :
                              k # j => added[j][k] = v.Channels[k]
    BY <1>2, <2>2
  <2> QED
    BY <2>1, <2>3, <2>4 DEF new
<1>4. w = OnUserJoined(v, p)
  BY DEF OnUserJoined
<1> HIDE DEF added
<1>5. /\ SameUser(v, w)
      /\ \A other : other # p.channel => Keeps(v, w, other)
      /\ \A j : Entries(v, p.channel) = {j} => Has(w, p.channel, added[j][j])
  BY <1>3, EntryChanged
<1> HIDE DEF w
<1>6. ASSUME NEW entry, Has(v, p.channel, entry)
      PROVE  Has(w, p.channel, WithUser(entry, user))
  <2>1. PICK j : Entries(v, p.channel) = {j} /\ v.Channels[j] = entry
    BY <1>6 DEF Has
  <2>2. j \in 1..Len(v.Channels)
    BY <2>1, EntriesIn
  <2> QED
    BY <1>3, <1>5, <2>1, <2>2
<1> QED
  BY <1>4, <1>5, <1>6

LEMMA BannedHandled ==
  ASSUME NEW v \in View, NEW p, NEW user \in HostInfo, p.who = {user}
  PROVE  LET w == OnUserBanned(v, p) IN
         /\ SameUser(v, w)
         /\ \A other : other # p.channel => Keeps(v, w, other)
         /\ \A entry : Has(v, p.channel, entry) =>
              Has(w, p.channel, EraseBanned(entry, user))
<1> DEFINE banned == [j \in DOMAIN v.Channels |->
                     [v.Channels EXCEPT ![j] = EraseBanned(@, Subject(p))]]
           w == WithEntry(v, p.channel, banned)
<1>1. Subject(p) = user
  BY SubjectIs
<1>2. v.Channels \in Seq(Entry) /\ DOMAIN v.Channels = 1..Len(v.Channels)
  BY DEF View
<1>3. ASSUME NEW j \in 1..Len(v.Channels)
      PROVE  /\ banned[j] \in Seq(Entry) /\ Len(banned[j]) = Len(v.Channels)
             /\ banned[j][j] = EraseBanned(v.Channels[j], user)
             /\ banned[j][j].Name = v.Channels[j].Name
             /\ \A k \in 1..Len(v.Channels) : k # j => banned[j][k] = v.Channels[k]
  <2> DEFINE new == EraseBanned(v.Channels[j], user)
  <2>1. new \in Entry /\ new.Name = v.Channels[j].Name
    BY <1>2, BanningEntry
  <2>2. banned[j] = [v.Channels EXCEPT ![j] = new]
    BY <1>1, <1>2
  <2> HIDE DEF banned, new
  <2>3. banned[j] \in Seq(Entry) /\ Len(banned[j]) = Len(v.Channels)
    BY <1>2, <2>1, <2>2
  <2>4. banned[j][j] = new /\ \A k \in 1..Len(v.Channels) :
                              k # j => banned[j][k] = v.Channels[k]
    BY <1>2, <2>2
  <2> QED
    BY <2>1, <2>3, <2>4 DEF new
<1>4. w = OnUserBanned(v, p)
  BY DEF OnUserBanned
<1> HIDE DEF banned
<1>5. /\ SameUser(v, w)
      /\ \A other : other # p.channel => Keeps(v, w, other)
      /\ \A j : Entries(v, p.channel) = {j} => Has(w, p.channel, banned[j][j])
  BY <1>3, EntryChanged
<1> HIDE DEF w
<1>6. ASSUME NEW entry, Has(v, p.channel, entry)
      PROVE  Has(w, p.channel, EraseBanned(entry, user))
  <2>1. PICK j : Entries(v, p.channel) = {j} /\ v.Channels[j] = entry
    BY <1>6 DEF Has
  <2>2. j \in 1..Len(v.Channels)
    BY <2>1, EntriesIn
  <2> QED
    BY <1>3, <1>5, <2>1, <2>2
<1> QED
  BY <1>4, <1>5, <1>6

LEMMA LeaveHandled ==
  ASSUME NEW v \in View, NEW p
  PROVE  LET w == OnLeaveComplete(v, p) IN
         /\ SameUser(v, w)
         /\ \A other : other # p.channel => Keeps(v, w, other)
         /\ p.result # "Ok" => w = v
         /\ \A entry : p.result = "Ok" /\ Has(v, p.channel, entry) =>
              Lacks(w, p.channel)
<1> DEFINE removed == [j \in DOMAIN v.Channels |-> RemoveAt(v.Channels, j)]
           w == OnLeaveComplete(v, p)
<1>1. CASE p.result # "Ok"
  BY <1>1, SameView DEF OnLeaveComplete
<1>2. CASE p.result = "Ok"
  <2>1. w = WithEntry(v, p.channel, removed)
    BY <1>2 DEF OnLeaveComplete
  <2>2. ASSUME NEW j \in Entries(v, p.channel)
        PROVE  LET x == WithChannels(v, removed[j]) IN
               /\ SameUser(v, x)
               /\ \A other : other # p.channel => Keeps(v, x, other)
               /\ Entries(v, p.channel) = {j} => Lacks(x, p.channel)
    <3>1. j \in 1..Len(v.Channels) /\ v.Channels[j].Name = p.channel
      BY EntriesIn
    <3>2. v.Channels \in Seq(Entry)
      BY DEF View
    <3>3. removed[j] = RemoveAt(v.Channels, j)
      BY <3>1, <3>2
    <3> HIDE DEF removed
    <3> QED
      BY <3>1, <3>3, Erased
  <2> HIDE DEF w, removed
  <2>3. CASE w = v /\ \A j : Entries(v, p.channel) # {j}
    BY <1>2, <2>3, SameView DEF w, Has
  <2>4. CASE \E j \in Entries(v, p.channel) : w = WithChannels(v, removed[j])
    <3>1. PICK j \in Entries(v, p.channel) : w = WithChannels(v, removed[j])
      BY <2>4
    <3> QED
      BY <1>2, <2>2, <3>1 DEF w, Has
  <2> QED
    BY <2>1, <2>3, <2>4, WithEntryIs
<1> QED
  BY <1>1, <1>2

LEMMA JoinHandled ==
  ASSUME NEW v \in View, NEW p \in Packet, p.channel \in ChannelName
  PROVE  LET w == OnJoinComplete(v, p) IN
         /\ SameUser(v, w)
         /\ \A other : other # p.channel => Keeps(v, w, other)
         /\ p.result \notin {"Ok", "ChannelCreated"} => w = v
         /\ p.result = "ChannelCreated" /\ Lacks(v, p.channel) =>
              Has(w, p.channel, EntryOf(p.channel, {v.User}, {v.User}, {}))
         /\ /\ p.result = "Ok" /\ Lacks(v, p.channel)
            /\ v.User \notin p.who
            => Has(w, p.channel,
                   EntryOf(p.channel, {v.User} \cup p.who, p.ops, p.bans))
<1> DEFINE w == OnJoinComplete(v, p)
           self == SetToBag({v.User})
           created == p.result = "ChannelCreated"
           cs == IF created THEN self ELSE self (+) SetToBag(p.who)
           os == IF created THEN self ELSE SetToBag(p.ops)
           bans == IF created THEN {} ELSE p.bans
           entry == [Name |-> p.channel, Clients |-> cs, Operators |-> os,
                     Banned |-> bans]
<1>1. CASE p.result \notin {"Ok", "ChannelCreated"}
  BY <1>1, SameView DEF OnJoinComplete
<1>2. CASE p.result \in {"Ok", "ChannelCreated"}
  <2>1. w = WithChannels(v, Append(v.Channels, entry))
    BY <1>2 DEF OnJoinComplete, WithChannels
  <2>2. /\ p.who \in SUBSET HostInfo /\ p.ops \in SUBSET HostInfo
        /\ p.bans \in SUBSET HostInfo /\ v.User \in HostInfo \cup {NoName}
    BY DEF Packet, View
  <2>3. self \in IdentityBag /\ SetToBag(p.who) \in IdentityBag
          /\ SetToBag(p.ops) \in IdentityBag
    BY <2>2, SetToBagType
  <2>4. cs \in IdentityBag /\ os \in IdentityBag /\ bans \in SUBSET HostInfo
    <3> HIDE DEF self
    <3> QED
      BY <2>2, <2>3, BagSumType
  <2>5. created => cs = SetToBag({v.User}) /\ os = SetToBag({v.User}) /\ bans = {}
    OBVIOUS
  <2>6. ~created => os = SetToBag(p.ops) /\ bans = p.bans
    OBVIOUS
  <2>7. ~created /\ v.User \notin p.who => cs = SetToBag({v.User} \cup p.who)
    BY BagSum
  <2> HIDE DEF cs, os, bans, w
  <2>8. entry \in Entry /\ entry.Name = p.channel
    BY <2>4 DEF Entry
  <2>9. created => entry = EntryOf(p.channel, {v.User}, {v.User}, {})
    BY <2>5 DEF EntryOf
  <2>10. ~created /\ v.User \notin p.who =>
           entry = EntryOf(p.channel, {v.User} \cup p.who, p.ops, p.bans)
    BY <2>6, <2>7 DEF EntryOf
  <2> HIDE DEF entry
  <2>11. /\ SameUser(v, w)
         /\ \A other : other # p.channel => Keeps(v, w, other)
         /\ Lacks(v, p.channel) => Has(w, p.channel, entry)
    BY <2>1, <2>8, Appended
  <2> QED
    BY <1>2, <2>9, <2>10, <2>11 DEF w
<1> QED
  BY <1>1, <1>2

LEMMA IdentifyHandled ==
  ASSUME NEW v \in View, NEW p, NEW user \in HostInfo,
         p.result = "Ok" => p.who = {user}
  PROVE  LET w == OnIdentifyComplete(v, p) IN
         /\ w \in View /\ w.Online = v.Online /\ w.Channels = v.Channels
         /\ \A name : Keeps(v, w, name)
         /\ p.result # "Ok" => w = v
         /\ p.result = "Ok" => w.Identified /\ w.User = user
<1> DEFINE w == OnIdentifyComplete(v, p)
<1>1. CASE p.result # "Ok"
  BY <1>1, SameView DEF OnIdentifyComplete
<1>2. CASE p.result = "Ok"
  <2>1. w = [[v EXCEPT !.User = user] EXCEPT !.Identified = TRUE]
    BY <1>2, SubjectIs DEF OnIdentifyComplete
  <2> HIDE DEF w
  <2>2. /\ w \in View /\ w.Online = v.Online /\ w.Channels = v.Channels
        /\ w.Identified /\ w.User = user
    BY <2>1 DEF View
  <2>3. \A name : Keeps(v, w, name)
    BY <2>2 DEF Keeps, Lacks, Has, Entries
  <2> QED
    BY <1>2, <2>2, <2>3 DEF w
<1> QED
  BY <1>1, <1>2

\* Which handler a packet comes to.
LEMMA ReceivedIs ==
  ASSUME NEW v, NEW p \in GoodPacket
  PROVE  /\ p.type = "Identify_Complete" => Received(v, p) = OnIdentifyComplete(v, p)
         /\ p.type = "JoinChannel_Complete" => Received(v, p) = OnJoinComplete(v, p)
         /\ p.type = "LeaveChannel_Complete" => Received(v, p) = OnLeaveComplete(v, p)
         /\ p.type = "JoinChannel" => Received(v, p) = OnUserJoined(v, p)
         /\ p.type \in {"LeaveChannel", "KickUser"} => Received(v, p) = OnUserGone(v, p)
         /\ p.type = "KickUser_Complete" => 
              Received(v, p) = IF p.result = "Ok" THEN OnUserGone(v, p) ELSE v
         /\ p.type = "BanUser" => Received(v, p) = OnUserBanned(v, p)
         /\ p.type = "BanUser_Complete" =>
              Received(v, p) = IF p.result = "Ok" THEN OnUserBanned(v, p) ELSE v
         /\ p.type \in {"Hello_Complete", "SendMessage", "SendMessage_Complete"} =>
              Received(v, p) = v
<1>1. Handles(p)
  BY DEF GoodPacket
<1>2. ASSUME NEW x, x = p.type PROVE x \in PacketType
  BY <1>2 DEF GoodPacket, Packet
<1> QED
  BY <1>1 DEF Received

\* A packet tells of one channel at most, and only Identify_Complete of the
\* user of the view.
LEMMA ReceivedKeeps ==
  ASSUME NEW v \in View, NEW p \in GoodPacket, NEW w, w = Received(v, p)
  PROVE  /\ w \in View /\ w.Online = v.Online
         /\ p.type # "Identify_Complete" => SameUser(v, w)
         /\ \A other : other # p.channel \/ p.type = "Identify_Complete" =>
              Keeps(v, w, other)
<1>1. /\ p \in Packet /\ Handles(p) /\ p.type \in PacketType
      /\ p.component = "Channel" => p.channel \in ChannelName
      /\ Names(p) => \E user \in HostInfo : p.who = {user}
  BY DEF GoodPacket, Packet
<1>2. CASE p.type = "Identify_Complete"
  <2>1. PICK user : p.result = "Ok" => user \in HostInfo /\ p.who = {user}
    BY <1>1, <1>2 DEF Names
  <2>2. CASE p.result = "Ok"
    BY <1>2, <2>1, <2>2, IdentifyHandled, ReceivedIs
  <2>3. CASE p.result # "Ok"
    BY <1>2, <2>3, SameView, ReceivedIs DEF OnIdentifyComplete
  <2> QED
    BY <2>2, <2>3
<1>3. CASE p.type = "JoinChannel_Complete"
  <2>1. p.channel \in ChannelName
    BY <1>1, <1>3 DEF Handles, Notice
  <2>2. w = OnJoinComplete(v, p)
    BY <1>3, ReceivedIs
  <2> QED
    BY <1>1, <1>3, <2>1, <2>2, JoinHandled DEF SameUser
<1>4. CASE p.type = "LeaveChannel_Complete"
  <2>1. w = OnLeaveComplete(v, p)
    BY <1>4, ReceivedIs
  <2>2. SameUser(v, w) /\ \A other : other # p.channel => Keeps(v, w, other)
    BY <2>1, LeaveHandled
  <2> QED
    BY <1>4, <2>2 DEF SameUser
<1>5. CASE p.type = "JoinChannel"
  BY <1>1, <1>5, JoinedHandled, ReceivedIs DEF SameUser, Names
<1>6. CASE p.type \in {"LeaveChannel", "KickUser"}
  BY <1>1, <1>6, GoneHandled, ReceivedIs DEF SameUser, Names
<1>7. CASE p.type = "BanUser"
  BY <1>1, <1>7, BannedHandled, ReceivedIs DEF SameUser, Names
<1>8. CASE p.type = "KickUser_Complete"
  <2>1. CASE p.result = "Ok"
    BY <1>1, <1>8, <2>1, GoneHandled, ReceivedIs DEF SameUser, Names
  <2>2. CASE p.result # "Ok"
    BY <1>8, <2>2, SameView, ReceivedIs
  <2> QED
    BY <2>1, <2>2
<1>9. CASE p.type = "BanUser_Complete"
  <2>1. CASE p.result = "Ok"
    BY <1>1, <1>9, <2>1, BannedHandled, ReceivedIs DEF SameUser, Names
  <2>2. CASE p.result # "Ok"
    BY <1>9, <2>2, SameView, ReceivedIs
  <2> QED
    BY <2>1, <2>2
<1>10. CASE p.type \in {"Hello_Complete", "SendMessage", "SendMessage_Complete"}
  <2>1. w = v
    BY <1>10, ReceivedIs
  <2> QED
    BY <2>1, SameView
<1> QED
  BY <1>1, <1>2, <1>3, <1>4, <1>5, <1>6, <1>7, <1>8, <1>9, <1>10
  DEF PacketType
-----------------------------------------------------------------------------
(***************************************************************************)
(* What is under way to a client.                                          *)
(***************************************************************************)
\* Packets that are handled in a row keep the view and the connection.
LEMMA TraceView ==
  ASSUME NEW v \in View, NEW s \in Seq(GoodPacket), NEW f, Handling!Trace(f, v, s)
  PROVE  \A k \in 0..Len(s) : f[k] \in View /\ f[k].Online = v.Online
<1> DEFINE S == {k \in Nat : k <= Len(s) => f[k] \in View /\ f[k].Online = v.Online}
<1>1. 0 \in S
  BY DEF Handling!Trace
<1>2. ASSUME NEW k \in Nat, k \in S PROVE k + 1 \in S
  <2> SUFFICES ASSUME k + 1 <= Len(s)
               PROVE  f[k + 1] \in View /\ f[k + 1].Online = v.Online
    OBVIOUS
  <2>1. k + 1 \in 1..Len(s) /\ (k + 1) - 1 = k /\ k <= Len(s)
    OBVIOUS
  <2>2. f[k] \in View /\ f[k].Online = v.Online
    BY <1>2, <2>1
  <2>3. f[k + 1] = Received(f[k], s[k + 1]) /\ s[k + 1] \in GoodPacket
    BY <2>1 DEF Handling!Trace
  <2> QED
    BY <2>2, <2>3, ReceivedKeeps
<1> HIDE DEF S
<1>3. Nat \subseteq S
  BY <1>1, <1>2, Handling!SetInduction
<1> QED
  BY <1>3 DEF S

LEMMA FoldView ==
  ASSUME NEW v \in View, NEW s \in Seq(GoodPacket)
  PROVE  /\ FoldLeft(Received, v, s) \in View
         /\ FoldLeft(Received, v, s).Online = v.Online
<1>1. PICK f : Handling!Trace(f, v, s) /\ FoldLeft(Received, v, s) = f[Len(s)]
  BY HandlingFolds, Handling!FoldTrace
<1>2. Len(s) \in 0..Len(s)
  OBVIOUS
<1> QED
  BY <1>1, <1>2, TraceView

LEMMA FoldConcat ==
  ASSUME NEW v, NEW X, NEW s \in Seq(X), NEW t \in Seq(X)
  PROVE  FoldLeft(Received, v, s \o t) =
           FoldLeft(Received, FoldLeft(Received, v, s), t)
<1>1. PICK f : Handling!Trace(f, v, s) /\ FoldLeft(Received, v, s) = f[Len(s)]
  BY HandlingFolds, Handling!FoldTrace
<1> DEFINE x == f[Len(s)]
<1>2. PICK g : Handling!Trace(g, x, t) /\ FoldLeft(Received, x, t) = g[Len(t)]
  BY HandlingFolds, Handling!FoldTrace
<1> DEFINE m == Len(s)
           n == Len(t)
           u == s \o t
           h == [k \in 0..(m + n) |-> IF k <= m THEN f[k] ELSE g[k - m]]
<1>3. /\ m \in Nat /\ n \in Nat
      /\ u \in Seq(X) /\ Len(u) = m + n
      /\ \A k \in 1..(m + n) : u[k] = IF k <= m THEN s[k] ELSE t[k - m]
  BY ConcatProperties
<1> HIDE DEF u
<1>4. h[0] = v
  BY <1>1, <1>3 DEF Handling!Trace
<1>5. ASSUME NEW k \in 1..Len(u) PROVE h[k] = Received(h[k - 1], u[k])
  <2>1. k \in 0..(m + n) /\ k - 1 \in 0..(m + n)
    BY <1>3
  <2>2. CASE k <= m
    <3>1. k \in 1..m /\ k - 1 <= m
      BY <1>3, <2>2
    <3>2. f[k] = Received(f[k - 1], s[k])
      BY <1>1, <3>1 DEF Handling!Trace
    <3> QED
      BY <1>3, <2>1, <2>2, <3>1, <3>2
  <2>3. CASE ~(k <= m)
    <3>1. k - m \in 1..n /\ (k - 1) - m = (k - m) - 1
      BY <1>3, <2>3
    <3>2. g[k - m] = Received(g[(k - m) - 1], t[k - m])
      BY <1>2, <3>1 DEF Handling!Trace
    <3>3. h[k - 1] = g[(k - m) - 1]
      <4>1. CASE k - 1 <= m
        <5>1. k - 1 = m /\ (k - m) - 1 = 0
          BY <1>3, <2>3, <4>1
        <5>2. g[0] = f[m]
          BY <1>2 DEF Handling!Trace
        <5> QED
          BY <2>1, <4>1, <5>1, <5>2
      <4>2. CASE ~(k - 1 <= m)
        BY <2>1, <3>1, <4>2
      <4> QED
        BY <4>1, <4>2
    <3> QED
      BY <1>3, <2>1, <2>3, <3>2, <3>3
  <2> QED
    BY <2>2, <2>3
<1>6. h[Len(u)] = g[n]
  <2>1. CASE n = 0
    BY <1>2, <1>3, <2>1 DEF Handling!Trace
  <2>2. CASE n # 0
    <3>1. ~(m + n <= m) /\ (m + n) - m = n /\ m + n \in 0..(m + n)
      BY <1>3, <2>2
    <3> QED
      BY <1>3, <3>1
  <2> QED
    BY <2>1, <2>2
<1> HIDE DEF h
<1>7. Handling!Trace(h, v, u)
  BY <1>4, <1>5 DEF Handling!Trace
<1>8. FoldLeft(Received, v, u) = h[Len(u)]
  BY <1>3, <1>7, HandlingFolds, Handling!TraceFold
<1> QED
  BY <1>1, <1>2, <1>6, <1>8 DEF u

\* The order in which the packets of one step are put under way: any, each
\* once.
LEMMA SetToSeqIs ==
  ASSUME NEW S, IsFiniteSet(S), NEW s, s = SetToSeq(S)
  PROVE  /\ s \in Seq(S)
         /\ \A j, k \in 1..Len(s) : s[j] = s[k] => j = k
         /\ \A x \in S : \E k \in 1..Len(s) : s[k] = x
<1> DEFINE n == Cardinality(S)
<1>1. n \in Nat /\ ExistsBijection(1..n, S)
  BY FS_CardinalityType
<1>2. \E f \in [1..n -> S] : IsInjective(f)
  BY <1>1 DEF ExistsBijection, Bijection, Injection
<1>3. s \in [1..n -> S] /\ IsInjective(s)
  BY <1>2 DEF SetToSeq
<1>4. s \in Injection(1..n, S) /\ IsFiniteSet(1..n) /\ Cardinality(1..n) = n
  BY <1>1, <1>3, FS_Interval DEF Injection
<1>5. s \in Surjection(1..n, S)
  BY <1>4, FS_Injection
<1>6. s \in Seq(S) /\ Len(s) = n
  BY <1>1, <1>3
<1> HIDE DEF n
<1>7. \A j, k \in 1..n : s[j] = s[k] => j = k
  BY <1>3 DEF IsInjective
<1>8. \A x \in S : \E k \in 1..n : s[k] = x
  BY <1>5 DEF Surjection
<1> QED
  BY <1>6, <1>7, <1>8

LEMMA SetToSeqEmpty == SetToSeq({}) = <<>>
<1> DEFINE s == SetToSeq({})
<1>1. s \in Seq({})
  BY FS_EmptySet, SetToSeqIs
<1> HIDE DEF s
<1>2. s = <<>>
  BY <1>1
<1> QED
  BY <1>2 DEF s

LEMMA SetToSeqOne ==
  ASSUME NEW p
  PROVE  SetToSeq({p}) = <<p>>
<1> DEFINE s == SetToSeq({p})
<1>1. /\ s \in Seq({p})
      /\ \A j, k \in 1..Len(s) : s[j] = s[k] => j = k
      /\ \A x \in {p} : \E k \in 1..Len(s) : s[k] = x
  BY FS_Singleton, SetToSeqIs
<1> HIDE DEF s
<1>2. \A k \in 1..Len(s) : s[k] = p
  BY <1>1
<1>3. Len(s) = 1
  <2>1. PICK k \in 1..Len(s) : TRUE
    BY <1>1
  <2>2. Len(s) \in Nat /\ 1 \in 1..Len(s) /\ Len(s) \in 1..Len(s)
    BY <1>1, <2>1
  <2>3. s[1] = s[Len(s)]
    BY <1>2, <2>2
  <2> QED
    BY <1>1, <2>2, <2>3
<1>4. s = <<p>>
  BY <1>1, <1>2, <1>3
<1> QED
  BY <1>4 DEF s

\* One user leaves several channels at once: the notices do not disturb each
\* other.
LEMMA DeparturesHandled ==
  ASSUME NEW v \in View, NEW s \in Seq(GoodPacket), NEW user \in HostInfo,
         \A k \in 1..Len(s) : s[k].type = "LeaveChannel" /\ s[k].who = {user},
         \A j, k \in 1..Len(s) : s[j].channel = s[k].channel => j = k,
         NEW w, w = FoldLeft(Received, v, s)
  PROVE  /\ SameUser(v, w)
         /\ \A name : (\A k \in 1..Len(s) : s[k].channel # name) => Keeps(v, w, name)
         /\ \A k \in 1..Len(s) : \A entry : Has(v, s[k].channel, entry) =>
              Has(w, s[k].channel, Erase(entry, user))
<1>1. PICK f : Handling!Trace(f, v, s) /\ FoldLeft(Received, v, s) = f[Len(s)]
  BY HandlingFolds, Handling!FoldTrace
<1> DEFINE After(n) ==
             /\ SameUser(v, f[n])
             /\ \A name : (\A k \in 1..n : s[k].channel # name) =>
                  Keeps(v, f[n], name)
             /\ \A k \in 1..n : \A entry : Has(v, s[k].channel, entry) =>
                  Has(f[n], s[k].channel, Erase(entry, user))
           S == {n \in Nat : n <= Len(s) => After(n)}
<1>2. 0 \in S
  <2>1. f[0] = v
    BY <1>1 DEF Handling!Trace
  <2> QED
    BY <2>1, SameView
<1>3. ASSUME NEW n \in Nat, n \in S PROVE n + 1 \in S
  <2> SUFFICES ASSUME n + 1 <= Len(s) PROVE After(n + 1)
    OBVIOUS
  <2> DEFINE p == s[n + 1]
             x == f[n]
             y == f[n + 1]
  <2>1. n + 1 \in 1..Len(s) /\ (n + 1) - 1 = n /\ n <= Len(s) /\ 1..n \subseteq 1..Len(s)
    OBVIOUS
  <2>2. After(n)
    BY <1>3, <2>1
  <2>3. y = Received(x, p) /\ p \in GoodPacket
    BY <1>1, <2>1 DEF Handling!Trace
  <2>4. p.type = "LeaveChannel" /\ p.who = {user}
    BY <2>1
  <2>5. x \in View
    BY <2>2 DEF SameUser
  <2>6. \A k \in 1..n : s[k].channel # p.channel
    <3> SUFFICES ASSUME NEW k \in 1..n, s[k].channel = p.channel PROVE FALSE
      OBVIOUS
    <3>1. k = n + 1
      BY <2>1
    <3> QED
      BY <3>1
  <2> HIDE DEF p, x, y
  <2>7. y = OnUserGone(x, p)
    BY <2>3, <2>4, ReceivedIs
  <2>8. /\ SameUser(x, y)
        /\ \A other : other # p.channel => Keeps(x, y, other)
        /\ \A entry : Has(x, p.channel, entry) =>
             Has(y, p.channel, Erase(entry, user))
    BY <2>4, <2>5, <2>7, GoneHandled
  <2>9. SameUser(v, y)
    BY <2>2, <2>8 DEF SameUser, x
  <2>10. ASSUME NEW name, \A k \in 1..(n + 1) : s[k].channel # name
         PROVE  Keeps(v, y, name)
    <3>1. Keeps(v, x, name) /\ name # p.channel
      BY <2>2, <2>10 DEF p, x
    <3> QED
      BY <2>8, <3>1 DEF Keeps
  <2>11. ASSUME NEW k \in 1..(n + 1), NEW entry, Has(v, s[k].channel, entry)
         PROVE  Has(y, s[k].channel, Erase(entry, user))
    <3>1. CASE k = n + 1
      <4>1. Keeps(v, x, p.channel)
        BY <2>2, <2>6 DEF x
      <4>2. Has(x, p.channel, entry)
        BY <2>11, <3>1, <4>1 DEF Keeps, p
      <4> QED
        BY <2>8, <3>1, <4>2 DEF p
    <3>2. CASE k # n + 1
      <4>1. k \in 1..n
        BY <3>2
      <4>2. Has(x, s[k].channel, Erase(entry, user)) /\ s[k].channel # p.channel
        BY <2>2, <2>6, <2>11, <4>1 DEF x
      <4> QED
        BY <2>8, <4>2 DEF Keeps
    <3> QED
      BY <3>1, <3>2
  <2> QED
    BY <2>9, <2>10, <2>11 DEF y
<1> HIDE DEF S, After
<1>4. Len(s) \in S
  BY <1>2, <1>3, Handling!SetInduction
<1>5. After(Len(s))
  BY <1>4 DEF S
<1> QED
  BY <1>1, <1>5 DEF After
=============================================================================
