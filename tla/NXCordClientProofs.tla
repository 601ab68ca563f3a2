------------------------- MODULE NXCordClientProofs -------------------------
(***************************************************************************)
(* Proofs about the client's server list, for any finite set of servers,   *)
(* any users and channels, and any number of changes and lost connections: *)
(* no server is listed twice, and once every event is handled the list is  *)
(* what Discord holds.  The invariant tells the story of each server: what *)
(* the events still on their way say of it, in their order, and what the   *)
(* next of them will find in the list.  Its next two parts tell in the     *)
(* same way of each channel, whose list may be fetched between its events, *)
(* and of each user's voice state, which a reconnect may have passed over: *)
(* so the cached channels and the voice states agree with Discord too; and *)
(* a last one, told on after servers were left, that nobody is hidden.     *)
(* Beside these, that the lists are well formed.                           *)
(***************************************************************************)
EXTENDS NXCordClient, FiniteSetTheorems, SequenceTheorems, WellFoundedInduction, TLAPS

-----------------------------------------------------------------------------
(* What is on its way to the client. *)

\* What the gateway sends.
Events == [kind : {"READY", "RESUMED"}]
          \cup [kind : {"GUILD_CREATE"}, id : Servers, version : Nat,
                voice : UNION {[present -> VoiceChannels] : present \in SUBSET Users}]
          \cup [kind : {"GUILD_UPDATE"}, id : Servers, version : Nat]
          \cup [kind : {"GUILD_DELETE"}, id : Servers]
          \cup [kind : {"CHANNEL_CREATE", "CHANNEL_UPDATE", "CHANNEL_DELETE"}, id : Channels, version : Nat]
          \cup [kind : {"VOICE_STATE_UPDATE"}, user : Users, channel : VoiceChannels \cup {None}]
          \cup [kind : {"VOICE_SERVER_UPDATE"}, channel : VoiceChannels]

Types == /\ conn \in {"live", "down"} /\ drops \in Nat
         /\ member \subseteq Servers /\ serverVersion \in [Servers -> Nat]
         /\ channel \in [Channels -> Nat]
         /\ where \in [Users -> VoiceChannels \cup {None}]

\* READY comes first in what a new session sends, and never again.
InboxShape == inbox \in Seq(Events) /\ \A i \in 2..Len(inbox) : inbox[i].kind # "READY"

DistinctIds(list) == \A i, j \in 1..Len(list) : list[i].id = list[j].id => i = j
Elements(list) == {list[i] : i \in 1..Len(list)}
Items == [id : Servers, version : Nat]

ListShape == servers \in Seq(Items) /\ DistinctIds(servers)

\* The client has been connected, so that events are not sent in vain.
Known == conn = "live" \/ drops > 0

\* READY is still to be handled.
Fresh(box) == box # <<>> /\ box[1].kind = "READY"

About(e, s) == e.kind \in {"GUILD_CREATE", "GUILD_UPDATE", "GUILD_DELETE"} /\ e.id = s
Silent(box, s) == \A i \in 1..Len(box) : ~About(box[i], s)
FirstAbout(box, i, s) == About(box[i], s) /\ \A j \in 1..(i - 1) : ~About(box[j], s)
LastAbout(box, i, s) == About(box[i], s) /\ \A j \in (i + 1)..Len(box) : ~About(box[j], s)

Has(list, s) == \E x \in Elements(list) : x.id = s
InVersion(list, s, v) == \A x \in Elements(list) : x.id = s => x.version = v

\* The last event about s tells what Discord holds now.
LastTold(box, in, v, s) == \A i \in 1..Len(box) : LastAbout(box, i, s) =>
    /\ box[i].kind # "GUILD_DELETE" <=> s \in in
    /\ box[i].kind # "GUILD_DELETE" => box[i].version = v

\* A server without events on their way is listed as it is.
NothingToTell(box, list, in, v, s) == Silent(box, s) =>
    IF Fresh(box) THEN s \notin in
                  ELSE (s \in in <=> Has(list, s)) /\ InVersion(list, s, v)

\* Of two events about s in a row either the first tells that the user left
\* and the second that the user is back, or neither does.
Alternates(box, s) == \A i, j \in 1..Len(box) :
    /\ i < j /\ About(box[i], s) /\ About(box[j], s)
    /\ \A k \in (i + 1)..(j - 1) : ~About(box[k], s)
    => (box[i].kind = "GUILD_DELETE" <=> box[j].kind = "GUILD_CREATE")

\* The next event about s finds it listed, unless it is a GUILD_CREATE.  One
\* that getServers() was ahead of may find it, too: in the version it tells,
\* if no event corrects it.
FirstFinds(box, list, s) == \A i \in 1..Len(box) : FirstAbout(box, i, s) =>
    IF box[i].kind = "GUILD_CREATE"
    THEN ~Fresh(box) /\ LastAbout(box, i, s) => InVersion(list, s, box[i].version)
    ELSE ~Fresh(box) /\ Has(list, s)

\* What the events on their way (box) and the list say of a server s, of data
\* version v, when the user is in the servers `in`.
Story(box, list, in, v, s) == /\ LastTold(box, in, v, s) /\ NothingToTell(box, list, in, v, s)
                              /\ Alternates(box, s) /\ FirstFinds(box, list, s)

IInv == /\ Types /\ InboxShape /\ ListShape
        /\ Known => \A s \in Servers : Story(inbox, servers, member, serverVersion[s], s)
-----------------------------------------------------------------------------
(* Lists. *)

\* A set of numbers has a least element.
LEMMA Least ==
  ASSUME NEW T \in SUBSET Nat, T # {}
  PROVE  \E x \in T : \A y \in T : x <= y
  <1>1. PICK x \in T : \A y \in T : ~(<<y, x>> \in OpToRel(<, Nat))
    BY NatLessThanWellFounded, WFMin
  <1>2. \A y \in T : ~(y < x)
    BY <1>1 DEF OpToRel
  <1>3. QED
    BY <1>2

\* Hence induction: a set with 0 and every successor holds every number.
LEMMA Induction ==
  ASSUME NEW S, 0 \in S, \A n \in Nat : n \in S => n + 1 \in S
  PROVE  Nat \subseteq S
  <1>1. SUFFICES ASSUME Nat \ S # {} PROVE FALSE
    OBVIOUS
  <1>2. PICK least \in Nat \ S : \A n \in Nat \ S : least <= n
    BY <1>1, Least
  <1>3. least # 0 /\ least - 1 \in Nat
    BY <1>2
  <1>4. least - 1 \in S
    BY <1>2, <1>3
  <1>5. least = (least - 1) + 1
    BY <1>2
  <1>6. QED
    BY <1>2, <1>3, <1>4, <1>5

\* The function in Without's definition: what is kept of the first n entries.
Kept(list, id, m) ==
    CHOOSE f : f = [n \in 0..m |-> IF n = 0 THEN <<>>
                       ELSE IF list[n].id = id THEN f[n - 1] ELSE Append(f[n - 1], list[n])]

\* That function is the recursive one it is defined to be.
LEMMA Unfolding ==
  ASSUME NEW list, NEW id, NEW m \in Nat
  PROVE  \A n \in 0..m : Kept(list, id, m)[n] =
             IF n = 0 THEN <<>>
             ELSE IF list[n].id = id THEN Kept(list, id, m)[n - 1]
                                     ELSE Append(Kept(list, id, m)[n - 1], list[n])
  <1> DEFINE Next1(v, n) == IF list[n].id = id THEN v ELSE Append(v, list[n])
             Made(k) == \E f : f = [n \in 0..k |-> IF n = 0 THEN <<>> ELSE Next1(f[n - 1], n)]
             S == {k \in Nat : Made(k)}
  <1>1. 0 \in S
    <2>1. [n \in 0..0 |-> <<>>] = [n \in 0..0 |-> IF n = 0 THEN <<>> ELSE Next1([k \in 0..0 |-> <<>>][n - 1], n)]
      OBVIOUS
    <2>2. Made(0)
      BY <2>1
    <2>3. QED
      BY <2>2
  <1>2. ASSUME NEW k \in Nat, k \in S PROVE k + 1 \in S
    <2>1. PICK f : f = [n \in 0..k |-> IF n = 0 THEN <<>> ELSE Next1(f[n - 1], n)]
      BY <1>2
    <2> DEFINE g == [n \in 0..(k + 1) |-> IF n <= k THEN f[n] ELSE Next1(f[k], n)]
    <2> HIDE DEF Next1
    <2>2. ASSUME NEW n \in 0..(k + 1)
          PROVE  g[n] = IF n = 0 THEN <<>> ELSE Next1(g[n - 1], n)
      <3>1. CASE n <= k
        <4>1. g[n] = f[n] /\ f[n] = IF n = 0 THEN <<>> ELSE Next1(f[n - 1], n)
          BY <2>1, <3>1
        <4>2. n # 0 => n - 1 \in 0..(k + 1) /\ n - 1 <= k /\ g[n - 1] = f[n - 1]
          BY <3>1
        <4>3. QED
          BY <4>1, <4>2
      <3>2. CASE n = k + 1
        BY <3>2
      <3>3. QED
        BY <3>1, <3>2
    <2>3. g = [n \in 0..(k + 1) |-> IF n = 0 THEN <<>> ELSE Next1(g[n - 1], n)]
      <3>1. g = [n \in 0..(k + 1) |-> g[n]]
        OBVIOUS
      <3>2. HIDE DEF g
      <3>3. QED
        BY <2>2, <3>1
    <2> HIDE DEF g
    <2>4. Made(k + 1)
      BY <2>3
    <2>5. QED
      BY <2>4
  <1>3. m \in S
    BY <1>1, <1>2, Induction
  <1>4. Kept(list, id, m) = [n \in 0..m |-> IF n = 0 THEN <<>> ELSE Next1(Kept(list, id, m)[n - 1], n)]
    BY <1>3, Zenon DEF Kept
  <1>5. QED
    BY <1>4

\* An entry at the end is one entry more.
LEMMA Appending ==
  ASSUME NEW Item, NEW list \in Seq(Item), NEW e \in Item
  PROVE  /\ Append(list, e) \in Seq(Item)
         /\ Elements(Append(list, e)) = Elements(list) \cup {e}
         /\ DistinctIds(list) /\ (\A x \in Elements(list) : x.id # e.id) => DistinctIds(Append(list, e))
  <1>1. /\ Append(list, e) \in Seq(Item) /\ Len(Append(list, e)) = Len(list) + 1 /\ Len(list) \in Nat
        /\ \A i \in 1..Len(list) : Append(list, e)[i] = list[i]
        /\ Append(list, e)[Len(list) + 1] = e
    BY AppendProperties, LenProperties
  <1>2. \A i \in 1..(Len(list) + 1) : i \in 1..Len(list) \/ i = Len(list) + 1
    BY <1>1
  <1>3. Elements(Append(list, e)) = Elements(list) \cup {e}
    BY <1>1, <1>2 DEF Elements
  <1>4. DistinctIds(list) /\ (\A x \in Elements(list) : x.id # e.id) => DistinctIds(Append(list, e))
    BY <1>1, <1>2 DEF Elements, DistinctIds
  <1>5. QED
    BY <1>1, <1>3, <1>4

\* remove_if() keeps exactly the entries of other ids.
LEMMA Erasing ==
  ASSUME NEW Item, NEW list \in Seq(Item), NEW id
  PROVE  /\ Without(list, id) \in Seq(Item)
         /\ Elements(Without(list, id)) = {x \in Elements(list) : x.id # id}
         /\ DistinctIds(list) => DistinctIds(Without(list, id))
  <1>1. Len(list) \in Nat
    OBVIOUS
  <1> DEFINE f == Kept(list, id, Len(list))
  <1>2. \A n \in 0..Len(list) : f[n] = IF n = 0 THEN <<>>
                           ELSE IF list[n].id = id THEN f[n - 1] ELSE Append(f[n - 1], list[n])
    BY <1>1, Unfolding
  <1>9. Without(list, id) = f[Len(list)]
    BY DEF Without, Kept
  <1> HIDE DEF f
  <1> DEFINE Upto(n) == {list[i] : i \in {k \in 1..n : list[k].id # id}}
             Good(n) == n <= Len(list) => /\ f[n] \in Seq(Item) /\ Elements(f[n]) = Upto(n)
                                          /\ DistinctIds(list) => DistinctIds(f[n])
             S == {n \in Nat : Good(n)}
  <1>3. 0 \in S
    <2>1. f[0] = <<>>
      BY <1>1, <1>2
    <2>2. Elements(f[0]) = {} /\ Upto(0) = {} /\ DistinctIds(f[0])
      BY <2>1 DEF Elements, DistinctIds
    <2>3. Good(0)
      BY <2>1, <2>2
    <2>4. QED
      BY <2>3
  <1>4. ASSUME NEW n \in Nat, n \in S PROVE n + 1 \in S
    <2>1. SUFFICES ASSUME n + 1 <= Len(list)
                   PROVE  /\ f[n + 1] \in Seq(Item) /\ Elements(f[n + 1]) = Upto(n + 1)
                          /\ DistinctIds(list) => DistinctIds(f[n + 1])
      OBVIOUS
    <2>2. /\ f[n] \in Seq(Item) /\ Elements(f[n]) = Upto(n) /\ (DistinctIds(list) => DistinctIds(f[n]))
          /\ list[n + 1] \in Item
      BY <1>1, <1>4, <2>1
    <2>3. f[n + 1] = IF list[n + 1].id = id THEN f[n] ELSE Append(f[n], list[n + 1])
      BY <1>1, <1>2, <2>1
    <2>4. \A k \in 1..(n + 1) : k \in 1..n \/ k = n + 1
      OBVIOUS
    <2>5. CASE list[n + 1].id = id
      <3>1. Upto(n + 1) = Upto(n)
        BY <2>4, <2>5
      <3>2. f[n + 1] = f[n]
        BY <2>3, <2>5
      <3> HIDE DEF Upto
      <3>3. QED
        BY <2>2, <3>1, <3>2
    <2>6. CASE list[n + 1].id # id
      <3>1. Upto(n + 1) = Upto(n) \cup {list[n + 1]}
        BY <2>4, <2>6
      <3>2. DistinctIds(list) => \A x \in Upto(n) : x.id # list[n + 1].id
        BY <1>1, <2>1 DEF DistinctIds
      <3>3. f[n + 1] = Append(f[n], list[n + 1])
        BY <2>3, <2>6
      <3> HIDE DEF Upto
      <3>4. /\ f[n + 1] \in Seq(Item) /\ Elements(f[n + 1]) = Elements(f[n]) \cup {list[n + 1]}
            /\ DistinctIds(f[n]) /\ (\A x \in Elements(f[n]) : x.id # list[n + 1].id) => DistinctIds(f[n + 1])
        BY <2>2, <3>3, Appending
      <3>5. QED
        BY <2>2, <3>1, <3>2, <3>4
    <2>7. QED
      BY <2>5, <2>6
  <1>5. Good(Len(list))
    BY <1>1, <1>3, <1>4, Induction
  <1>6. Upto(Len(list)) = {x \in Elements(list) : x.id # id}
    BY <1>1 DEF Elements
  <1>7. QED
    BY <1>1, <1>9, <1>5, <1>6
-----------------------------------------------------------------------------
(* What an event adds to the story of a server. *)

\* Events that are not about s change nothing.
LEMMA Elsewhere ==
  ASSUME NEW Message, NEW box \in Seq(Message), NEW more \in Seq(Message), NEW list, NEW in, NEW v, NEW s,
         \A i \in 1..Len(more) : ~About(more[i], s) /\ more[i].kind # "READY",
         Story(box, list, in, v, s)
  PROVE  Story(box \o more, list, in, v, s)
  <1> DEFINE b == box \o more
  <1>1. /\ Len(box) \in Nat /\ Len(b) \in Nat /\ Len(b) >= Len(box)
        /\ \A i \in 1..Len(box) : b[i] = box[i]
        /\ \A i \in 1..Len(b) : i > Len(box) => ~About(b[i], s) /\ b[i].kind # "READY"
        /\ b = <<>> <=> Len(b) = 0
        /\ box = <<>> <=> Len(box) = 0
    BY ConcatProperties
  <1> HIDE DEF b
  <1>2. Fresh(b) <=> Fresh(box)
    BY <1>1 DEF Fresh
  <1>3. \A i \in 1..Len(b) : About(b[i], s) => i \in 1..Len(box) /\ b[i] = box[i]
    BY <1>1
  <1>4. \A i \in 1..Len(b) : LastAbout(b, i, s) => i \in 1..Len(box) /\ LastAbout(box, i, s)
    BY <1>1, <1>3 DEF LastAbout
  <1>5. \A i \in 1..Len(b) : FirstAbout(b, i, s) => i \in 1..Len(box) /\ FirstAbout(box, i, s)
    BY <1>1, <1>3 DEF FirstAbout
  <1>6. Silent(b, s) => Silent(box, s)
    BY <1>1 DEF Silent
  <1>7. LastTold(b, in, v, s)
    BY <1>1, <1>4 DEF LastTold, Story
  <1>8. NothingToTell(b, list, in, v, s)
    BY <1>2, <1>6 DEF NothingToTell, Story
  <1>9. Alternates(b, s)
    <2>1. SUFFICES ASSUME NEW i \in 1..Len(b), NEW j \in 1..Len(b), i < j, About(b[i], s), About(b[j], s),
                          \A k \in (i + 1)..(j - 1) : ~About(b[k], s)
                   PROVE  b[i].kind = "GUILD_DELETE" <=> b[j].kind = "GUILD_CREATE"
      BY DEF Alternates
    <2>2. i \in 1..Len(box) /\ j \in 1..Len(box) /\ \A k \in (i + 1)..(j - 1) : ~About(box[k], s)
      BY <1>1, <1>3, <2>1
    <2>3. QED
      BY <1>3, <2>1, <2>2 DEF Alternates, Story
  <1>10. FirstFinds(b, list, s)
    <2>1. \A i \in 1..Len(b) : LastAbout(b, i, s) => LastAbout(box, i, s)
      BY <1>4
    <2>2. QED
      BY <1>2, <1>3, <1>5, <2>1, <1>1 DEF FirstFinds, Story
  <1>11. QED
    BY <1>7, <1>8, <1>9, <1>10 DEF Story, b

\* The servers the client's user is not in may change without an event.
LEMMA Outside ==
  ASSUME NEW box, NEW list, NEW in, NEW v, NEW w, NEW s, s \notin in, Story(box, list, in, v, s)
  PROVE  Story(box, list, in, w, s)
  BY DEF Story, LastTold, NothingToTell, Has, InVersion

\* An event that is sent to tell of the server.
Tells(e, in, s, in1, v1) ==
    /\ About(e, s)
    /\ e.kind = "GUILD_CREATE" <=> s \notin in
    /\ e.kind # "GUILD_DELETE" <=> s \in in1
    /\ e.kind # "GUILD_DELETE" => e.version = v1

\* Such an event continues the story.
LEMMA Telling ==
  ASSUME NEW Message, NEW box \in Seq(Message), NEW e \in Message, NEW list, NEW in, NEW v, NEW s,
         NEW in1, NEW v1, Tells(e, in, s, in1, v1), Story(box, list, in, v, s)
  PROVE  Story(Append(box, e), list, in1, v1, s)
  <1> DEFINE b == Append(box, e)
             n == Len(box) + 1
  <1>1. /\ Len(box) \in Nat /\ Len(b) = n /\ b[n] = e
        /\ \A i \in 1..Len(box) : b[i] = box[i]
        /\ \A i \in 1..Len(b) : i \in 1..Len(box) \/ i = n
        /\ b # <<>>
        /\ box = <<>> <=> Len(box) = 0
    BY AppendProperties
  <1> HIDE DEF b
  <1>2. /\ About(e, s) /\ e.kind # "READY"
        /\ e.kind = "GUILD_CREATE" <=> s \notin in
        /\ e.kind # "GUILD_DELETE" <=> s \in in1
        /\ e.kind # "GUILD_DELETE" => e.version = v1
    BY DEF Tells, About
  <1>3. Fresh(b) <=> Fresh(box)
    BY <1>1, <1>2 DEF Fresh
  <1>4. \A i \in 1..Len(b) : LastAbout(b, i, s) <=> i = n
    BY <1>1, <1>2 DEF LastAbout
  <1>5. \A i \in 1..Len(b) : FirstAbout(b, i, s) =>
            IF i = n THEN Silent(box, s) ELSE i \in 1..Len(box) /\ FirstAbout(box, i, s)
    BY <1>1 DEF FirstAbout, Silent
  <1>6. LastTold(b, in1, v1, s)
    BY <1>1, <1>2, <1>4 DEF LastTold
  <1>7. NothingToTell(b, list, in1, v1, s)
    BY <1>1, <1>2 DEF NothingToTell, Silent
  <1>8. Alternates(b, s)
    <2>1. SUFFICES ASSUME NEW i \in 1..Len(b), NEW j \in 1..Len(b), i < j, About(b[i], s), About(b[j], s),
                          \A k \in (i + 1)..(j - 1) : ~About(b[k], s)
                   PROVE  b[i].kind = "GUILD_DELETE" <=> b[j].kind = "GUILD_CREATE"
      BY DEF Alternates
    <2>2. i \in 1..Len(box) /\ About(box[i], s) /\ \A k \in (i + 1)..(j - 1) : k \in 1..Len(box) /\ ~About(box[k], s)
      BY <1>1, <2>1
    <2>3. CASE j = n
      <3>1. LastAbout(box, i, s)
        BY <1>1, <2>2, <2>3 DEF LastAbout
      <3>2. box[i].kind # "GUILD_DELETE" <=> s \in in
        BY <2>2, <3>1 DEF LastTold, Story
      <3>3. QED
        BY <1>1, <1>2, <2>2, <2>3, <3>2
    <2>4. CASE j # n
      <3>1. j \in 1..Len(box) /\ About(box[j], s)
        BY <1>1, <2>1, <2>4
      <3>2. QED
        BY <1>1, <2>1, <2>2, <3>1 DEF Alternates, Story
    <2>5. QED
      BY <2>3, <2>4
  <1>9. FirstFinds(b, list, s)
    <2>1. SUFFICES ASSUME NEW i \in 1..Len(b), FirstAbout(b, i, s)
                   PROVE  IF b[i].kind = "GUILD_CREATE"
                          THEN ~Fresh(b) /\ LastAbout(b, i, s) => InVersion(list, s, b[i].version)
                          ELSE ~Fresh(b) /\ Has(list, s)
      BY DEF FirstFinds
    <2>2. CASE i = n
      <3>1. NothingToTell(box, list, in, v, s) /\ Silent(box, s)
        BY <1>5, <2>1, <2>2 DEF Story
      <3>2. QED
        BY <1>1, <1>2, <1>3, <2>2, <3>1 DEF NothingToTell, Has, InVersion
    <2>3. CASE i # n
      <3>1. i \in 1..Len(box) /\ FirstAbout(box, i, s) /\ b[i] = box[i] /\ ~LastAbout(b, i, s)
        BY <1>1, <1>4, <1>5, <2>1, <2>3
      <3>2. QED
        BY <1>3, <3>1 DEF FirstFinds, Story
    <2>4. QED
      BY <2>2, <2>3
  <1>10. QED
    BY <1>6, <1>7, <1>8, <1>9 DEF Story, b
-----------------------------------------------------------------------------
(* What handling an event makes of the story. *)

\* What Tail does to the positions.
LEMMA Shorter ==
  ASSUME NEW Message, NEW box \in Seq(Message), box # <<>>, NEW s,
         \A i \in 2..Len(box) : box[i].kind # "READY"
  PROVE  /\ Len(box) \in Nat /\ Len(box) >= 1 /\ Len(Tail(box)) = Len(box) - 1 /\ Head(box) = box[1]
         /\ \A i \in 1..Len(Tail(box)) : i + 1 \in 1..Len(box) /\ Tail(box)[i] = box[i + 1]
         /\ ~Fresh(Tail(box))
         /\ \A i \in 1..Len(Tail(box)) : LastAbout(Tail(box), i, s) <=> LastAbout(box, i + 1, s)
         /\ \A in, v : LastTold(box, in, v, s) => LastTold(Tail(box), in, v, s)
         /\ Alternates(box, s) => Alternates(Tail(box), s)
         /\ Silent(Tail(box), s) <=> \A i \in 2..Len(box) : ~About(box[i], s)
  <1> DEFINE b == Tail(box)
  <1>1. /\ Len(box) \in Nat /\ Len(box) >= 1 /\ Len(b) = Len(box) - 1
        /\ \A i \in 1..Len(b) : i + 1 \in 1..Len(box) /\ b[i] = box[i + 1]
        /\ b = <<>> <=> Len(b) = 0
        /\ Head(box) = box[1]
    <2>1. /\ Len(box) \in Nat /\ Len(box) >= 1 /\ Len(b) = Len(box) - 1 /\ b \in Seq(Message)
          /\ Head(box) = box[1]
      BY HeadTailProperties
    <2>2. \A i \in 1..Len(b) : b[i] = box[i + 1]
      BY HeadTailProperties
    <2> HIDE DEF b
    <2>3. \A i \in 1..Len(b) : i + 1 \in 1..Len(box)
      BY <2>1
    <2>4. b = <<>> <=> Len(b) = 0
      BY <2>1
    <2>5. QED
      BY <2>1, <2>2, <2>3, <2>4
  <1> HIDE DEF b
  <1>2. ~Fresh(b)
    BY <1>1 DEF Fresh
  <1>3. ASSUME NEW i \in 1..Len(b)
        PROVE  LastAbout(b, i, s) <=> LastAbout(box, i + 1, s)
    <2>1. \A j \in (i + 1)..Len(b) : j + 1 \in (i + 2)..Len(box) /\ b[j] = box[j + 1]
      BY <1>1
    <2>2. \A j \in (i + 2)..Len(box) : j - 1 \in (i + 1)..Len(b) /\ b[j - 1] = box[j]
      <3>1. \A j \in (i + 2)..Len(box) : j - 1 \in (i + 1)..Len(b) /\ (j - 1) + 1 = j
        BY <1>1
      <3>2. QED
        BY <1>1, <3>1, <2>1
    <2>3. b[i] = box[i + 1] /\ (i + 1) + 1 = i + 2
      BY <1>1
    <2>4. QED
      BY <2>1, <2>2, <2>3 DEF LastAbout
  <1>4. ASSUME NEW in, NEW v, LastTold(box, in, v, s) PROVE LastTold(b, in, v, s)
    BY <1>1, <1>3, <1>4 DEF LastTold
  <1>5. ASSUME Alternates(box, s) PROVE Alternates(b, s)
    <2>1. SUFFICES ASSUME NEW i \in 1..Len(b), NEW j \in 1..Len(b), i < j, About(b[i], s), About(b[j], s),
                          \A k \in (i + 1)..(j - 1) : ~About(b[k], s)
                   PROVE  b[i].kind = "GUILD_DELETE" <=> b[j].kind = "GUILD_CREATE"
      BY DEF Alternates
    <2>2. \A k \in (i + 2)..j : ~About(box[k], s)
      <3>1. \A k \in (i + 2)..j : k - 1 \in (i + 1)..(j - 1) /\ k - 1 \in 1..Len(b) /\ (k - 1) + 1 = k
        BY <1>1
      <3>2. QED
        BY <1>1, <2>1, <3>1
    <2>3. /\ i + 1 \in 1..Len(box) /\ j + 1 \in 1..Len(box) /\ i + 1 < j + 1
          /\ b[i] = box[i + 1] /\ b[j] = box[j + 1]
          /\ (i + 1) + 1 = i + 2 /\ (j + 1) - 1 = j
      BY <1>1, <2>1
    <2>4. QED
      BY <1>5, <2>1, <2>2, <2>3 DEF Alternates
  <1>6. Silent(b, s) <=> \A i \in 2..Len(box) : ~About(box[i], s)
    <2>1. \A i \in 2..Len(box) : i - 1 \in 1..Len(b) /\ b[i - 1] = box[i]
      <3>1. \A i \in 2..Len(box) : i - 1 \in 1..Len(b) /\ (i - 1) + 1 = i
        BY <1>1
      <3>2. QED
        BY <1>1, <3>1
    <2>2. \A i \in 1..Len(b) : i + 1 \in 2..Len(box)
      BY <1>1
    <2>3. QED
      BY <1>1, <2>1, <2>2 DEF Silent
  <1>7. QED
    BY <1>1, <1>2, <1>3, <1>4, <1>5, <1>6 DEF b

\* An event that is not about s leaves s as it is listed, or is READY, after
\* which s is listed as it is now or not at all.
LEMMA Passing ==
  ASSUME NEW Message, NEW box \in Seq(Message), box # <<>>, \A i \in 2..Len(box) : box[i].kind # "READY",
         NEW list, NEW list1, NEW in, NEW v, NEW s,
         ~About(Head(box), s),
         IF Head(box).kind = "READY"
         THEN \A x \in Elements(list1) : x.id = s => s \in in /\ x.version = v
         ELSE \A x : x.id = s => (x \in Elements(list1) <=> x \in Elements(list)),
         Story(box, list, in, v, s)
  PROVE  Story(Tail(box), list1, in, v, s)
  <1> DEFINE b == Tail(box)
  <1>1. /\ Len(box) \in Nat /\ Len(box) >= 1 /\ Len(b) = Len(box) - 1 /\ Head(box) = box[1]
        /\ \A i \in 1..Len(b) : i + 1 \in 1..Len(box) /\ b[i] = box[i + 1]
        /\ ~Fresh(b) /\ LastTold(b, in, v, s) /\ Alternates(b, s)
        /\ \A i \in 1..Len(b) : LastAbout(b, i, s) <=> LastAbout(box, i + 1, s)
        /\ Silent(b, s) <=> \A i \in 2..Len(box) : ~About(box[i], s)
    BY Shorter DEF Story
  <1> HIDE DEF b
  <1>2. Fresh(box) <=> box[1].kind = "READY"
    BY DEF Fresh
  <1>3. Silent(b, s) => Silent(box, s)
    BY <1>1 DEF Silent
  <1>4. ASSUME NEW i \in 1..Len(b), FirstAbout(b, i, s) PROVE FirstAbout(box, i + 1, s)
    <2>1. ASSUME NEW j \in 1..((i + 1) - 1), j # 1
          PROVE  ~About(box[j], s)
      <3>1. Len(b) \in Nat /\ 1 <= i /\ i <= Len(b)
        BY <1>1
      <3>2. j - 1 \in 1..(i - 1) /\ j - 1 \in 1..Len(b) /\ (j - 1) + 1 = j
        BY <2>1, <3>1
      <3>3. b[j - 1] = box[(j - 1) + 1]
        BY <1>1, <3>2
      <3>4. QED
        BY <1>4, <3>2, <3>3 DEF FirstAbout
    <2>2. QED
      BY <1>1, <1>4, <2>1 DEF FirstAbout
  <1>5. NothingToTell(b, list1, in, v, s)
    <2>1. CASE Head(box).kind = "READY"
      BY <1>1, <1>2, <1>3, <2>1 DEF Story, NothingToTell, Has, InVersion
    <2>2. CASE Head(box).kind # "READY"
      BY <1>1, <1>2, <1>3, <2>2 DEF Story, NothingToTell, Has, InVersion
    <2>3. QED
      BY <2>1, <2>2
  <1>6. FirstFinds(b, list1, s)
    <2>1. SUFFICES ASSUME NEW i \in 1..Len(b), FirstAbout(b, i, s)
                   PROVE  IF b[i].kind = "GUILD_CREATE"
                          THEN LastAbout(b, i, s) => InVersion(list1, s, b[i].version)
                          ELSE Has(list1, s)
      BY <1>1 DEF FirstFinds
    <2>2. /\ i + 1 \in 1..Len(box) /\ FirstAbout(box, i + 1, s) /\ b[i] = box[i + 1]
          /\ LastAbout(b, i, s) <=> LastAbout(box, i + 1, s)
      BY <1>1, <1>4, <2>1
    <2>3. IF b[i].kind = "GUILD_CREATE"
          THEN ~Fresh(box) /\ LastAbout(b, i, s) => InVersion(list, s, b[i].version)
          ELSE ~Fresh(box) /\ Has(list, s)
      BY <2>2 DEF Story, FirstFinds
    <2>4. CASE Head(box).kind = "READY"
      <3>1. LastAbout(b, i, s) => s \in in /\ b[i].version = v
        BY <1>1, <1>2, <2>2, <2>3, <2>4 DEF Story, LastTold
      <3>2. QED
        BY <1>1, <1>2, <2>3, <2>4, <3>1 DEF InVersion
    <2>5. CASE Head(box).kind # "READY"
      BY <1>1, <1>2, <2>3, <2>5 DEF Has, InVersion
    <2>6. QED
      BY <2>4, <2>5
  <1>7. QED
    BY <1>1, <1>5, <1>6 DEF Story, b

\* What the handler of an event about s makes of the list.
Heard(e, list, list1, s) ==
    /\ e.kind = "GUILD_CREATE" =>
           Has(list1, s) /\ (InVersion(list, s, e.version) => InVersion(list1, s, e.version))
    /\ e.kind = "GUILD_UPDATE" => (Has(list, s) => Has(list1, s)) /\ InVersion(list1, s, e.version)
    /\ e.kind = "GUILD_DELETE" => ~Has(list1, s)

\* The event about s is handled as it should be.
LEMMA Hearing ==
  ASSUME NEW Message, NEW box \in Seq(Message), box # <<>>, \A i \in 2..Len(box) : box[i].kind # "READY",
         NEW list, NEW list1, NEW in, NEW v, NEW s,
         About(Head(box), s), Heard(Head(box), list, list1, s),
         Story(box, list, in, v, s)
  PROVE  Story(Tail(box), list1, in, v, s)
  <1> DEFINE b == Tail(box)
             e == Head(box)
  <1>1. /\ Len(box) \in Nat /\ Len(box) >= 1 /\ Len(b) = Len(box) - 1 /\ e = box[1] /\ 1 \in 1..Len(box)
        /\ \A i \in 1..Len(b) : i + 1 \in 1..Len(box) /\ b[i] = box[i + 1]
        /\ ~Fresh(b) /\ LastTold(b, in, v, s) /\ Alternates(b, s)
        /\ \A i \in 1..Len(b) : LastAbout(b, i, s) <=> LastAbout(box, i + 1, s)
        /\ Silent(b, s) <=> \A i \in 2..Len(box) : ~About(box[i], s)
    BY Shorter DEF Story
  <1>2. About(e, s) /\ Heard(e, list, list1, s) /\ e.kind \in {"GUILD_CREATE", "GUILD_UPDATE", "GUILD_DELETE"}
    BY DEF About
  <1> HIDE DEF b, e
  <1>3. ~Fresh(box) /\ FirstAbout(box, 1, s)
    BY <1>1, <1>2 DEF Fresh, FirstAbout
  <1>4. IF e.kind = "GUILD_CREATE" THEN LastAbout(box, 1, s) => InVersion(list, s, e.version) ELSE Has(list, s)
    BY <1>1, <1>3 DEF Story, FirstFinds
  <1>5. NothingToTell(b, list1, in, v, s)
    <2>1. SUFFICES ASSUME Silent(b, s) PROVE (s \in in <=> Has(list1, s)) /\ InVersion(list1, s, v)
      BY <1>1 DEF NothingToTell
    <2>2. LastAbout(box, 1, s)
      BY <1>1, <1>2, <2>1 DEF LastAbout
    <2>3. /\ e.kind # "GUILD_DELETE" <=> s \in in
          /\ e.kind # "GUILD_DELETE" => e.version = v
      BY <1>1, <2>2 DEF Story, LastTold
    <2>4. ~Has(list1, s) => InVersion(list1, s, v)
      BY DEF Has, InVersion
    <2>5. QED
      BY <1>2, <1>4, <2>2, <2>3, <2>4 DEF Heard
  <1>6. FirstFinds(b, list1, s)
    <2>1. SUFFICES ASSUME NEW i \in 1..Len(b), FirstAbout(b, i, s)
                   PROVE  IF b[i].kind = "GUILD_CREATE" THEN InVersion(list1, s, b[i].version) ELSE Has(list1, s)
      BY <1>1 DEF FirstFinds
    <2>2. About(box[i + 1], s) /\ 1 < i + 1 /\ i + 1 \in 1..Len(box) /\ b[i] = box[i + 1]
      BY <1>1, <2>1 DEF FirstAbout
    <2>3. \A j \in (1 + 1)..((i + 1) - 1) : ~About(box[j], s)
      <3>1. \A j \in (1 + 1)..((i + 1) - 1) : j - 1 \in 1..(i - 1) /\ j - 1 \in 1..Len(b) /\ (j - 1) + 1 = j
        BY <1>1
      <3>2. QED
        BY <1>1, <2>1, <3>1 DEF FirstAbout
    <2>4. e.kind = "GUILD_DELETE" <=> b[i].kind = "GUILD_CREATE"
      <3>1. About(box[1], s)
        BY <1>1, <1>2
      <3>2. Alternates(box, s)
        BY DEF Story
      <3>3. QED
        BY <1>1, <2>2, <2>3, <3>1, <3>2 DEF Alternates
    <2>5. CASE e.kind = "GUILD_DELETE"
      BY <1>2, <2>4, <2>5 DEF Heard, Has, InVersion
    <2>6. CASE e.kind # "GUILD_DELETE"
      BY <1>2, <1>4, <2>4, <2>6 DEF Heard
    <2>7. QED
      BY <2>5, <2>6
  <1>7. QED
    BY <1>1, <1>5, <1>6 DEF Story, b

\* A new session tells of every server the user is in, once.
LEMMA Starting ==
  ASSUME NEW Message, NEW guilds \in Seq(Message), NEW ready \in Message, NEW list, NEW in, NEW v, NEW s,
         ready.kind = "READY",
         \A i \in 1..Len(guilds) : guilds[i].kind = "GUILD_CREATE" /\ guilds[i].id \in in
                                   /\ (guilds[i].id = s => guilds[i].version = v),
         DistinctIds(guilds),
         s \in in => \E i \in 1..Len(guilds) : guilds[i].id = s
  PROVE  Story(<<ready>> \o guilds, list, in, v, s)
  <1> DEFINE b == <<ready>> \o guilds
  <1>1. /\ Len(guilds) \in Nat /\ Len(b) = Len(guilds) + 1 /\ b[1] = ready /\ b # <<>>
        /\ \A i \in 1..Len(guilds) : b[i + 1] = guilds[i]
    <2>1. <<ready>> \in Seq(Message) /\ Len(<<ready>>) = 1 /\ <<ready>>[1] = ready
      OBVIOUS
    <2>2. /\ Len(b) = 1 + Len(guilds) /\ b \in Seq(Message)
          /\ \A i \in 1..(1 + Len(guilds)) : b[i] = IF i <= 1 THEN <<ready>>[i] ELSE guilds[i - 1]
      BY <2>1, ConcatProperties
    <2> HIDE DEF b
    <2>3. Len(guilds) \in Nat
      OBVIOUS
    <2>4. ASSUME NEW i \in 1..Len(guilds) PROVE b[i + 1] = guilds[i]
      <3>1. i + 1 \in 1..(1 + Len(guilds)) /\ ~(i + 1 <= 1) /\ (i + 1) - 1 = i
        BY <2>3
      <3>2. QED
        BY <2>2, <3>1
    <2>5. b[1] = ready
      BY <2>1, <2>2, <2>3
    <2>6. Len(b) = Len(guilds) + 1 /\ b # <<>>
      BY <2>2, <2>3
    <2>7. QED
      BY <2>3, <2>4, <2>5, <2>6
  <1> HIDE DEF b
  <1>2. \A i \in 1..Len(b) : i = 1 \/ (i - 1 \in 1..Len(guilds) /\ (i - 1) + 1 = i)
    BY <1>1
  <1>3. ASSUME NEW i \in 1..Len(b), About(b[i], s)
        PROVE  i - 1 \in 1..Len(guilds) /\ b[i] = guilds[i - 1] /\ b[i].id = s
    <2>1. i # 1
      BY <1>1, <1>3 DEF About
    <2>2. QED
      BY <1>1, <1>2, <1>3, <2>1 DEF About
  <1>4. Fresh(b)
    BY <1>1 DEF Fresh
  <1>5. LastTold(b, in, v, s)
    BY <1>3 DEF LastTold, LastAbout
  <1>6. NothingToTell(b, list, in, v, s)
    <2>1. SUFFICES ASSUME NEW i \in 1..Len(guilds), guilds[i].id = s
                   PROVE  ~Silent(b, s)
      BY <1>4 DEF NothingToTell
    <2>2. i + 1 \in 1..Len(b) /\ b[i + 1] = guilds[i]
      BY <1>1
    <2>3. QED
      BY <2>1, <2>2 DEF Silent, About
  <1>7. Alternates(b, s)
    <2>1. ASSUME NEW i \in 1..Len(b), NEW j \in 1..Len(b), i < j, About(b[i], s), About(b[j], s)
          PROVE  FALSE
      <3>1. i - 1 \in 1..Len(guilds) /\ j - 1 \in 1..Len(guilds) /\ guilds[i - 1].id = guilds[j - 1].id
        BY <1>3, <2>1
      <3>2. i - 1 = j - 1
        BY <3>1 DEF DistinctIds
      <3>3. QED
        BY <2>1, <3>2
    <2>2. QED
      BY <2>1 DEF Alternates
  <1>8. FirstFinds(b, list, s)
    BY <1>3, <1>4 DEF FirstFinds, FirstAbout
  <1>9. QED
    BY <1>5, <1>6, <1>7, <1>8 DEF Story, b
-----------------------------------------------------------------------------
(* What the handlers do to the list. *)

\* SetToSeq lists every element once.
LEMMA Numbering ==
  ASSUME NEW S, IsFiniteSet(S)
  PROVE  /\ Cardinality(S) \in Nat
         /\ SetToSeq(S) \in [1..Cardinality(S) -> S]
         /\ \A i, j \in 1..Cardinality(S) : SetToSeq(S)[i] = SetToSeq(S)[j] => i = j
         /\ \A x \in S : \E i \in 1..Cardinality(S) : SetToSeq(S)[i] = x
  <1> DEFINE n == Cardinality(S)
  <1>1. n \in Nat /\ ExistsBijection(1..n, S)
    BY FS_CardinalityType
  <1> HIDE DEF n
  <1>2. \E f \in [1..n -> S] : IsInjective(f)
    BY <1>1 DEF ExistsBijection, Bijection, Injection
  <1>3. SetToSeq(S) \in [1..n -> S] /\ IsInjective(SetToSeq(S))
    BY <1>2, Zenon DEF SetToSeq, n
  <1> DEFINE f == SetToSeq(S)
  <1> HIDE DEF f
  <1>4. f \in Injection(1..n, S)
    BY <1>3 DEF Injection, f
  <1>5. IsFiniteSet(1..n) /\ Cardinality(1..n) = n
    BY <1>1, FS_Interval
  <1>6. f \in Surjection(1..n, S)
    BY <1>4, <1>5, FS_Injection DEF n
  <1>7. \A i, j \in 1..n : f[i] = f[j] => i = j
    BY <1>4 DEF Injection, IsInjective
  <1>8. \A x \in S : \E i \in 1..n : f[i] = x
    BY <1>6 DEF Surjection
  <1>9. QED
    BY <1>1, <1>3, <1>7, <1>8 DEF f, n

\* getServers() lists servers of the user once each, as they are.
LEMMA Fetching ==
  ASSUME IsFiniteSet(Servers), member \subseteq Servers, serverVersion \in [Servers -> Nat]
  PROVE  /\ FetchedServers \in Seq(Items) /\ DistinctIds(FetchedServers)
         /\ \A x \in Elements(FetchedServers) : x.id \in member /\ x.version = serverVersion[x.id]
  <1> DEFINE n == Cardinality(member)
             f == SetToSeq(member)
  <1>1. /\ n \in Nat /\ f \in [1..n -> member]
        /\ \A i, j \in 1..n : f[i] = f[j] => i = j
    BY FS_Subset, Numbering
  <1>2. FetchedServers = [i \in 1..n |-> [id |-> f[i], version |-> serverVersion[f[i]]]]
    BY DEF FetchedServers
  <1> HIDE DEF f, n
  <1>3. ASSUME NEW i \in 1..n
        PROVE  /\ FetchedServers[i] \in Items /\ FetchedServers[i].id = f[i]
               /\ FetchedServers[i].version = serverVersion[f[i]] /\ f[i] \in member
    <2>1. f[i] \in member
      BY <1>1
    <2>2. FetchedServers[i] = [id |-> f[i], version |-> serverVersion[f[i]]]
      BY <1>2
    <2>3. QED
      BY <2>1, <2>2 DEF Items
  <1>4. DOMAIN FetchedServers = 1..n /\ FetchedServers = [i \in 1..n |-> FetchedServers[i]]
    BY <1>2
  <1>5. FetchedServers \in Seq(Items) /\ Len(FetchedServers) = n
    BY <1>1, <1>3, <1>4
  <1>6. QED
    BY <1>1, <1>3, <1>5 DEF DistinctIds, Elements

\* addServer().
LEMMA Adding ==
  ASSUME NEW list \in Seq(Items), DistinctIds(list), NEW e \in Items
  PROVE  /\ Added(list, e) \in Seq(Items) /\ DistinctIds(Added(list, e))
         /\ Elements(Added(list, e)) = Elements(list) \cup (IF Has(list, e.id) THEN {} ELSE {e})
  <1>1. e.id \in Listed(list) <=> Has(list, e.id)
    BY DEF Listed, Has, Elements
  <1>2. /\ Append(list, e) \in Seq(Items) /\ Elements(Append(list, e)) = Elements(list) \cup {e}
        /\ ~Has(list, e.id) => DistinctIds(Append(list, e))
    BY Appending DEF Has
  <1>3. QED
    BY <1>1, <1>2 DEF Added

\* The entry of the id, if there is one, is replaced.
LEMMA Replacing ==
  ASSUME NEW list \in Seq(Items), DistinctIds(list), NEW e \in Items
  PROVE  /\ Replaced(list, e) \in Seq(Items) /\ DistinctIds(Replaced(list, e))
         /\ Elements(Replaced(list, e)) = {x \in Elements(list) : x.id # e.id}
                                          \cup (IF Has(list, e.id) THEN {e} ELSE {})
  <1>1. e.id \in Listed(list) <=> Has(list, e.id)
    BY DEF Listed, Has, Elements
  <1>2. CASE Has(list, e.id)
    <2> DEFINE k == Index(list, e.id)
               r == [list EXCEPT ![k] = e]
    <2>0. Len(list) \in Nat
      OBVIOUS
    <2>1. k \in 1..Len(list) /\ list[k].id = e.id
      <3>1. PICK i \in 1..Len(list) : list[i].id = e.id
        BY <1>2 DEF Has, Elements
      <3>2. \A j \in 1..(i - 1) : list[j].id # e.id
        BY <2>0, <3>1 DEF DistinctIds
      <3>3. QED
        BY <3>1, <3>2 DEF Index
    <2>2. Replaced(list, e) = r
      BY <1>1, <1>2 DEF Replaced
    <2> HIDE DEF k
    <2>3. r \in Seq(Items) /\ Len(r) = Len(list) /\ \A i \in 1..Len(list) : r[i] = IF i = k THEN e ELSE list[i]
      BY <2>1
    <2> HIDE DEF r
    <2>4. \A i \in 1..Len(list) : r[i].id = list[i].id
      BY <2>1, <2>3
    <2>5. DistinctIds(r)
      BY <2>3, <2>4 DEF DistinctIds
    <2>6. Elements(r) = {x \in Elements(list) : x.id # e.id} \cup {e}
      <3>1. \A i \in 1..Len(list) : i # k => list[i].id # e.id
        BY <2>1 DEF DistinctIds
      <3>2. QED
        BY <2>1, <2>3, <3>1 DEF Elements
    <2>7. QED
      BY <1>2, <2>2, <2>3, <2>5, <2>6
  <1>3. CASE ~Has(list, e.id)
    BY <1>1, <1>3 DEF Replaced, Has
  <1>4. QED
    BY <1>2, <1>3
-----------------------------------------------------------------------------
(* The steps. *)

\* What Discord sends is well formed.
LEMMA Formed ==
  ASSUME Types
  PROVE  /\ [kind |-> "READY"] \in Events /\ [kind |-> "RESUMED"] \in Events
         /\ \A s \in Servers : Guild(s) \in Events /\ [kind |-> "GUILD_DELETE", id |-> s] \in Events
         /\ \A s \in Servers, v \in Nat : [kind |-> "GUILD_UPDATE", id |-> s, version |-> v] \in Events
         /\ \A k \in {"CHANNEL_CREATE", "CHANNEL_UPDATE", "CHANNEL_DELETE"}, c \in Channels, v \in Nat :
                [kind |-> k, id |-> c, version |-> v] \in Events
         /\ \A u \in Users, c \in VoiceChannels \cup {None} : State(u, c) \in Events
         /\ \A c \in VoiceChannels : [kind |-> "VOICE_SERVER_UPDATE", channel |-> c] \in Events
  <1>1. ASSUME NEW s \in Servers PROVE Guild(s) \in Events
    <2> DEFINE voice == [u \in InVoice(s) |-> where[u]]
    <2>1. InVoice(s) \in SUBSET Users
      BY DEF InVoice
    <2>2. \A u \in InVoice(s) : where[u] \in VoiceChannels
      BY DEF InVoice, Types
    <2>3. voice \in [InVoice(s) -> VoiceChannels]
      BY <2>2
    <2> HIDE DEF voice
    <2>4. voice \in UNION {[present -> VoiceChannels] : present \in SUBSET Users}
      BY <2>1, <2>3
    <2>5. serverVersion[s] \in Nat
      BY DEF Types
    <2>6. Guild(s) = [kind |-> "GUILD_CREATE", id |-> s, version |-> serverVersion[s], voice |-> voice]
      BY DEF Guild, voice
    <2>7. QED
      BY <2>4, <2>5, <2>6 DEF Events
  <1>2. QED
    BY <1>1 DEF Events, State

\* The fields of the events about servers.
LEMMA Received ==
  ASSUME NEW e \in Events
  PROVE  /\ e.kind \in {"GUILD_CREATE", "GUILD_UPDATE"} => e.id \in Servers /\ e.version \in Nat
         /\ e.kind = "GUILD_DELETE" => e.id \in Servers
  BY DEF Events

\* Steps that touch nothing the invariant is about.
LEMMA Stutter ==
  ASSUME IInv, UNCHANGED <<gatewayVars, member, serverVersion, channel, where, servers>>
  PROVE  IInv'
  BY DEF IInv, gatewayVars, Types, InboxShape, ListShape, Known

\* What is sent keeps its shape.
LEMMA Sending ==
  ASSUME InboxShape, NEW more \in Seq(Events), \A i \in 1..Len(more) : more[i].kind # "READY",
         inbox' = inbox \o more
  PROVE  InboxShape'
  <1>1. /\ inbox' \in Seq(Events) /\ Len(inbox') = Len(inbox) + Len(more)
        /\ Len(inbox) \in Nat /\ Len(more) \in Nat
        /\ \A i \in 1..(Len(inbox) + Len(more)) :
               inbox'[i] = IF i <= Len(inbox) THEN inbox[i] ELSE more[i - Len(inbox)]
    BY ConcatProperties DEF InboxShape
  <1>2. ASSUME NEW i \in 2..Len(inbox') PROVE inbox'[i].kind # "READY"
    <2>1. CASE i <= Len(inbox)
      BY <1>1, <2>1 DEF InboxShape
    <2>2. CASE i > Len(inbox)
      <3>1. i - Len(inbox) \in 1..Len(more) /\ i \in 1..(Len(inbox) + Len(more)) /\ ~(i <= Len(inbox))
        BY <1>1, <2>2
      <3>2. QED
        BY <1>1, <3>1
    <2>3. QED
      BY <1>1, <2>1, <2>2
  <1>3. QED
    BY <1>1, <1>2 DEF InboxShape

\* Discord tells of nothing that concerns the server list.
LEMMA Unconcerned ==
  ASSUME IInv, NEW more \in Seq(Events),
         \A i \in 1..Len(more) : more[i].kind \notin {"READY", "GUILD_CREATE", "GUILD_UPDATE", "GUILD_DELETE"},
         inbox' = inbox \o more, Types', Known' => Known, UNCHANGED <<member, serverVersion, servers>>
  PROVE  IInv'
  <1>1. InboxShape'
    BY Sending DEF IInv
  <1>2. ListShape'
    BY DEF IInv, ListShape
  <1>3. ASSUME Known', NEW s \in Servers
        PROVE  Story(inbox', servers', member', serverVersion'[s], s)
    <2>1. Story(inbox, servers, member, serverVersion[s], s)
      BY <1>3 DEF IInv
    <2>2. \A i \in 1..Len(more) : ~About(more[i], s) /\ more[i].kind # "READY"
      BY DEF About
    <2>3. inbox \in Seq(Events)
      BY DEF IInv, InboxShape
    <2>4. Story(inbox \o more, servers, member, serverVersion[s], s)
      BY <2>1, <2>2, <2>3, Elsewhere
    <2>5. QED
      BY <2>4
  <1>4. QED
    BY <1>1, <1>2, <1>3 DEF IInv

\* Discord tells of a change of the server s.
LEMMA Concerned ==
  ASSUME IInv, NEW s \in Servers, NEW e \in Events,
         Tells(e, member, s, member', serverVersion'[s]),
         \A t \in Servers \ {s} : (t \in member' <=> t \in member) /\ serverVersion'[t] = serverVersion[t],
         inbox' = Append(inbox, e), Types', Known' => Known, UNCHANGED servers
  PROVE  IInv'
  <1>1. inbox' = inbox \o <<e>> /\ inbox \in Seq(Events)
    BY AppendIsConcat DEF IInv, InboxShape
  <1>2. /\ <<e>> \in Seq(Events) /\ e.kind # "READY"
        /\ \A i \in 1..Len(<<e>>) : <<e>>[i] = e
    BY DEF Tells, About
  <1>3. InboxShape'
    BY <1>1, <1>2, Sending DEF IInv
  <1>4. ListShape'
    BY DEF IInv, ListShape
  <1>5. ASSUME Known', NEW t \in Servers
        PROVE  Story(inbox', servers', member', serverVersion'[t], t)
    <2>1. Story(inbox, servers, member, serverVersion[t], t)
      BY <1>5 DEF IInv
    <2>2. CASE t = s
      <3>1. Story(Append(inbox, e), servers, member', serverVersion'[s], s)
        BY <1>1, <2>1, <2>2, Telling
      <3>2. QED
        BY <2>2, <3>1
    <2>3. CASE t # s
      <3>1. \A i \in 1..Len(<<e>>) : ~About(<<e>>[i], t) /\ <<e>>[i].kind # "READY"
        BY <1>2, <2>3 DEF Tells, About
      <3>2. Story(inbox \o <<e>>, servers, member, serverVersion[t], t)
        BY <1>1, <1>2, <2>1, <3>1, Elsewhere
      <3>3. Story(inbox \o <<e>>, servers, member', serverVersion[t], t)
        BY <2>3, <3>2 DEF Story, LastTold, NothingToTell
      <3>4. QED
        BY <1>1, <2>3, <3>3
    <2>4. QED
      BY <2>2, <2>3
  <1>6. QED
    BY <1>3, <1>4, <1>5 DEF IInv

\* The client starts without a session.
LEMMA Start ==
  ASSUME Init
  PROVE  IInv
  <1>1. /\ inbox = <<>> /\ servers = <<>> /\ conn = "down" /\ drops = 0 /\ member = Servers
        /\ serverVersion = [s \in Servers |-> 1] /\ channel = [c \in Channels |-> 0]
        /\ where = [u \in Users |-> None]
    BY DEF Init, DiscordInit, GatewayInit, CacheInit
  <1>2. Types
    BY <1>1 DEF Types
  <1>3. InboxShape /\ ListShape
    BY <1>1 DEF InboxShape, ListShape, DistinctIds
  <1>4. ~Known
    BY <1>1 DEF Known
  <1>5. QED
    BY <1>2, <1>3, <1>4 DEF IInv

\* Discord changes.
LEMMA StepOfDiscord ==
  ASSUME IInv, DiscordStep
  PROVE  IInv'
  <1> USE DiscordAssumption
  <1>1. Types
    BY DEF IInv
  <1>2. UNCHANGED servers
    BY DEF DiscordStep, Miss, cacheVars
  <1>3. ASSUME NEW s \in Servers, JoinServer(s) PROVE IInv'
    <2>1. UNCHANGED <<conn, drops, serverVersion, channel, where>> /\ member' = member \cup {s} /\ s \notin member
      BY <1>3 DEF JoinServer, Send
    <2>2. Types' /\ (Known' => Known)
      BY <1>1, <2>1 DEF Types, Known
    <2>3. Tells(Guild(s), member, s, member', serverVersion'[s])
      BY <2>1 DEF Tells, About, Guild
    <2>4. inbox' = Append(inbox, Guild(s)) /\ Guild(s) \in Events
      BY <1>1, <1>3, Formed DEF JoinServer, Send
    <2>5. QED
      BY <1>2, <2>1, <2>2, <2>3, <2>4, Concerned
  <1>4. ASSUME NEW s \in Servers, LeaveServer(s) PROVE IInv'
    <2> DEFINE e == [kind |-> "GUILD_DELETE", id |-> s]
    <2>1. UNCHANGED <<conn, drops, serverVersion, channel>> /\ member' = member \ {s} /\ s \in member
      BY <1>4 DEF LeaveServer, Send
    <2>2. where' \in [Users -> VoiceChannels \cup {None}]
      BY <1>1, <1>4 DEF LeaveServer, Types
    <2>3. Types' /\ (Known' => Known)
      BY <1>1, <2>1, <2>2 DEF Types, Known
    <2>4. Tells(e, member, s, member', serverVersion'[s])
      BY <2>1 DEF Tells, About
    <2>5. inbox' = Append(inbox, e) /\ e \in Events
      BY <1>1, <1>4, Formed DEF LeaveServer, Send
    <2>6. QED
      BY <1>2, <2>1, <2>3, <2>4, <2>5, Concerned
  <1>5. ASSUME NEW s \in Servers, EditServer(s) PROVE IInv'
    <2> DEFINE e == [kind |-> "GUILD_UPDATE", id |-> s, version |-> serverVersion'[s]]
    <2>1. /\ UNCHANGED <<conn, drops, member, channel, where>>
          /\ serverVersion' = [serverVersion EXCEPT ![s] = @ + 1]
          /\ IF s \in member THEN inbox' = Append(inbox, e) ELSE UNCHANGED inbox
      BY <1>5 DEF EditServer, Tell, Send, gatewayVars
    <2>2. /\ serverVersion' \in [Servers -> Nat] /\ serverVersion'[s] \in Nat
          /\ \A t \in Servers \ {s} : serverVersion'[t] = serverVersion[t]
      BY <1>1, <2>1 DEF Types
    <2>3. Types' /\ (Known' => Known)
      BY <1>1, <2>1, <2>2 DEF Types, Known
    <2>4. CASE s \in member
      <3>1. Tells(e, member, s, member', serverVersion'[s])
        BY <2>1, <2>4 DEF Tells, About
      <3>2. e \in Events
        BY <1>1, <2>2, Formed
      <3>3. QED
        BY <1>2, <2>1, <2>2, <2>3, <2>4, <3>1, <3>2, Concerned
    <2>5. CASE s \notin member
      <3>1. InboxShape' /\ ListShape'
        BY <1>2, <2>1, <2>5 DEF IInv, InboxShape, ListShape
      <3>2. ASSUME Known', NEW t \in Servers
            PROVE  Story(inbox', servers', member', serverVersion'[t], t)
        <4>1. Story(inbox, servers, member, serverVersion[t], t)
          BY <2>3, <3>2 DEF IInv
        <4>2. t = s => Story(inbox, servers, member, serverVersion'[s], s)
          BY <2>5, <4>1, Outside
        <4>3. QED
          BY <1>2, <2>1, <2>2, <2>5, <4>1, <4>2
      <3>3. QED
        BY <2>3, <3>1, <3>2 DEF IInv
    <2>6. QED
      BY <2>4, <2>5
  <1>6. ASSUME NEW e \in Events, e.kind \notin {"READY", "GUILD_CREATE", "GUILD_UPDATE", "GUILD_DELETE"},
               NEW s, Tell(s, e), Types', UNCHANGED <<member, serverVersion>>
        PROVE  IInv'
    <2>1. UNCHANGED <<conn, drops>>
      BY <1>6 DEF Tell, Send, gatewayVars
    <2>2. inbox' = Append(inbox, e) \/ UNCHANGED inbox
      BY <1>6 DEF Tell, Send, gatewayVars
    <2>3. /\ inbox \in Seq(Events) /\ <<>> \in Seq(Events) /\ <<e>> \in Seq(Events)
          /\ inbox \o <<>> = inbox /\ Append(inbox, e) = inbox \o <<e>>
          /\ Len(<<>>) = 0 /\ \A i \in 1..Len(<<e>>) : <<e>>[i] = e
      BY <1>6, AppendIsConcat, ConcatEmptySeq DEF IInv, InboxShape
    <2>4. Known' => Known
      BY <2>1 DEF Known
    <2>5. CASE inbox' = Append(inbox, e)
      BY <1>2, <1>6, <2>3, <2>4, <2>5, Unconcerned
    <2>6. CASE UNCHANGED inbox
      <3>1. inbox' = inbox \o <<>> /\ \A i \in 1..Len(<<>>) : FALSE
        BY <2>3, <2>6
      <3>2. QED
        BY <1>2, <1>6, <2>3, <2>4, <3>1, Unconcerned
    <2>7. QED
      BY <2>2, <2>5, <2>6
  <1>7. ASSUME NEW u \in Users, NEW c \in VoiceChannels \cup {None}, Move(u, c) PROVE IInv'
    <2>1. PICK s \in Servers : Tell(s, State(u, c))
      BY <1>7 DEF Move
    <2>2. /\ UNCHANGED <<conn, drops, member, serverVersion, channel>>
          /\ where' = [where EXCEPT ![u] = c]
      BY <1>7, <2>1 DEF Move, Tell, Send, gatewayVars
    <2>3. Types'
      BY <1>1, <2>2 DEF Types
    <2>4. State(u, c) \in Events /\ State(u, c).kind = "VOICE_STATE_UPDATE"
      BY <1>1, Formed DEF State
    <2>5. QED
      BY <1>6, <2>1, <2>2, <2>3, <2>4
  <1>8. ASSUME NEW c \in Channels, NEW k \in {"CHANNEL_CREATE", "CHANNEL_UPDATE", "CHANNEL_DELETE"},
               ChangeChannel(c, k)
        PROVE  IInv'
    <2> DEFINE e == [kind |-> k, id |-> c, version |-> channel'[c]]
    <2>1. /\ UNCHANGED <<conn, drops, member, serverVersion, where>>
          /\ channel' = [channel EXCEPT ![c] = @ + 1] /\ Tell(ServerOf[c], e)
      BY <1>8 DEF ChangeChannel, Tell, Send, gatewayVars
    <2>2. channel' \in [Channels -> Nat] /\ channel'[c] \in Nat
      BY <1>1, <2>1 DEF Types
    <2>3. Types'
      BY <1>1, <2>1, <2>2 DEF Types
    <2>4. e \in Events
      BY <1>1, <2>2, Formed
    <2>5. QED
      BY <1>6, <2>1, <2>3, <2>4
  <1>9. QED
    BY <1>3, <1>4, <1>5, <1>7, <1>8 DEF DiscordStep

\* The UI asks for something.
LEMMA StepOfUI ==
  ASSUME IInv, Request
  PROVE  IInv'
  <1> USE DiscordAssumption
  <1>1. ASSUME NEW s \in Servers, GetCachedChannels(s), UNCHANGED <<gatewayVars, discordVars, voiceVars>>
        PROVE  IInv'
    BY <1>1, Stutter DEF GetCachedChannels, discordVars
  <1>2. ASSUME NEW c \in VoiceChannels, Enter(c), UNCHANGED cacheVars PROVE IInv'
    <2> DEFINE away == IF where[me] # None /\ ServerOf[where[me]] # ServerOf[c] THEN <<State(me, None)>> ELSE <<>>
               here == <<State(me, c), [kind |-> "VOICE_SERVER_UPDATE", channel |-> c]>>
               quiet(e) == e.kind \notin {"READY", "GUILD_CREATE", "GUILD_UPDATE", "GUILD_DELETE"}
    <2>1. /\ UNCHANGED <<conn, drops, member, serverVersion, channel, servers>>
          /\ where' = [where EXCEPT ![me] = c] /\ inbox' = (inbox \o away) \o here
      BY <1>2 DEF Enter, cacheVars
    <2>2. Types' /\ (Known' => Known)
      BY <2>1 DEF IInv, Types, Known
    <2>3. /\ State(me, None) \in Events /\ State(me, c) \in Events
          /\ [kind |-> "VOICE_SERVER_UPDATE", channel |-> c] \in Events
          /\ quiet(State(me, None)) /\ quiet(State(me, c))
          /\ quiet([kind |-> "VOICE_SERVER_UPDATE", channel |-> c])
      BY Formed DEF IInv, State
    <2>4. away \in Seq(Events) /\ \A i \in 1..Len(away) : quiet(away[i])
      BY <2>3
    <2>5. here \in Seq(Events) /\ Len(here) = 2 /\ \A i \in 1..2 : quiet(here[i])
      BY <2>3
    <2> HIDE DEF away, here, quiet
    <2>6. inbox \in Seq(Events)
      BY DEF IInv, InboxShape
    <2>7. inbox' = inbox \o (away \o here) /\ away \o here \in Seq(Events)
      BY <2>1, <2>4, <2>5, <2>6, ConcatAssociative, ConcatProperties
    <2>8. \A i \in 1..Len(away \o here) : quiet((away \o here)[i])
      <3>1. /\ Len(away \o here) = Len(away) + 2 /\ Len(away) \in Nat
            /\ \A i \in 1..(Len(away) + 2) :
                   (away \o here)[i] = IF i <= Len(away) THEN away[i] ELSE here[i - Len(away)]
        <4>1. Len(away) \in Nat
          BY <2>4
        <4>2. /\ Len(away \o here) = Len(away) + Len(here)
              /\ \A i \in 1..(Len(away) + Len(here)) :
                     (away \o here)[i] = IF i <= Len(away) THEN away[i] ELSE here[i - Len(away)]
          BY <2>4, <2>5, ConcatProperties
        <4>3. QED
          BY <2>5, <4>1, <4>2
      <3>2. ASSUME NEW i \in 1..(Len(away) + 2) PROVE quiet((away \o here)[i])
        <4>1. CASE i <= Len(away)
          BY <2>4, <3>1, <4>1
        <4>2. CASE ~(i <= Len(away))
          <5>1. i - Len(away) \in 1..2
            BY <3>1, <4>2
          <5>2. (away \o here)[i] = here[i - Len(away)]
            BY <3>1, <4>2
          <5>3. QED
            BY <2>5, <5>1, <5>2
        <4>3. QED
          BY <4>1, <4>2
      <3>3. QED
        BY <3>1, <3>2
    <2>9. QED
      BY <2>1, <2>2, <2>7, <2>8, Unconcerned DEF quiet
  <1>3. ASSUME UNCHANGED <<gatewayVars, discordVars, cacheVars>> PROVE IInv'
    BY <1>3, Stutter DEF cacheVars, discordVars
  <1>4. QED
    BY <1>1, <1>2, <1>3 DEF Request

\* A connection is lost, resumed or begun anew.
LEMMA StepOfConnection ==
  ASSUME IInv, Connection
  PROVE  IInv'
  <1> USE DiscordAssumption
  <1>1. CASE Drop /\ UNCHANGED <<discordVars, cacheVars>>
    <2>1. /\ conn = "live" /\ conn' = "down" /\ drops' = drops + 1
          /\ UNCHANGED <<inbox, member, serverVersion, channel, where, servers>>
      BY <1>1 DEF Drop, discordVars, cacheVars
    <2>2. Types' /\ Known
      BY <2>1 DEF IInv, Types, Known
    <2>3. QED
      BY <2>1, <2>2 DEF IInv, InboxShape, ListShape
  <1>2. CASE Reconnect /\ UNCHANGED <<cacheVars, voiceVars>>
    <2>1. UNCHANGED <<drops, member, serverVersion, channel, where, servers>> /\ conn' = "live" /\ Types'
      BY <1>2 DEF Reconnect, Resume, Identify, discordVars, cacheVars, IInv, Types
    <2>2. CASE Resume
      <3>1. inbox' = Append(inbox, [kind |-> "RESUMED"]) /\ Known
        BY <2>2 DEF Resume, IInv, Types, Known
      <3>2. /\ [kind |-> "RESUMED"] \in Events /\ inbox \in Seq(Events)
            /\ <<[kind |-> "RESUMED"]>> \in Seq(Events)
        BY Formed DEF IInv, InboxShape
      <3>3. inbox' = inbox \o <<[kind |-> "RESUMED"]>>
        BY <3>1, <3>2, AppendIsConcat
      <3>4. \A i \in 1..Len(<<[kind |-> "RESUMED"]>>) : <<[kind |-> "RESUMED"]>>[i].kind = "RESUMED"
        OBVIOUS
      <3>5. QED
        BY <2>1, <3>1, <3>2, <3>3, <3>4, Unconcerned
    <2>3. CASE Identify([i \in 1..Cardinality(member) |-> Guild(SetToSeq(member)[i])])
      <3> DEFINE n == Cardinality(member)
                 f == SetToSeq(member)
                 guilds == [i \in 1..n |-> Guild(f[i])]
                 ready == [kind |-> "READY"]
      <3>1. /\ n \in Nat /\ f \in [1..n -> member]
            /\ \A i, j \in 1..n : f[i] = f[j] => i = j
            /\ \A x \in member : \E i \in 1..n : f[i] = x
        BY FS_Subset, Numbering DEF IInv, Types
      <3>2. inbox' = <<ready>> \o guilds
        BY <2>3 DEF Identify
      <3> HIDE DEF n, f
      <3>3. ASSUME NEW i \in 1..n
            PROVE  /\ guilds[i] \in Events /\ guilds[i].kind = "GUILD_CREATE" /\ guilds[i].id = f[i]
                   /\ guilds[i].version = serverVersion[f[i]] /\ f[i] \in member
        <4>1. f[i] \in member /\ f[i] \in Servers
          BY <3>1 DEF IInv, Types
        <4>2. guilds[i] = Guild(f[i])
          OBVIOUS
        <4>3. Guild(f[i]) \in Events
          BY <4>1, Formed DEF IInv
        <4>4. QED
          BY <4>1, <4>2, <4>3 DEF Guild
      <3>4. DOMAIN guilds = 1..n /\ guilds = [i \in 1..n |-> guilds[i]]
        OBVIOUS
      <3> HIDE DEF guilds
      <3>5. guilds \in Seq(Events) /\ Len(guilds) = n
        BY <3>1, <3>3, <3>4
      <3>6. ready \in Events /\ ready.kind = "READY"
        BY Formed DEF IInv
      <3> HIDE DEF ready
      <3>7. DistinctIds(guilds)
        BY <3>1, <3>3, <3>5 DEF DistinctIds
      <3>8. ASSUME NEW s \in Servers
            PROVE  Story(inbox', servers', member', serverVersion'[s], s)
        <4>1. \A i \in 1..Len(guilds) : /\ guilds[i].kind = "GUILD_CREATE" /\ guilds[i].id \in member
                                        /\ guilds[i].id = s => guilds[i].version = serverVersion[s]
          BY <3>3, <3>5
        <4>2. s \in member => \E i \in 1..Len(guilds) : guilds[i].id = s
          BY <3>1, <3>3, <3>5
        <4>3. Story(<<ready>> \o guilds, servers, member, serverVersion[s], s)
          BY <3>5, <3>6, <3>7, <4>1, <4>2, Starting
        <4>4. QED
          BY <2>1, <3>2, <4>3
      <3>9. InboxShape'
        <4>1. /\ <<ready>> \in Seq(Events) /\ Len(<<ready>>) = 1
          BY <3>6
        <4>2. /\ inbox' \in Seq(Events) /\ Len(inbox') = 1 + n
              /\ \A i \in 1..(1 + n) : inbox'[i] = IF i <= 1 THEN <<ready>>[i] ELSE guilds[i - 1]
          BY <3>2, <3>5, <4>1, ConcatProperties
        <4>3. ASSUME NEW i \in 2..Len(inbox') PROVE inbox'[i].kind # "READY"
          <5>1. i \in 1..(1 + n) /\ ~(i <= 1) /\ i - 1 \in 1..n
            BY <3>1, <4>2
          <5>2. inbox'[i] = guilds[i - 1]
            BY <4>2, <5>1
          <5>3. QED
            BY <3>3, <5>1, <5>2
        <4>4. QED
          BY <4>2, <4>3 DEF InboxShape
      <3>10. ListShape'
        BY <2>1 DEF IInv, ListShape
      <3>11. QED
        BY <2>1, <3>8, <3>9, <3>10 DEF IInv
    <2>4. QED
      BY <1>2, <2>2, <2>3 DEF Reconnect
  <1>3. CASE UNCHANGED <<gatewayVars, discordVars, cacheVars>>
    BY <1>3, Stutter DEF cacheVars, discordVars
  <1>4. QED
    BY <1>1, <1>2, <1>3 DEF Connection

\* A handler that makes of the list what its event tells of each server.
LEMMA Handling ==
  ASSUME IInv, Receive, UNCHANGED discordVars, servers' \in Seq(Items), DistinctIds(servers'),
         \A s \in Servers :
             IF About(Event, s) THEN Heard(Event, servers, servers', s)
             ELSE IF Event.kind = "READY"
             THEN \A x \in Elements(servers') : x.id = s => s \in member /\ x.version = serverVersion[s]
             ELSE \A x : x.id = s => (x \in Elements(servers') <=> x \in Elements(servers))
  PROVE  IInv'
  <1>1. /\ inbox \in Seq(Events) /\ inbox # <<>> /\ \A i \in 2..Len(inbox) : inbox[i].kind # "READY"
        /\ inbox' = Tail(inbox) /\ Event = Head(inbox)
        /\ Known /\ UNCHANGED <<conn, drops, member, serverVersion, channel, where>>
    BY DEF IInv, InboxShape, Receive, Event, Known, discordVars
  <1>2. Types'
    BY <1>1 DEF IInv, Types
  <1>3. InboxShape'
    <2>1. /\ Tail(inbox) \in Seq(Events) /\ Len(inbox) \in Nat /\ Len(Tail(inbox)) = Len(inbox) - 1
          /\ \A i \in 1..Len(Tail(inbox)) : Tail(inbox)[i] = inbox[i + 1]
      BY <1>1, HeadTailProperties
    <2> DEFINE b == Tail(inbox)
    <2> HIDE DEF b
    <2>2. ASSUME NEW i \in 2..Len(b) PROVE b[i].kind # "READY"
      <3>1. i \in 1..Len(b) /\ i + 1 \in 2..Len(inbox)
        BY <2>1 DEF b
      <3>2. b[i] = inbox[i + 1]
        BY <2>1, <3>1 DEF b
      <3>3. QED
        BY <1>1, <3>1, <3>2
    <2>3. QED
      BY <1>1, <2>1, <2>2 DEF InboxShape, b
  <1>4. ListShape'
    BY DEF ListShape
  <1>5. ASSUME NEW s \in Servers
        PROVE  Story(inbox', servers', member', serverVersion'[s], s)
    <2>1. Story(inbox, servers, member, serverVersion[s], s)
      BY <1>1 DEF IInv
    <2>2. CASE About(Event, s)
      <3>1. Heard(Head(inbox), servers, servers', s) /\ About(Head(inbox), s)
        BY <1>1, <2>2
      <3>2. Story(Tail(inbox), servers', member, serverVersion[s], s)
        BY <1>1, <2>1, <3>1, Hearing
      <3>3. QED
        BY <1>1, <3>2
    <2>3. CASE ~About(Event, s)
      <3>1. /\ ~About(Head(inbox), s)
            /\ IF Head(inbox).kind = "READY"
               THEN \A x \in Elements(servers') : x.id = s => s \in member /\ x.version = serverVersion[s]
               ELSE \A x : x.id = s => (x \in Elements(servers') <=> x \in Elements(servers))
        BY <1>1, <2>3
      <3>2. Story(Tail(inbox), servers', member, serverVersion[s], s)
        BY <1>1, <2>1, <3>1, Passing
      <3>3. QED
        BY <1>1, <3>2
    <2>4. QED
      BY <2>2, <2>3
  <1>6. QED
    BY <1>2, <1>3, <1>4, <1>5 DEF IInv

\* An event is handled.
LEMMA StepOfHandler ==
  ASSUME IInv, Handle
  PROVE  IInv'
  <1> USE DiscordAssumption
  <1>1. UNCHANGED discordVars
    BY DEF Handle
  <1>2. servers \in Seq(Items) /\ DistinctIds(servers)
    BY DEF IInv, ListShape
  <1>3. ASSUME Receive PROVE Event \in Events
    BY <1>3, HeadTailProperties DEF Receive, Event, IInv, InboxShape
  <1>4. CASE OnReady
    <2>1. Receive /\ Event.kind = "READY" /\ \A s : ~About(Event, s)
      BY <1>4 DEF OnReady, Receiving, About
    <2>2. servers' = FetchedServers \/ servers' = <<>>
      BY <1>4 DEF OnReady, CacheReady
    <2>3. /\ FetchedServers \in Seq(Items) /\ DistinctIds(FetchedServers)
          /\ \A x \in Elements(FetchedServers) : x.id \in member /\ x.version = serverVersion[x.id]
      BY Fetching DEF IInv, Types
    <2>4. <<>> \in Seq(Items) /\ DistinctIds(<<>>) /\ Elements(<<>>) = {}
      BY DEF DistinctIds, Elements
    <2>5. /\ servers' \in Seq(Items) /\ DistinctIds(servers')
          /\ \A x \in Elements(servers') : x.id \in member /\ x.version = serverVersion[x.id]
      BY <2>2, <2>3, <2>4
    <2>6. QED
      BY <1>1, <2>1, <2>5, Handling
  <1>5. ASSUME Receive, Event.kind \notin {"READY", "GUILD_CREATE", "GUILD_UPDATE", "GUILD_DELETE"}, UNCHANGED servers
        PROVE  IInv'
    <2>1. \A s : ~About(Event, s)
      BY <1>5 DEF About
    <2>2. servers' \in Seq(Items) /\ DistinctIds(servers') /\ Elements(servers') = Elements(servers)
      BY <1>2, <1>5
    <2>3. QED
      BY <1>1, <1>5, <2>1, <2>2, Handling
  <1>6. CASE OnServer
    <2>1. Receive /\ Event.kind = "GUILD_CREATE" /\ servers' = Added(servers, Entry)
      BY <1>6 DEF OnServer, Receiving, CacheServer
    <2>2. Entry \in Items /\ Entry.id = Event.id /\ Entry.version = Event.version
      BY <1>3, <2>1, Received DEF Entry, Items
    <2>3. /\ servers' \in Seq(Items) /\ DistinctIds(servers')
          /\ Elements(servers') = Elements(servers) \cup (IF Has(servers, Event.id) THEN {} ELSE {Entry})
      BY <1>2, <2>1, <2>2, Adding
    <2>4. ASSUME NEW s, About(Event, s) PROVE Heard(Event, servers, servers', s)
      BY <2>1, <2>2, <2>3, <2>4 DEF About, Heard, Has, InVersion
    <2>5. ASSUME NEW s, ~About(Event, s), NEW x, x.id = s
          PROVE  x \in Elements(servers') <=> x \in Elements(servers)
      BY <2>1, <2>2, <2>3, <2>5 DEF About
    <2>6. QED
      BY <1>1, <2>1, <2>3, <2>4, <2>5, Handling
  <1>7. CASE OnEditServer
    <2>1. Receive /\ Event.kind = "GUILD_UPDATE" /\ servers' = Replaced(servers, Entry)
      BY <1>7 DEF OnEditServer, Receiving, CacheEditServer
    <2>2. Entry \in Items /\ Entry.id = Event.id /\ Entry.version = Event.version
      BY <1>3, <2>1, Received DEF Entry, Items
    <2>3. /\ servers' \in Seq(Items) /\ DistinctIds(servers')
          /\ Elements(servers') = {x \in Elements(servers) : x.id # Event.id}
                                  \cup (IF Has(servers, Event.id) THEN {Entry} ELSE {})
      BY <1>2, <2>1, <2>2, Replacing
    <2>4. ASSUME NEW s, About(Event, s) PROVE Heard(Event, servers, servers', s)
      BY <2>1, <2>2, <2>3, <2>4 DEF About, Heard, Has, InVersion
    <2>5. ASSUME NEW s, ~About(Event, s), NEW x, x.id = s
          PROVE  x \in Elements(servers') <=> x \in Elements(servers)
      BY <2>1, <2>2, <2>3, <2>5 DEF About
    <2>6. QED
      BY <1>1, <2>1, <2>3, <2>4, <2>5, Handling
  <1>8. CASE OnDeleteServer
    <2>1. Receive /\ Event.kind = "GUILD_DELETE" /\ servers' = Without(servers, Event.id)
      BY <1>8 DEF OnDeleteServer, Receiving, CacheDeleteServer
    <2>2. /\ servers' \in Seq(Items) /\ DistinctIds(servers')
          /\ Elements(servers') = {x \in Elements(servers) : x.id # Event.id}
      BY <1>2, <2>1, Erasing
    <2>3. ASSUME NEW s, About(Event, s) PROVE Heard(Event, servers, servers', s)
      BY <2>1, <2>2, <2>3 DEF About, Heard, Has
    <2>4. ASSUME NEW s, ~About(Event, s), NEW x, x.id = s
          PROVE  x \in Elements(servers') <=> x \in Elements(servers)
      BY <2>1, <2>2, <2>4 DEF About
    <2>5. QED
      BY <1>1, <2>1, <2>2, <2>3, <2>4, Handling
  <1>9. CASE OnResumed
    BY <1>5, <1>9 DEF OnResumed, Receiving, CacheResumed
  <1>10. CASE OnChannel
    BY <1>5, <1>10 DEF OnChannel, Receiving, CacheChannel, UpdateChannels
  <1>11. CASE OnEditChannel
    BY <1>5, <1>11 DEF OnEditChannel, Receiving, CacheEditChannel, UpdateChannels
  <1>12. CASE OnDeleteChannel
    BY <1>5, <1>12 DEF OnDeleteChannel, Receiving, CacheDeleteChannel, UpdateChannels
  <1>13. CASE OnEditVoiceState
    BY <1>5, <1>13 DEF OnEditVoiceState, Receiving, cacheVars
  <1>14. CASE OnVoiceServer
    BY <1>5, <1>14 DEF OnVoiceServer, Receiving, cacheVars
  <1>15. QED
    BY <1>4, <1>6, <1>7, <1>8, <1>9, <1>10, <1>11, <1>12, <1>13, <1>14 DEF Handle
-----------------------------------------------------------------------------
\* Without repeated ids there are as many ids as entries.
LEMMA Counting ==
  ASSUME NEW list \in Seq(Items), DistinctIds(list)
  PROVE  Len(list) = Cardinality(Listed(list))
  <1> DEFINE ids == [i \in 1..Len(list) |-> list[i].id]
  <1>1. Len(list) \in Nat /\ ids \in [1..Len(list) -> Listed(list)]
    BY DEF Listed
  <1>2. ids \in Bijection(1..Len(list), Listed(list))
    BY <1>1 DEF DistinctIds, Listed, Bijection, Injection, Surjection, IsInjective
  <1>3. ExistsBijection(1..Len(list), Listed(list))
    BY <1>2 DEF ExistsBijection
  <1>4. QED
    BY <1>1, <1>3, FS_CountingElements

\* The invariant the theorems rest on.
THEOREM Invariance == Spec => []IInv
  <1>1. Init => IInv
    BY Start
  <1>2. IInv /\ [Next]_vars => IInv'
    <2>1. SUFFICES ASSUME IInv, [Next]_vars PROVE IInv'
      OBVIOUS
    <2>2. CASE UNCHANGED vars
      BY <2>1, <2>2, Stutter DEF vars, discordVars, cacheVars
    <2>3. CASE Next
      BY <2>1, <2>3, StepOfDiscord, StepOfHandler, StepOfUI, StepOfConnection DEF Next
    <2>4. QED
      BY <2>1, <2>2, <2>3
  <1>3. QED
    BY <1>1, <1>2, PTL DEF Spec

\* However servers come and go and connections drop, no server is listed
\* twice, and once every event is handled the list is what Discord holds.
THEOREM Agreement == Spec => []ServersAgree
  <1>1. ASSUME IInv PROVE ServersAgree
    <2>1. servers \in Seq(Items) /\ DistinctIds(servers) /\ member \subseteq Servers
      BY <1>1 DEF IInv, ListShape, Types
    <2>2. Len(servers) = Cardinality(Listed(servers))
      BY <2>1, Counting
    <2>3. ASSUME Quiet, NEW s \in Servers
          PROVE  (s \in member <=> Has(servers, s)) /\ InVersion(servers, s, serverVersion[s])
      <3>1. Known /\ ~Fresh(inbox) /\ Silent(inbox, s)
        BY <2>3 DEF Quiet, Known, Fresh, Silent
      <3>2. QED
        BY <1>1, <3>1 DEF IInv, Story, NothingToTell
    <2>4. Len(servers) \in Nat /\ \A i \in 1..Len(servers) : servers[i] \in Items /\ servers[i].id \in Servers
      <3>1. \A x \in Items : x.id \in Servers
        BY DEF Items
      <3>2. Len(servers) \in Nat /\ \A i \in 1..Len(servers) : servers[i] \in Items
        BY <2>1
      <3>3. QED
        BY <3>1, <3>2
    <2>5. ASSUME Quiet PROVE Listed(servers) = member
      BY <2>1, <2>3, <2>4, <2>5 DEF Listed, Has, Elements
    <2>6. ASSUME Quiet, NEW i \in 1..Len(servers)
          PROVE  servers[i].version = serverVersion[servers[i].id]
      BY <2>3, <2>4, <2>6 DEF InVersion, Elements
    <2>7. QED
      BY <2>2, <2>5, <2>6 DEF ServersAgree
  <1>2. QED
    BY <1>1, Invariance, PTL
-----------------------------------------------------------------------------
(* The other parts of the client are well formed, and the user is shown      *)
(* where the last own state was.                                             *)

Bounds == /\ drops \in 0..MaxDrops /\ changes \in 0..MaxChanges /\ deleted \subseteq Channels
          /\ \A s \in Servers : serverVersion[s] \in 1..(changes + 1)
          /\ \A c \in Channels : channel[c] \in 0..changes

ChannelItems(s) == [id : {c \in Channels : ServerOf[c] = s}, version : Nat]

ChannelShape == /\ DOMAIN channels \subseteq Servers
                /\ \A s \in DOMAIN channels : channels[s] \in Seq(ChannelItems(s))
                /\ failed \subseteq DOMAIN channels /\ missed \subseteq Servers

VoiceShape == /\ VoiceTypeOK
              /\ connected => context # None
              /\ mine # None => mine \in DOMAIN states /\ Lists(states[mine], me)

\* Each step changes one version by one at most, and counts.
LEMMA Bounded ==
  ASSUME IInv, Bounds, [Next]_vars
  PROVE  Bounds'
  <1> USE DiscordAssumption
  <1>1. /\ serverVersion \in [Servers -> Nat] /\ channel \in [Channels -> Nat] /\ drops \in Nat /\ changes \in Nat
    BY DEF IInv, Types, Bounds
  <1>2. ASSUME UNCHANGED <<drops, changes, deleted, serverVersion, channel>> PROVE Bounds'
    BY <1>2 DEF Bounds
  <1>3. ASSUME Change, UNCHANGED <<drops, deleted, serverVersion, channel>> PROVE Bounds'
    BY <1>1, <1>3 DEF Bounds, Change
  <1>4. CASE DiscordStep
    <2>1. ASSUME NEW s \in Servers, JoinServer(s) \/ LeaveServer(s) PROVE Bounds'
      BY <1>3, <2>1 DEF JoinServer, LeaveServer, Send
    <2>2. ASSUME NEW s \in Servers, EditServer(s) PROVE Bounds'
      <3>1. /\ UNCHANGED <<drops, channel, deleted>> /\ changes' = changes + 1 /\ changes' \in 0..MaxChanges
            /\ serverVersion' = [serverVersion EXCEPT ![s] = @ + 1]
        BY <1>1, <2>2 DEF EditServer, Change, Tell, Send, gatewayVars
      <3>2. ASSUME NEW t \in Servers PROVE serverVersion'[t] \in 1..(changes' + 1)
        <4>1. serverVersion'[t] = IF t = s THEN serverVersion[t] + 1 ELSE serverVersion[t]
          BY <1>1, <3>1
        <4>2. serverVersion[t] \in 1..(changes + 1)
          BY DEF Bounds
        <4>3. QED
          BY <1>1, <3>1, <4>1, <4>2
      <3>3. \A c \in Channels : channel'[c] \in 0..changes'
        BY <1>1, <3>1 DEF Bounds
      <3>4. QED
        BY <3>1, <3>2, <3>3 DEF Bounds
    <2>3. ASSUME NEW u \in Users, NEW c \in VoiceChannels \cup {None}, Move(u, c) PROVE Bounds'
      <3>1. Change /\ UNCHANGED <<drops, deleted, serverVersion, channel>>
        BY <2>3 DEF Move, Tell, Send, gatewayVars
      <3>2. QED
        BY <1>3, <3>1
    <2>4. ASSUME NEW c \in Channels, NEW k, ChangeChannel(c, k) PROVE Bounds'
      <3>1. /\ UNCHANGED <<drops, serverVersion>> /\ changes' = changes + 1 /\ changes' \in 0..MaxChanges
            /\ channel' = [channel EXCEPT ![c] = @ + 1] /\ deleted' \subseteq Channels
        BY <1>1, <2>4 DEF ChangeChannel, Change, Tell, Send, gatewayVars, Bounds
      <3>2. ASSUME NEW d \in Channels PROVE channel'[d] \in 0..changes'
        <4>1. channel'[d] = IF d = c THEN channel[d] + 1 ELSE channel[d]
          BY <1>1, <3>1
        <4>2. channel[d] \in 0..changes
          BY DEF Bounds
        <4>3. QED
          BY <1>1, <3>1, <4>1, <4>2
      <3>3. \A s \in Servers : serverVersion'[s] \in 1..(changes' + 1)
        BY <1>1, <3>1 DEF Bounds
      <3>4. QED
        BY <3>1, <3>2, <3>3 DEF Bounds
    <2>5. QED
      BY <1>4, <2>1, <2>2, <2>3, <2>4 DEF DiscordStep
  <1>5. CASE Handle
    <2>1. Receive /\ UNCHANGED discordVars
      BY <1>5 DEF Handle, OnReady, OnResumed, OnServer, OnEditServer, OnDeleteServer, OnChannel,
                  OnEditChannel, OnDeleteChannel, OnEditVoiceState, OnVoiceServer, Receiving
    <2>2. QED
      BY <1>2, <2>1 DEF Receive, discordVars
  <1>6. CASE Request
    <2>1. ASSUME NEW c, Enter(c) PROVE Bounds'
      BY <1>3, <2>1 DEF Enter
    <2>2. ASSUME UNCHANGED <<gatewayVars, discordVars>> PROVE Bounds'
      BY <1>2, <2>2 DEF gatewayVars, discordVars
    <2>3. QED
      BY <1>6, <2>1, <2>2 DEF Request
  <1>7. CASE Connection
    <2>1. CASE Drop /\ UNCHANGED discordVars
      BY <1>1, <2>1 DEF Drop, discordVars, Bounds
    <2>2. CASE Reconnect
      BY <1>2, <2>2 DEF Reconnect, Resume, Identify, discordVars
    <2>3. CASE UNCHANGED <<gatewayVars, discordVars>>
      BY <1>2, <2>3 DEF gatewayVars, discordVars
    <2>4. QED
      BY <1>7, <2>1, <2>2, <2>3 DEF Connection
  <1>8. CASE UNCHANGED vars
    BY <1>2, <1>8 DEF vars, gatewayVars, discordVars
  <1>9. QED
    BY <1>4, <1>5, <1>6, <1>7, <1>8 DEF Next

\* Replacing an entry leaves a list of entries, with or without repeated ids.
LEMMA ReplacingShape ==
  ASSUME NEW Item, NEW list \in Seq(Item), NEW e \in Item
  PROVE  Replaced(list, e) \in Seq(Item)
  <1> DEFINE k == Index(list, e.id)
             r == [list EXCEPT ![k] = e]
  <1>1. Len(list) \in Nat /\ list \in [1..Len(list) -> Item]
    OBVIOUS
  <1> HIDE DEF k
  <1>2. r \in [1..Len(list) -> Item]
    BY <1>1
  <1> HIDE DEF r
  <1>3. r \in Seq(Item)
    BY <1>1, <1>2
  <1>4. QED
    BY <1>3 DEF Replaced, r, k

\* Whatever the request answers, what is cached of it are channels of the server.
LEMMA Filling ==
  ASSUME IInv, ChannelShape, NEW s \in Servers, FillChannels(s)
  PROVE  ChannelShape'
  <1> USE DiscordAssumption
  <1>1. PICK ok \in BOOLEAN :
            /\ SetChannels(s, Fetched(s, ok))
            /\ failed' \subseteq failed \cup {s} /\ missed' \subseteq missed
    BY DEF FillChannels, Answers
  <1>2. Fetched(s, ok) \in Seq(ChannelItems(s))
    <2> DEFINE n == Cardinality(Live(s))
               f == SetToSeq(Live(s))
    <2>1. Live(s) \subseteq {c \in Channels : ServerOf[c] = s}
      BY DEF Live
    <2>2. n \in Nat /\ f \in [1..n -> Live(s)]
      BY <2>1, FS_Subset, Numbering
    <2>3. ok => Fetched(s, ok) = [i \in 1..n |-> [id |-> f[i], version |-> channel[f[i]]]]
      BY DEF Fetched
    <2> HIDE DEF n, f
    <2>4. CASE ok
      <3> DEFINE g == [i \in 1..n |-> [id |-> f[i], version |-> channel[f[i]]]]
      <3>1. ASSUME NEW i \in 1..n PROVE g[i] \in ChannelItems(s)
        <4>1. f[i] \in {c \in Channels : ServerOf[c] = s} /\ channel[f[i]] \in Nat
          BY <2>1, <2>2 DEF IInv, Types
        <4>2. QED
          BY <4>1 DEF ChannelItems
      <3>2. g = [i \in 1..n |-> g[i]]
        OBVIOUS
      <3> HIDE DEF g
      <3>3. g \in Seq(ChannelItems(s))
        BY <2>2, <3>1, <3>2
      <3>4. QED
        BY <2>3, <2>4, <3>3 DEF g
    <2>5. CASE ~ok
      BY <2>5 DEF Fetched
    <2>6. QED
      BY <2>4, <2>5
  <1>3. channels' = [t \in DOMAIN channels \cup {s} |-> IF t = s THEN Fetched(s, ok) ELSE channels[t]]
    BY <1>1 DEF SetChannels
  <1>4. DOMAIN channels' = DOMAIN channels \cup {s}
    BY <1>3
  <1>5. ASSUME NEW t \in DOMAIN channels' PROVE channels'[t] \in Seq(ChannelItems(t))
    BY <1>2, <1>3, <1>4 DEF ChannelShape
  <1>6. QED
    BY <1>1, <1>4, <1>5 DEF ChannelShape

\* An event about a channel leaves its server's list a list of its channels.
LEMMA Updating ==
  ASSUME IInv, ChannelShape, NEW s \in Servers, NEW list, UpdateChannels(s, list),
         s \in DOMAIN channels => list \in Seq(ChannelItems(s))
  PROVE  ChannelShape'
  <1>1. CASE s \in DOMAIN channels
    <2>1. /\ channels' = [t \in DOMAIN channels \cup {s} |-> IF t = s THEN list ELSE channels[t]]
          /\ UNCHANGED <<failed, missed>>
      BY <1>1 DEF UpdateChannels, SetChannels
    <2>2. DOMAIN channels' = DOMAIN channels
      BY <1>1, <2>1
    <2>3. ASSUME NEW t \in DOMAIN channels' PROVE channels'[t] \in Seq(ChannelItems(t))
      BY <1>1, <2>1, <2>2 DEF ChannelShape
    <2>4. QED
      BY <2>1, <2>2, <2>3 DEF ChannelShape
  <1>2. CASE s \notin DOMAIN channels
    BY <1>2, Filling DEF UpdateChannels
  <1>3. QED
    BY <1>1, <1>2

\* So every step keeps the channel lists lists of their server's channels.
LEMMA ChannelsShaped ==
  ASSUME IInv, ChannelShape, [Next]_vars
  PROVE  ChannelShape'
  <1> USE DiscordAssumption
  <1>1. ASSUME UNCHANGED <<channels, failed>>, missed' \subseteq Servers PROVE ChannelShape'
    BY <1>1 DEF ChannelShape
  <1>2. ASSUME UNCHANGED <<channels, failed, missed>> PROVE ChannelShape'
    BY <1>2 DEF ChannelShape
  <1>3. ASSUME channels' = NoChannels, failed' = {}, UNCHANGED missed PROVE ChannelShape'
    BY <1>3 DEF ChannelShape, NoChannels
  <1>4. CASE DiscordStep
    <2>1. ASSUME NEW c \in Channels, Miss(ServerOf[c]) PROVE ChannelShape'
      <3>1. UNCHANGED <<channels, failed>> /\ missed' \subseteq Servers
        BY <2>1 DEF Miss, ChannelShape
      <3>2. QED
        BY <1>1, <3>1
    <2>2. ASSUME UNCHANGED cacheVars PROVE ChannelShape'
      BY <1>2, <2>2 DEF cacheVars
    <2>3. QED
      BY <1>4, <2>1, <2>2 DEF DiscordStep
  <1>5. CASE Handle
    <2>1. ASSUME Receive, Event.kind \in {"CHANNEL_CREATE", "CHANNEL_UPDATE", "CHANNEL_DELETE"}
          PROVE  LET s == ServerOf[Event.id]
                 IN /\ s \in Servers
                    /\ Event.kind # "CHANNEL_DELETE" => Entry \in ChannelItems(s)
                    /\ s \in DOMAIN channels => Cached(s) \in Seq(ChannelItems(s))
      <3>1. Event \in Events
        BY <2>1, HeadTailProperties DEF Receive, Event, IInv, InboxShape
      <3>2. Event.id \in Channels /\ Event.version \in Nat
        BY <2>1, <3>1 DEF Events
      <3>3. QED
        BY <3>2 DEF Entry, ChannelItems, Cached, ChannelShape
    <2>2. CASE OnReady \/ OnResumed
      BY <1>3, <2>2 DEF OnReady, OnResumed, CacheReady, CacheResumed
    <2>3. CASE OnServer \/ OnEditServer \/ OnDeleteServer \/ OnEditVoiceState \/ OnVoiceServer
      BY <1>2, <2>3 DEF OnServer, OnEditServer, OnDeleteServer, OnEditVoiceState, OnVoiceServer,
                        CacheServer, CacheEditServer, CacheDeleteServer, cacheVars
    <2>4. CASE OnChannel
      <3> DEFINE s == ServerOf[Event.id]
      <3>1. Receive /\ Event.kind = "CHANNEL_CREATE" /\ UpdateChannels(s, Append(Cached(s), Entry))
        BY <2>4 DEF OnChannel, Receiving, CacheChannel
      <3>2. /\ s \in Servers /\ Entry \in ChannelItems(s)
            /\ s \in DOMAIN channels => Cached(s) \in Seq(ChannelItems(s))
        BY <2>1, <3>1
      <3> HIDE DEF s
      <3>3. s \in DOMAIN channels => Append(Cached(s), Entry) \in Seq(ChannelItems(s))
        BY <3>2, AppendProperties
      <3>4. QED
        BY <3>1, <3>2, <3>3, Updating
    <2>5. CASE OnEditChannel
      <3> DEFINE s == ServerOf[Event.id]
      <3>1. Receive /\ Event.kind = "CHANNEL_UPDATE" /\ UpdateChannels(s, Replaced(Cached(s), Entry))
        BY <2>5 DEF OnEditChannel, Receiving, CacheEditChannel
      <3>2. /\ s \in Servers /\ Entry \in ChannelItems(s)
            /\ s \in DOMAIN channels => Cached(s) \in Seq(ChannelItems(s))
        BY <2>1, <3>1
      <3> HIDE DEF s
      <3>3. s \in DOMAIN channels => Replaced(Cached(s), Entry) \in Seq(ChannelItems(s))
        BY <3>2, ReplacingShape
      <3>4. QED
        BY <3>1, <3>2, <3>3, Updating
    <2>6. CASE OnDeleteChannel
      <3> DEFINE s == ServerOf[Event.id]
      <3>1. Receive /\ Event.kind = "CHANNEL_DELETE" /\ UpdateChannels(s, Without(Cached(s), Event.id))
        BY <2>6 DEF OnDeleteChannel, Receiving, CacheDeleteChannel
      <3>2. s \in Servers /\ (s \in DOMAIN channels => Cached(s) \in Seq(ChannelItems(s)))
        BY <2>1, <3>1
      <3> HIDE DEF s
      <3>3. s \in DOMAIN channels => Without(Cached(s), Event.id) \in Seq(ChannelItems(s))
        BY <3>2, Erasing
      <3>4. QED
        BY <3>1, <3>2, <3>3, Updating
    <2>7. QED
      BY <1>5, <2>2, <2>3, <2>4, <2>5, <2>6 DEF Handle
  <1>6. CASE Request
    <2>1. ASSUME NEW s \in Servers, GetCachedChannels(s) PROVE ChannelShape'
      BY <2>1, Filling DEF GetCachedChannels
    <2>2. ASSUME UNCHANGED cacheVars PROVE ChannelShape'
      BY <1>2, <2>2 DEF cacheVars
    <2>3. QED
      BY <1>6, <2>1, <2>2 DEF Request
  <1>7. CASE Connection
    BY <1>2, <1>7 DEF Connection, cacheVars
  <1>8. CASE UNCHANGED vars
    BY <1>2, <1>8 DEF vars, cacheVars
  <1>9. QED
    BY <1>4, <1>5, <1>6, <1>7, <1>8 DEF Next

\* Who is in which channel: no channel is kept without a user.
Rolls(m) == DOMAIN m \subseteq VoiceChannels /\ \A c \in DOMAIN m : m[c] \in Seq(Users) /\ m[c] # <<>>

\* Without one entry all others are listed.
LEMMA Removed ==
  ASSUME NEW S, NEW q \in Seq(S), NEW i \in 1..Len(q)
  PROVE  /\ RemoveAt(q, i) \in Seq(S)
         /\ \A k \in 1..Len(q) : k # i => Lists(RemoveAt(q, i), q[k])
  <1> DEFINE a == SubSeq(q, 1, i - 1)
             b == SubSeq(q, i + 1, Len(q))
             r == RemoveAt(q, i)
  <1>1. a \in Seq(S) /\ Len(a) = i - 1 /\ \A j \in 1..(i - 1) : a[j] = q[j]
    OBVIOUS
  <1>2. b \in Seq(S) /\ Len(b) = Len(q) - i /\ \A j \in 1..(Len(q) - i) : b[j] = q[i + j]
    OBVIOUS
  <1>3. r = a \o b
    BY DEF RemoveAt
  <1>4. Len(q) \in Nat
    OBVIOUS
  <1> HIDE DEF a, b, r
  <1>5. /\ r \in Seq(S) /\ Len(r) = Len(a) + Len(b)
        /\ \A j \in 1..(Len(a) + Len(b)) : r[j] = IF j <= Len(a) THEN a[j] ELSE b[j - Len(a)]
    BY <1>1, <1>2, <1>3, ConcatProperties
  <1>6. ASSUME NEW k \in 1..Len(q), k # i PROVE Lists(r, q[k])
    <2>1. CASE k < i
      <3>1. k \in 1..(i - 1) /\ k \in 1..(Len(a) + Len(b)) /\ k <= Len(a)
        BY <1>1, <1>2, <1>4, <2>1
      <3>2. r[k] = q[k]
        BY <1>1, <1>5, <3>1
      <3>3. QED
        BY <1>5, <3>1, <3>2 DEF Lists
    <2>2. CASE k > i
      <3>1. /\ k - 1 \in 1..(Len(a) + Len(b)) /\ ~(k - 1 <= Len(a))
            /\ (k - 1) - Len(a) \in 1..(Len(q) - i) /\ i + ((k - 1) - Len(a)) = k
        BY <1>1, <1>2, <1>4, <2>2
      <3>2. r[k - 1] = q[k]
        BY <1>2, <1>5, <3>1
      <3>3. QED
        BY <1>5, <3>1, <3>2 DEF Lists
    <2>3. QED
      BY <1>6, <2>1, <2>2
  <1>7. QED
    BY <1>5, <1>6 DEF r

\* Entering lists the user and leaves all others listed.
LEMMA Entering ==
  ASSUME NEW m, Rolls(m), NEW u \in Users, NEW c \in VoiceChannels
  PROVE  /\ Rolls(Entered(m, u, c))
         /\ c \in DOMAIN Entered(m, u, c) /\ Lists(Entered(m, u, c)[c], u)
         /\ \A d \in DOMAIN m : \A v : Lists(m[d], v) =>
                d \in DOMAIN Entered(m, u, c) /\ Lists(Entered(m, u, c)[d], v)
  <1> DEFINE old == IF c \in DOMAIN m THEN m[c] ELSE <<>>
             new == Append(old, u)
             e == Entered(m, u, c)
  <1>1. e = [d \in DOMAIN m \cup {c} |-> IF d # c THEN m[d] ELSE new]
    BY DEF Entered
  <1>2. old \in Seq(Users)
    BY DEF Rolls
  <1> HIDE DEF old
  <1>3. /\ new \in Seq(Users) /\ new # <<>> /\ Len(new) = Len(old) + 1 /\ Len(old) \in Nat
        /\ new[Len(old) + 1] = u /\ \A i \in 1..Len(old) : new[i] = old[i]
    BY <1>2, AppendProperties
  <1> HIDE DEF new, e
  <1>4. Lists(new, u)
    BY <1>3 DEF Lists
  <1>5. \A v : Lists(old, v) => Lists(new, v)
    BY <1>3 DEF Lists
  <1>6. DOMAIN e = DOMAIN m \cup {c} /\ \A d \in DOMAIN e : e[d] = IF d # c THEN m[d] ELSE new
    BY <1>1
  <1>7. Rolls(e)
    BY <1>3, <1>6 DEF Rolls
  <1>8. ASSUME NEW d \in DOMAIN m, NEW v, Lists(m[d], v) PROVE d \in DOMAIN e /\ Lists(e[d], v)
    BY <1>5, <1>6, <1>8 DEF old
  <1>9. QED
    BY <1>4, <1>6, <1>7, <1>8 DEF e

\* Leaving leaves everybody else listed.
LEMMA Leaving ==
  ASSUME NEW m, Rolls(m), NEW u
  PROVE  /\ Rolls(Left(m, u))
         /\ \A d \in DOMAIN m : \A v : v # u /\ Lists(m[d], v) =>
                d \in DOMAIN Left(m, u) /\ Lists(Left(m, u)[d], v)
  <1> USE DiscordAssumption
  <1> DEFINE of == {c \in DOMAIN m : Lists(m[c], u)}
             c == CHOOSE d \in of : \A e \in of : d <= e
             Where == {k \in 1..Len(m[c]) : m[c][k] = u}
             i == CHOOSE k \in 1..Len(m[c]) : m[c][k] = u /\ \A j \in 1..(k - 1) : m[c][j] # u
             rest == RemoveAt(m[c], i)
             l == [d \in DOMAIN m \ (IF rest = <<>> THEN {c} ELSE {}) |-> IF d = c THEN rest ELSE m[d]]
  <1>1. Left(m, u) = IF of = {} THEN m ELSE l
    BY DEF Left
  <1>2. CASE of = {}
    BY <1>1, <1>2
  <1>3. CASE of # {}
    <2>1. of \in SUBSET Nat
      BY DEF Rolls
    <2>2. c \in of
      <3>1. \E d \in of : \A e \in of : d <= e
        BY <1>3, <2>1, Least
      <3>2. QED
        BY <3>1
    <2> HIDE DEF c
    <2>3. /\ c \in DOMAIN m /\ m[c] \in Seq(Users) /\ Len(m[c]) \in Nat
          /\ Where # {} /\ Where \in SUBSET Nat
      BY <2>2 DEF Rolls, Lists
    <2>4. i \in 1..Len(m[c]) /\ m[c][i] = u
      <3>1. PICK k \in Where : \A j \in Where : k <= j
        BY <2>3, Least
      <3>2. \A j \in 1..(k - 1) : m[c][j] # u
        BY <2>3, <3>1
      <3>3. QED
        BY <3>1, <3>2
    <2> HIDE DEF i
    <2>5. rest \in Seq(Users) /\ \A k \in 1..Len(m[c]) : k # i => Lists(rest, m[c][k])
      BY <2>3, <2>4, Removed
    <2> HIDE DEF rest
    <2>6. /\ DOMAIN l = DOMAIN m \ (IF rest = <<>> THEN {c} ELSE {})
          /\ \A d \in DOMAIN l : l[d] = IF d = c THEN rest ELSE m[d]
      OBVIOUS
    <2> HIDE DEF l
    <2>7. Rolls(l)
      BY <2>3, <2>5, <2>6 DEF Rolls
    <2>8. ASSUME NEW d \in DOMAIN m, NEW v, v # u, Lists(m[d], v) PROVE d \in DOMAIN l /\ Lists(l[d], v)
      <3>1. CASE d # c
        BY <2>6, <2>8, <3>1
      <3>2. CASE d = c
        <4>1. PICK k \in 1..Len(m[c]) : m[c][k] = v
          BY <2>8, <3>2 DEF Lists
        <4>2. Lists(rest, v)
          BY <2>4, <2>5, <2>8, <4>1
        <4>3. rest # <<>>
          BY <4>2 DEF Lists
        <4>4. QED
          BY <2>3, <2>6, <3>2, <4>2, <4>3
      <3>3. QED
        BY <3>1, <3>2
    <2>9. QED
      BY <1>1, <1>3, <2>7, <2>8
  <1>4. QED
    BY <1>2, <1>3

\* The states once a GUILD_CREATE listed the users `named` where `at` says.
Joined(m, named, at) == [c \in DOMAIN m \cup {at[u] : u \in named} |->
                            (IF c \in DOMAIN m THEN m[c] ELSE <<>>) \o SetToSeq({u \in named : at[u] = c})]

\* They are listed behind those already listed.
LEMMA Listing ==
  ASSUME NEW m, Rolls(m), NEW named \in SUBSET Users, NEW at \in [named -> VoiceChannels]
  PROVE  /\ Rolls(Joined(m, named, at))
         /\ \A c \in DOMAIN m : \A v : Lists(m[c], v) =>
                c \in DOMAIN Joined(m, named, at) /\ Lists(Joined(m, named, at)[c], v)
  <1> USE DiscordAssumption
  <1> DEFINE old(c) == IF c \in DOMAIN m THEN m[c] ELSE <<>>
             more(c) == SetToSeq({u \in named : at[u] = c})
             n == Joined(m, named, at)
  <1>1. DOMAIN n = DOMAIN m \cup {at[u] : u \in named} /\ \A c \in DOMAIN n : n[c] = old(c) \o more(c)
    BY DEF Joined
  <1> HIDE DEF n
  <1>2. DOMAIN n \subseteq VoiceChannels
    BY <1>1 DEF Rolls
  <1>3. ASSUME NEW c \in DOMAIN n
        PROVE  /\ old(c) \in Seq(Users) /\ more(c) \in Seq(Users)
               /\ c \notin DOMAIN m => Len(more(c)) # 0
               /\ c \in DOMAIN m => old(c) = m[c] /\ m[c] # <<>>
    <2> DEFINE T == {u \in named : at[u] = c}
    <2>1. T \in SUBSET Users /\ IsFiniteSet(T)
      BY FS_Subset
    <2>2. c \notin DOMAIN m => T # {}
      BY <1>1
    <2> HIDE DEF T
    <2>3. /\ Cardinality(T) \in Nat /\ SetToSeq(T) \in [1..Cardinality(T) -> T]
          /\ \A x \in T : \E i \in 1..Cardinality(T) : SetToSeq(T)[i] = x
      BY <2>1, Numbering
    <2> DEFINE f == SetToSeq(T)
               k == Cardinality(T)
    <2> HIDE DEF f, k
    <2>4. /\ k \in Nat /\ f \in [1..k -> Users] /\ (T # {} => k # 0)
      BY <2>1, <2>3 DEF f, k
    <2>5. f \in Seq(Users) /\ Len(f) = k
      BY <2>4
    <2>6. more(c) = f
      BY DEF f, T
    <2> HIDE DEF more
    <2>7. old(c) \in Seq(Users) /\ (c \in DOMAIN m => old(c) = m[c] /\ m[c] # <<>>)
      BY DEF Rolls
    <2> HIDE DEF old
    <2>8. QED
      BY <2>2, <2>4, <2>5, <2>6, <2>7
  <1> HIDE DEF old, more
  <1>4. ASSUME NEW c \in DOMAIN n
        PROVE  /\ n[c] \in Seq(Users) /\ n[c] # <<>>
               /\ \A v : Lists(old(c), v) => Lists(n[c], v)
    <2> DEFINE a == old(c)
               b == more(c)
               r == n[c]
    <2>1. /\ a \in Seq(Users) /\ b \in Seq(Users) /\ r = a \o b
          /\ c \notin DOMAIN m => Len(b) # 0
          /\ c \in DOMAIN m => a # <<>>
      BY <1>1, <1>3
    <2> HIDE DEF a, b, r
    <2>2. /\ r \in Seq(Users) /\ Len(r) = Len(a) + Len(b)
          /\ \A i \in 1..(Len(a) + Len(b)) : r[i] = IF i <= Len(a) THEN a[i] ELSE b[i - Len(a)]
      BY <2>1, ConcatProperties
    <2>3. Len(a) \in Nat /\ Len(b) \in Nat /\ (a # <<>> => Len(a) # 0)
      BY <2>1
    <2>4. Len(r) # 0 /\ r # <<>>
      BY <2>1, <2>2, <2>3
    <2>5. \A i \in 1..Len(a) : i \in 1..Len(r) /\ r[i] = a[i]
      BY <2>2, <2>3
    <2>6. \A v : Lists(a, v) => Lists(r, v)
      BY <2>5 DEF Lists
    <2>7. QED
      BY <2>2, <2>4, <2>6 DEF a, r
  <1>5. ASSUME NEW c \in DOMAIN m, NEW v, Lists(m[c], v) PROVE c \in DOMAIN n /\ Lists(n[c], v)
    <2>1. c \in DOMAIN n
      BY <1>1
    <2>2. QED
      BY <1>3, <1>4, <1>5, <2>1
  <1>6. QED
    BY <1>2, <1>4, <1>5 DEF Rolls, n

\* So whoever is listed stays listed until an own state moves them.
LEMMA VoiceShaped ==
  ASSUME IInv, VoiceShape, [Next]_vars
  PROVE  VoiceShape'
  <1> USE DiscordAssumption
  <1>1. Rolls(states) /\ None \notin VoiceChannels
    BY DEF VoiceShape, VoiceTypeOK, Rolls, None
  \* What becomes of the states is told apart from the rest.
  <1>2. ASSUME Rolls(states'),
               mine' # None => mine' \in DOMAIN states' /\ Lists(states'[mine'], me),
               connected' \in BOOLEAN, context' \in VoiceChannels \cup {None},
               pending' \subseteq VoiceChannels,
               unnamed' \subseteq Users, outage' \in BOOLEAN, mine' \in VoiceChannels \cup {None},
               connected' => context' # None
        PROVE  VoiceShape'
    BY <1>2 DEF VoiceShape, VoiceTypeOK, Rolls
  <1>3. ASSUME UNCHANGED <<states, unnamed, outage, mine>>,
               connected' \in BOOLEAN, context' \in VoiceChannels \cup {None},
               pending' \subseteq VoiceChannels,
               connected' => context' # None
        PROVE  VoiceShape'
    BY <1>1, <1>2, <1>3 DEF VoiceShape, VoiceTypeOK
  <1>4. ASSUME UNCHANGED voiceVars PROVE VoiceShape'
    BY <1>3, <1>4 DEF voiceVars, callVars, VoiceShape, VoiceTypeOK
  <1>5. CASE Handle
    <2>1. Receive
      BY <1>5 DEF Handle, OnReady, OnResumed, OnServer, OnEditServer, OnDeleteServer, OnChannel,
                  OnEditChannel, OnDeleteChannel, OnEditVoiceState, OnVoiceServer, Receiving
    <2>2. Event \in Events
      BY <2>1, HeadTailProperties DEF Receive, Event, IInv, InboxShape
    <2>3. CASE OnReady
      <3>1. VoiceOnReady
        BY <2>3 DEF OnReady
      <3>2. Rolls(states')
        BY <3>1 DEF VoiceOnReady, NoStates, Rolls
      <3>3. QED
        BY <1>2, <3>1, <3>2 DEF VoiceOnReady, VoiceShape, VoiceTypeOK
    <2>4. CASE OnResumed
      BY <1>3, <2>4 DEF OnResumed, VoiceOnResumed, VoiceShape, VoiceTypeOK
    <2>5. CASE OnServer
      <3>1. Event.kind = "GUILD_CREATE" /\ VoiceOnServer
        BY <2>5 DEF OnServer, Receiving
      <3>2. PICK present \in SUBSET Users : Event.voice \in [present -> VoiceChannels]
        BY <2>2, <3>1 DEF Events
      <3> DEFINE at == Event.voice
      <3>3. PICK named \in SUBSET DOMAIN at :
                /\ states' = [c \in DOMAIN states \cup {at[u] : u \in named} |->
                                (IF c \in DOMAIN states THEN states[c] ELSE <<>>)
                                \o SetToSeq({u \in named : at[u] = c})]
                /\ unnamed' = (unnamed \ named) \cup (DOMAIN at \ named)
        BY <3>1 DEF VoiceOnServer
      <3> DEFINE g == [u \in named |-> at[u]]
      <3>4. at \in [present -> VoiceChannels] /\ named \in SUBSET Users /\ g \in [named -> VoiceChannels]
            /\ \A u \in named : g[u] = at[u]
        BY <3>2, <3>3
      <3> HIDE DEF at, g
      <3>5. states' = Joined(states, named, g)
        <4>1. {g[u] : u \in named} = {at[u] : u \in named}
          BY <3>4
        <4>2. \A c : {u \in named : g[u] = c} = {u \in named : at[u] = c}
          BY <3>4
        <4>3. QED
          BY <3>3, <4>1, <4>2 DEF Joined
      <3>6. /\ Rolls(states')
            /\ \A c \in DOMAIN states : \A v : Lists(states[c], v) => c \in DOMAIN states' /\ Lists(states'[c], v)
        BY <1>1, <3>4, <3>5, Listing
      <3>7. unnamed' \subseteq Users
        BY <3>3, <3>4 DEF VoiceShape, VoiceTypeOK
      <3>8. UNCHANGED <<callVars, outage, mine>>
        BY <3>1 DEF VoiceOnServer
      <3>9. QED
        BY <1>2, <3>6, <3>7, <3>8 DEF callVars, VoiceShape, VoiceTypeOK
    <2>6. CASE OnDeleteServer
      BY <1>1, <1>2, <2>6 DEF OnDeleteServer, VoiceOnDeleteServer, callVars, VoiceShape, VoiceTypeOK
    <2>7. CASE OnEditVoiceState
      <3> DEFINE u == Event.user
                 c == Event.channel
      <3>1. Event.kind = "VOICE_STATE_UPDATE" /\ VoiceOnEditVoiceState
        BY <2>7 DEF OnEditVoiceState, Receiving
      <3>2. u \in Users /\ c \in VoiceChannels \cup {None}
        BY <2>2, <3>1 DEF Events
      <3>3. /\ states' = Moved(states, u, c) /\ unnamed' = unnamed \ {u}
            /\ mine' = IF u = me THEN c ELSE mine
            /\ UNCHANGED <<callVars, outage>>
        BY <3>1 DEF VoiceOnEditVoiceState
      <3> HIDE DEF u, c
      <3>4. /\ Rolls(Left(states, u))
            /\ \A d \in DOMAIN states : \A v : v # u /\ Lists(states[d], v) =>
                   d \in DOMAIN Left(states, u) /\ Lists(Left(states, u)[d], v)
        BY <1>1, Leaving
      <3>5. c # None => /\ Rolls(Entered(Left(states, u), u, c))
                        /\ c \in DOMAIN Entered(Left(states, u), u, c)
                        /\ Lists(Entered(Left(states, u), u, c)[c], u)
                        /\ \A d \in DOMAIN Left(states, u) : \A v : Lists(Left(states, u)[d], v) =>
                               /\ d \in DOMAIN Entered(Left(states, u), u, c)
                               /\ Lists(Entered(Left(states, u), u, c)[d], v)
        BY <3>2, <3>4, Entering
      <3>6. Rolls(states')
        BY <3>3, <3>4, <3>5 DEF Moved
      <3>7. mine' # None => mine' \in DOMAIN states' /\ Lists(states'[mine'], me)
        <4>1. CASE u = me
          BY <3>3, <3>5, <4>1 DEF Moved
        <4>2. CASE u # me
          BY <3>3, <3>4, <3>5, <4>2 DEF Moved, VoiceShape
        <4>3. QED
          BY <4>1, <4>2
      <3>8. QED
        BY <1>2, <3>2, <3>3, <3>6, <3>7 DEF callVars, VoiceShape, VoiceTypeOK
    <2>8. CASE OnVoiceServer
      <3>1. Event.kind = "VOICE_SERVER_UPDATE" /\ VoiceOnVoiceServer
        BY <2>8 DEF OnVoiceServer, Receiving
      <3>2. Event.channel \in VoiceChannels
        BY <2>2, <3>1 DEF Events
      <3>3. QED
        BY <1>3, <3>1, <3>2 DEF VoiceOnVoiceServer, VoiceShape, VoiceTypeOK
    <2>9. CASE OnEditServer \/ OnChannel \/ OnEditChannel \/ OnDeleteChannel
      BY <1>4, <2>9 DEF OnEditServer, OnChannel, OnEditChannel, OnDeleteChannel
    <2>10. QED
      BY <1>5, <2>3, <2>4, <2>5, <2>6, <2>7, <2>8, <2>9 DEF Handle
  <1>6. CASE Request
    <2>1. CASE JoinVoiceChannel
      BY <1>3, <2>1 DEF JoinVoiceChannel, VoiceShape, VoiceTypeOK
    <2>2. CASE DisconnectVoiceChannel
      BY <1>3, <2>2 DEF DisconnectVoiceChannel, VoiceShape, VoiceTypeOK
    <2>3. QED
      BY <1>4, <1>6, <2>1, <2>2 DEF Request
  <1>7. CASE Connection
    <2>1. CASE VoiceOnDisconnect
      BY <1>3, <2>1 DEF VoiceOnDisconnect, VoiceShape, VoiceTypeOK
    <2>2. ASSUME NEW c \in VoiceChannels, VoiceReady(c) PROVE VoiceShape'
      BY <1>1, <1>3, <2>2 DEF VoiceReady, VoiceShape, VoiceTypeOK
    <2>3. QED
      BY <1>4, <1>7, <2>1, <2>2 DEF Connection
  <1>8. CASE DiscordStep
    BY <1>4, <1>8 DEF DiscordStep
  <1>9. CASE UNCHANGED vars
    BY <1>4, <1>9 DEF vars
  <1>10. QED
    BY <1>5, <1>6, <1>7, <1>8, <1>9 DEF Next

Shapes == Bounds /\ ChannelShape /\ VoiceShape

\* All three hold, beside the invariant.
LEMMA ShapesKept == Spec => []Shapes
  <1>1. ASSUME Init PROVE Shapes
    <2>1. Bounds
      BY <1>1, DiscordAssumption DEF Init, DiscordInit, GatewayInit, Bounds
    <2>2. ChannelShape
      BY <1>1 DEF Init, CacheInit, NoChannels, ChannelShape
    <2>3. VoiceShape
      BY <1>1 DEF Init, VoiceInit, NoStates, VoiceShape, VoiceTypeOK
    <2>4. QED
      BY <2>1, <2>2, <2>3 DEF Shapes
  <1>2. IInv /\ Shapes /\ [Next]_vars => Shapes'
    BY Bounded, ChannelsShaped, VoiceShaped DEF Shapes
  <1>3. QED
    BY <1>1, <1>2, Invariance, PTL DEF Spec

\* Every reachable state is well typed: each list names what its owner holds,
\* a cached list only channels of its server, and no voice channel is kept
\* without a user, however many sessions, servers and users there were.
THEOREM Typing == Spec => []TypeOK
  <1>1. ASSUME IInv, Shapes PROVE TypeOK
    <2>1. DiscordTypeOK
      <3>1. serverVersion \in [Servers -> 1..(MaxChanges + 1)]
        <4>1. serverVersion \in [Servers -> Nat] /\ changes \in 0..MaxChanges
          BY <1>1 DEF IInv, Types, Shapes, Bounds
        <4>2. ASSUME NEW s \in Servers PROVE serverVersion[s] \in 1..(MaxChanges + 1)
          <5>1. serverVersion[s] \in 1..(changes + 1)
            BY <1>1 DEF Shapes, Bounds
          <5>2. QED
            BY <4>1, <5>1, DiscordAssumption
        <4>3. QED
          BY <4>1, <4>2
      <3>2. channel \in [Channels -> 0..MaxChanges]
        <4>1. channel \in [Channels -> Nat] /\ changes \in 0..MaxChanges
          BY <1>1 DEF IInv, Types, Shapes, Bounds
        <4>2. ASSUME NEW c \in Channels PROVE channel[c] \in 0..MaxChanges
          <5>1. channel[c] \in 0..changes
            BY <1>1 DEF Shapes, Bounds
          <5>2. QED
            BY <4>1, <5>1, DiscordAssumption
        <4>3. QED
          BY <4>1, <4>2
      <3>3. QED
        BY <1>1, <3>1, <3>2 DEF IInv, Types, Shapes, Bounds, DiscordTypeOK
    <2>2. CacheTypeOK
      <3>1. Listed(servers) \subseteq Servers
        <4>1. \A i \in 1..Len(servers) : servers[i] \in Items
          BY <1>1 DEF IInv, ListShape
        <4>2. QED
          BY <4>1 DEF Listed, Items
      <3>2. ASSUME NEW s \in DOMAIN channels
            PROVE  Listed(channels[s]) \subseteq {c \in Channels : ServerOf[c] = s}
        <4>1. \A i \in 1..Len(channels[s]) : channels[s][i] \in ChannelItems(s)
          BY <1>1 DEF Shapes, ChannelShape
        <4>2. QED
          BY <4>1 DEF Listed, ChannelItems
      <3>3. QED
        BY <1>1, <3>1, <3>2 DEF Shapes, ChannelShape, CacheTypeOK
    <2>3. VoiceTypeOK
      BY <1>1 DEF Shapes, VoiceShape
    <2>4. QED
      BY <2>1, <2>2, <2>3 DEF TypeOK
  <1>2. QED
    BY <1>1, Invariance, ShapesKept, PTL

\* getCurrentVoiceStates() finds what it dereferences, while the last own
\* state handled names the connected channel.
THEOREM PanelShown == Spec => []PanelHasStates
  <1>1. ASSUME Shapes PROVE PanelHasStates
    BY <1>1 DEF Shapes, VoiceShape, PanelHasStates
  <1>2. QED
    BY <1>1, ShapesKept, PTL
-----------------------------------------------------------------------------
(* The channel lists: what the events on their way say of a channel. *)

OfChannel(e, c) == e.kind \in {"CHANNEL_CREATE", "CHANNEL_UPDATE", "CHANNEL_DELETE"} /\ e.id = c
Leaves(e, s) == e.kind = "GUILD_DELETE" /\ e.id = s
LastOf(box, i, c) == OfChannel(box[i], c) /\ \A j \in (i + 1)..Len(box) : ~OfChannel(box[j], c)
LeftAfter(box, i, s) == \E j \in (i + 1)..Len(box) : Leaves(box[j], s)

\* The first entry of the id, the one that is found, is in the version.
FirstIn(list, c, v) == \A i \in 1..Len(list) :
    list[i].id = c /\ (\A j \in 1..(i - 1) : list[j].id # c) => list[i].version = v

\* What the events say of a channel c of the server s: nothing comes before it
\* is created or after it is deleted, and the last of them tells what it is
\* now, unless the user has left s since and it may have changed unnoticed.
ChannelTold(box, c, s, in, v, gone, miss) == \A i \in 1..Len(box) : OfChannel(box[i], c) =>
    /\ v > 0
    /\ box[i].kind = "CHANNEL_DELETE" => c \in gone
    /\ \A j \in (i + 1)..Len(box) : OfChannel(box[j], c) =>
           box[i].kind # "CHANNEL_DELETE" /\ box[j].kind # "CHANNEL_CREATE"
    /\ s \in in \/ LeftAfter(box, i, s)
    /\ LastOf(box, i, c) /\ (s \notin miss \/ ~LeftAfter(box, i, s)) =>
           (box[i].kind = "CHANNEL_DELETE" <=> c \in gone) /\ box[i].version = v

\* The list shows the channel as it is, but a list that a failed request left
\* may lack it.
Shows(list, c, s, v, gone, fails) ==
    /\ Has(list, c) => v > 0 /\ c \notin gone
    /\ v > 0 /\ c \notin gone => Has(list, c) \/ s \in fails
    /\ FirstIn(list, c, v)

\* What the list shows of it: the channel as it is, if no event is on its way.
\* Else the last of them makes it so: an entry that it adds is not the first
\* unless it is new, and one that it replaces is there by then.
ChannelShown(box, list, c, s, v, gone, fails) ==
    /\ (\A i \in 1..Len(box) : ~OfChannel(box[i], c)) => Shows(list, c, s, v, gone, fails)
    /\ \A i \in 1..Len(box) : LastOf(box, i, c) =>
           /\ box[i].kind = "CHANNEL_CREATE" => FirstIn(list, c, v)
           /\ box[i].kind = "CHANNEL_UPDATE" =>
                  \/ Has(list, c) \/ s \in fails
                  \/ \E j \in 1..Len(box) : OfChannel(box[j], c) /\ box[j].kind = "CHANNEL_CREATE"

\* Not so for the list of a server that changed while the user was out of it.
ChannelStory == \A c \in Channels : LET s == ServerOf[c] IN
    /\ ChannelTold(inbox, c, s, member, channel[c], deleted, missed)
    /\ s \in DOMAIN channels /\ s \notin missed /\ ~Fresh(inbox) =>
           ChannelShown(inbox, channels[s], c, s, channel[c], deleted, failed)

\* Of the events about a channel one is the last.
LEMMA LastThere ==
  ASSUME NEW Message, NEW box \in Seq(Message), NEW c, NEW i \in 1..Len(box), OfChannel(box[i], c)
  PROVE  \E j \in 1..Len(box) : LastOf(box, j, c)
  <1> DEFINE n == Len(box)
             T == {k \in Nat : k < n /\ OfChannel(box[n - k], c)}
  <1>1. n \in Nat
    OBVIOUS
  <1>2. n - i \in Nat /\ n - i < n /\ n - (n - i) = i
    BY <1>1
  <1>3. n - i \in T
    BY <1>2
  <1>4. PICK k \in T : \A l \in T : k <= l
    BY <1>3, Least
  <1>5. n - k \in 1..n /\ OfChannel(box[n - k], c)
    BY <1>1, <1>4
  <1>6. ASSUME NEW j \in ((n - k) + 1)..n, OfChannel(box[j], c) PROVE FALSE
    <2>1. n - j \in Nat /\ n - j < n /\ n - (n - j) = j /\ n - j < k
      BY <1>1, <1>4, <1>6
    <2>2. n - j \in T
      BY <1>6, <2>1
    <2>3. QED
      BY <1>1, <1>4, <2>1, <2>2
  <1>7. QED
    BY <1>5, <1>6 DEF LastOf

\* Events about other things leave what is told of the channel; if the user
\* is out of its server after them, one of them says so.
LEMMA OtherNews ==
  ASSUME NEW Message, NEW box \in Seq(Message), NEW more \in Seq(Message), NEW c, NEW s,
         NEW in, NEW in1, NEW v, NEW gone, NEW miss,
         \A i \in 1..Len(more) : ~OfChannel(more[i], c) /\ more[i].kind # "READY",
         s \in in => s \in in1 \/ \E i \in 1..Len(more) : Leaves(more[i], s),
         ChannelTold(box, c, s, in, v, gone, miss)
  PROVE  /\ ChannelTold(box \o more, c, s, in1, v, gone, miss)
         /\ Fresh(box \o more) <=> Fresh(box)
         /\ \A list, fails : ChannelShown(box, list, c, s, v, gone, fails) => ChannelShown(box \o more, list, c, s, v, gone, fails)
  <1> DEFINE b == box \o more
  <1>1. /\ Len(box) \in Nat /\ Len(more) \in Nat /\ Len(b) = Len(box) + Len(more)
        /\ \A i \in 1..Len(box) : i \in 1..Len(b) /\ b[i] = box[i]
        /\ \A i \in 1..Len(b) : i > Len(box) => ~OfChannel(b[i], c) /\ b[i].kind # "READY"
        /\ b = <<>> <=> Len(b) = 0
        /\ box = <<>> <=> Len(box) = 0
    BY ConcatProperties
  <1>2. \A i \in 1..Len(more) : Len(box) + i \in 1..Len(b) /\ b[Len(box) + i] = more[i]
    <2>1. \A i \in 1..Len(more) : Len(box) + i \in 1..Len(b) /\ ~(Len(box) + i <= Len(box)) /\ (Len(box) + i) - Len(box) = i
      BY <1>1
    <2>2. \A i \in 1..(Len(box) + Len(more)) : b[i] = IF i <= Len(box) THEN box[i] ELSE more[i - Len(box)]
      BY ConcatProperties
    <2> HIDE DEF b
    <2>3. QED
      BY <1>1, <2>1, <2>2
  <1> HIDE DEF b
  <1>3. \A i \in 1..Len(b) : OfChannel(b[i], c) => i \in 1..Len(box) /\ b[i] = box[i]
    BY <1>1
  <1>4. ASSUME NEW i \in 1..Len(box), LeftAfter(box, i, s) PROVE LeftAfter(b, i, s)
    <2>1. PICK j \in (i + 1)..Len(box) : Leaves(box[j], s)
      BY <1>4 DEF LeftAfter
    <2>2. j \in (i + 1)..Len(b) /\ b[j] = box[j]
      BY <1>1, <2>1
    <2>3. QED
      BY <2>1, <2>2 DEF LeftAfter
  <1>5. ASSUME NEW i \in 1..Len(box), s \in in PROVE s \in in1 \/ LeftAfter(b, i, s)
    <2>1. SUFFICES ASSUME NEW k \in 1..Len(more), Leaves(more[k], s) PROVE LeftAfter(b, i, s)
      BY <1>5
    <2>2. Len(box) + k \in (i + 1)..Len(b) /\ b[Len(box) + k] = more[k]
      BY <1>1, <1>2
    <2>3. QED
      BY <2>1, <2>2 DEF LeftAfter
  <1>6. \A i \in 1..Len(b) : LastOf(b, i, c) => i \in 1..Len(box) /\ b[i] = box[i] /\ LastOf(box, i, c)
    BY <1>1, <1>3 DEF LastOf
  <1>7. ChannelTold(b, c, s, in1, v, gone, miss)
    <2>1. SUFFICES ASSUME NEW i \in 1..Len(b), OfChannel(b[i], c)
                   PROVE  /\ v > 0
                          /\ b[i].kind = "CHANNEL_DELETE" => c \in gone
                          /\ \A j \in (i + 1)..Len(b) : OfChannel(b[j], c) =>
                                 b[i].kind # "CHANNEL_DELETE" /\ b[j].kind # "CHANNEL_CREATE"
                          /\ s \in in1 \/ LeftAfter(b, i, s)
                          /\ LastOf(b, i, c) /\ (s \notin miss \/ ~LeftAfter(b, i, s)) =>
                                 (b[i].kind = "CHANNEL_DELETE" <=> c \in gone) /\ b[i].version = v
      BY DEF ChannelTold
    <2>2. i \in 1..Len(box) /\ b[i] = box[i]
      BY <1>3, <2>1
    <2>3. /\ v > 0
          /\ box[i].kind = "CHANNEL_DELETE" => c \in gone
          /\ \A j \in (i + 1)..Len(box) : OfChannel(box[j], c) =>
                 box[i].kind # "CHANNEL_DELETE" /\ box[j].kind # "CHANNEL_CREATE"
          /\ s \in in \/ LeftAfter(box, i, s)
          /\ LastOf(box, i, c) /\ (s \notin miss \/ ~LeftAfter(box, i, s)) =>
                 (box[i].kind = "CHANNEL_DELETE" <=> c \in gone) /\ box[i].version = v
      BY <2>1, <2>2 DEF ChannelTold
    <2>4. ASSUME NEW j \in (i + 1)..Len(b), OfChannel(b[j], c)
          PROVE  b[i].kind # "CHANNEL_DELETE" /\ b[j].kind # "CHANNEL_CREATE"
      <3>1. j \in 1..Len(b)
        BY <1>1, <2>2
      <3>2. j \in (i + 1)..Len(box) /\ b[j] = box[j]
        BY <1>3, <2>4, <3>1
      <3>3. QED
        BY <2>2, <2>3, <2>4, <3>2
    <2>5. s \in in1 \/ LeftAfter(b, i, s)
      BY <1>4, <1>5, <2>2, <2>3
    <2>6. LastOf(b, i, c) /\ (s \notin miss \/ ~LeftAfter(b, i, s)) =>
              (b[i].kind = "CHANNEL_DELETE" <=> c \in gone) /\ b[i].version = v
      BY <1>4, <1>6, <2>2, <2>3
    <2>7. QED
      BY <2>2, <2>3, <2>4, <2>5, <2>6
  <1>8. Fresh(b) <=> Fresh(box)
    BY <1>1 DEF Fresh
  <1>9. ASSUME NEW list, NEW fails, ChannelShown(box, list, c, s, v, gone, fails) PROVE ChannelShown(b, list, c, s, v, gone, fails)
    <2>1. (\A i \in 1..Len(b) : ~OfChannel(b[i], c)) => \A i \in 1..Len(box) : ~OfChannel(box[i], c)
      BY <1>1
    <2>2. (\E j \in 1..Len(box) : OfChannel(box[j], c) /\ box[j].kind = "CHANNEL_CREATE") =>
              \E j \in 1..Len(b) : OfChannel(b[j], c) /\ b[j].kind = "CHANNEL_CREATE"
      BY <1>1
    <2>3. QED
      BY <1>6, <1>9, <2>1, <2>2 DEF ChannelShown
  <1>10. QED
    BY <1>7, <1>8, <1>9 DEF b

\* The channel changes, and the client is told.
LEMMA News ==
  ASSUME NEW Message, NEW box \in Seq(Message), NEW e \in Message, NEW c, NEW s,
         NEW in, NEW v \in Nat, NEW gone, NEW gone1, NEW miss,
         OfChannel(e, c), e.version = v + 1, s \in in, c \notin gone,
         e.kind = "CHANNEL_CREATE" <=> v = 0, c \in gone1 <=> e.kind = "CHANNEL_DELETE",
         ChannelTold(box, c, s, in, v, gone, miss)
  PROVE  /\ ChannelTold(Append(box, e), c, s, in, v + 1, gone1, miss)
         /\ Fresh(Append(box, e)) <=> Fresh(box)
         /\ \A list, fails : ChannelShown(box, list, c, s, v, gone, fails) => ChannelShown(Append(box, e), list, c, s, v + 1, gone1, fails)
  <1> DEFINE b == Append(box, e)
             n == Len(box) + 1
  <1>1. /\ Len(box) \in Nat /\ Len(b) = n /\ b[n] = e
        /\ \A i \in 1..Len(box) : b[i] = box[i]
        /\ \A i \in 1..Len(b) : i \in 1..Len(box) \/ i = n
        /\ b # <<>>
        /\ box = <<>> <=> Len(box) = 0
        /\ e.kind # "READY"
    BY AppendProperties DEF OfChannel
  <1> HIDE DEF b
  <1>2. \A i \in 1..Len(b) : LastOf(b, i, c) <=> i = n
    BY <1>1 DEF LastOf
  <1>3. \A i \in 1..Len(box) : OfChannel(box[i], c) => v > 0 /\ box[i].kind # "CHANNEL_DELETE"
    BY DEF ChannelTold
  <1>4. ChannelTold(b, c, s, in, v + 1, gone1, miss)
    <2>1. SUFFICES ASSUME NEW i \in 1..Len(b), OfChannel(b[i], c)
                   PROVE  /\ b[i].kind = "CHANNEL_DELETE" => c \in gone1
                          /\ \A j \in (i + 1)..Len(b) : OfChannel(b[j], c) =>
                                 b[i].kind # "CHANNEL_DELETE" /\ b[j].kind # "CHANNEL_CREATE"
                          /\ LastOf(b, i, c) =>
                                 (b[i].kind = "CHANNEL_DELETE" <=> c \in gone1) /\ b[i].version = v + 1
      BY DEF ChannelTold
    <2>2. CASE i = n
      BY <1>1, <2>2
    <2>3. CASE i # n
      <3>1. i \in 1..Len(box) /\ b[i] = box[i] /\ ~LastOf(b, i, c) /\ v > 0 /\ box[i].kind # "CHANNEL_DELETE"
        BY <1>1, <1>2, <1>3, <2>1, <2>3
      <3>2. ASSUME NEW j \in (i + 1)..Len(b), OfChannel(b[j], c) PROVE b[j].kind # "CHANNEL_CREATE"
        <4>1. CASE j = n
          BY <1>1, <3>1, <4>1
        <4>2. CASE j # n
          <5>1. j \in (i + 1)..Len(box) /\ b[j] = box[j]
            BY <1>1, <3>1, <4>2
          <5>2. QED
            BY <2>1, <3>1, <3>2, <5>1 DEF ChannelTold
        <4>3. QED
          BY <4>1, <4>2
      <3>3. QED
        BY <3>1, <3>2
    <2>4. QED
      BY <2>2, <2>3
  <1>5. Fresh(b) <=> Fresh(box)
    BY <1>1 DEF Fresh
  <1>6. ASSUME NEW list, NEW fails, ChannelShown(box, list, c, s, v, gone, fails) PROVE ChannelShown(b, list, c, s, v + 1, gone1, fails)
    <2>1. n \in 1..Len(b) /\ OfChannel(b[n], c)
      BY <1>1
    <2>2. SUFFICES ASSUME TRUE
                   PROVE  /\ e.kind = "CHANNEL_CREATE" => FirstIn(list, c, v + 1)
                          /\ e.kind = "CHANNEL_UPDATE" =>
                                 \/ Has(list, c) \/ s \in fails
                                 \/ \E j \in 1..Len(b) : OfChannel(b[j], c) /\ b[j].kind = "CHANNEL_CREATE"
      BY <1>1, <1>2, <2>1 DEF ChannelShown
    <2>3. CASE \A i \in 1..Len(box) : ~OfChannel(box[i], c)
      <3>1. (Has(list, c) => v > 0) /\ (v > 0 => Has(list, c) \/ s \in fails)
        BY <1>6, <2>3 DEF ChannelShown, Shows
      <3>2. ~Has(list, c) => FirstIn(list, c, v + 1)
        BY DEF Has, Elements, FirstIn
      <3>3. QED
        BY <3>1, <3>2
    <2>4. CASE \E i \in 1..Len(box) : OfChannel(box[i], c)
      <3>1. PICK i \in 1..Len(box) : LastOf(box, i, c)
        BY <2>4, LastThere
      <3>2. v > 0 /\ box[i].kind \in {"CHANNEL_CREATE", "CHANNEL_UPDATE"} /\ b[i] = box[i] /\ i \in 1..Len(b)
        BY <1>1, <1>3, <3>1 DEF LastOf, OfChannel
      <3>3. CASE box[i].kind = "CHANNEL_CREATE"
        BY <3>1, <3>2, <3>3 DEF LastOf
      <3>4. CASE box[i].kind = "CHANNEL_UPDATE"
        <4>1. \/ Has(list, c) \/ s \in fails
              \/ \E j \in 1..Len(box) : OfChannel(box[j], c) /\ box[j].kind = "CHANNEL_CREATE"
          BY <1>6, <3>1, <3>4 DEF ChannelShown
        <4>2. \A j \in 1..Len(box) : j \in 1..Len(b) /\ b[j] = box[j]
          BY <1>1
        <4>3. QED
          BY <3>2, <4>1, <4>2
      <3>5. QED
        BY <3>2, <3>3, <3>4
    <2>5. QED
      BY <2>3, <2>4
  <1>7. QED
    BY <1>4, <1>5, <1>6 DEF b

\* The channel changes while the user is out of its server.
LEMMA NoNews ==
  ASSUME NEW box, NEW c, NEW s, NEW in, NEW v \in Nat, NEW gone, NEW gone1, NEW miss, NEW miss1,
         s \notin in, s \in miss1, c \in gone => c \in gone1,
         ChannelTold(box, c, s, in, v, gone, miss)
  PROVE  ChannelTold(box, c, s, in, v + 1, gone1, miss1)
  BY DEF ChannelTold
\* What Tail does to the positions, for a channel c and its server s.
LEMMA ShorterFor ==
  ASSUME NEW Message, NEW box \in Seq(Message), box # <<>>, NEW c, NEW s
  PROVE  /\ Len(box) \in Nat /\ 1 \in 1..Len(box) /\ Head(box) = box[1]
         /\ \A i \in 1..Len(Tail(box)) : i + 1 \in 2..Len(box) /\ Tail(box)[i] = box[i + 1]
         /\ \A i \in 2..Len(box) : i - 1 \in 1..Len(Tail(box)) /\ Tail(box)[i - 1] = box[i]
         /\ \A i \in 1..Len(Tail(box)) : LastOf(Tail(box), i, c) <=> LastOf(box, i + 1, c)
         /\ \A i \in 1..Len(Tail(box)) : LeftAfter(Tail(box), i, s) <=> LeftAfter(box, i + 1, s)
  <1> DEFINE b == Tail(box)
  <1>1. Len(box) \in Nat /\ Len(box) >= 1 /\ Len(b) = Len(box) - 1 /\ Head(box) = box[1] /\ 1 \in 1..Len(box)
    <2>1. Len(box) \in Nat /\ Len(box) >= 1 /\ Len(b) = Len(box) - 1 /\ Head(box) = box[1]
      BY HeadTailProperties
    <2>2. QED
      BY <2>1
  <1>2. \A i \in 1..Len(b) : b[i] = box[i + 1]
    BY HeadTailProperties
  <1> HIDE DEF b
  <1>3. \A i \in 1..Len(b) : i + 1 \in 2..Len(box)
    BY <1>1
  <1>4. \A i \in 2..Len(box) : i - 1 \in 1..Len(b) /\ (i - 1) + 1 = i
    BY <1>1
  <1>5. \A i \in 2..Len(box) : b[i - 1] = box[i]
    BY <1>2, <1>4
  <1>6. ASSUME NEW i \in 1..Len(b)
        PROVE  /\ \A j \in (i + 1)..Len(b) : j + 1 \in ((i + 1) + 1)..Len(box) /\ b[j] = box[j + 1]
               /\ \A j \in ((i + 1) + 1)..Len(box) : j - 1 \in (i + 1)..Len(b) /\ b[j - 1] = box[j]
    <2>1. ASSUME NEW j \in (i + 1)..Len(b) PROVE j + 1 \in ((i + 1) + 1)..Len(box) /\ j \in 1..Len(b)
      BY <1>1
    <2>2. ASSUME NEW j \in ((i + 1) + 1)..Len(box) PROVE j - 1 \in (i + 1)..Len(b) /\ j \in 2..Len(box)
      BY <1>1
    <2>3. QED
      BY <1>2, <1>5, <2>1, <2>2
  <1>7. ASSUME NEW i \in 1..Len(b)
        PROVE  /\ LastOf(b, i, c) <=> LastOf(box, i + 1, c)
               /\ LeftAfter(b, i, s) <=> LeftAfter(box, i + 1, s)
    <2>1. b[i] = box[i + 1]
      BY <1>2
    <2>2. LastOf(b, i, c) <=> LastOf(box, i + 1, c)
      BY <1>6, <2>1 DEF LastOf
    <2>3. LeftAfter(b, i, s) <=> LeftAfter(box, i + 1, s)
      BY <1>6 DEF LeftAfter
    <2>4. QED
      BY <2>2, <2>3
  <1>8. QED
    BY <1>1, <1>2, <1>3, <1>4, <1>5, <1>7 DEF b

\* An event that is handled takes nothing from what the others tell; that the
\* server may have changed unnoticed is forgotten only when no event tells
\* that the user leaves it.
LEMMA StillTold ==
  ASSUME NEW Message, NEW box \in Seq(Message), box # <<>>, NEW c, NEW s,
         NEW in, NEW v, NEW gone, NEW miss, NEW miss1,
         s \in miss => s \in miss1 \/ \A i \in 1..Len(box) : ~Leaves(box[i], s),
         ChannelTold(box, c, s, in, v, gone, miss)
  PROVE  ChannelTold(Tail(box), c, s, in, v, gone, miss1)
  <1> DEFINE b == Tail(box)
  <1>1. /\ Len(box) \in Nat
        /\ \A i \in 1..Len(b) : i + 1 \in 2..Len(box) /\ b[i] = box[i + 1]
        /\ \A i \in 1..Len(b) : LastOf(b, i, c) <=> LastOf(box, i + 1, c)
        /\ \A i \in 1..Len(b) : LeftAfter(b, i, s) <=> LeftAfter(box, i + 1, s)
    BY ShorterFor
  <1>2. Len(b) \in Nat
    BY HeadTailProperties
  <1> HIDE DEF b
  <1>3. SUFFICES ASSUME NEW i \in 1..Len(b), OfChannel(b[i], c)
                 PROVE  /\ v > 0
                        /\ b[i].kind = "CHANNEL_DELETE" => c \in gone
                        /\ \A j \in (i + 1)..Len(b) : OfChannel(b[j], c) =>
                               b[i].kind # "CHANNEL_DELETE" /\ b[j].kind # "CHANNEL_CREATE"
                        /\ s \in in \/ LeftAfter(b, i, s)
                        /\ LastOf(b, i, c) /\ (s \notin miss1 \/ ~LeftAfter(b, i, s)) =>
                               (b[i].kind = "CHANNEL_DELETE" <=> c \in gone) /\ b[i].version = v
    BY DEF ChannelTold, b
  <1>4. i + 1 \in 1..Len(box) /\ b[i] = box[i + 1] /\ OfChannel(box[i + 1], c)
    BY <1>1, <1>3
  <1>5. /\ v > 0
        /\ box[i + 1].kind = "CHANNEL_DELETE" => c \in gone
        /\ \A j \in ((i + 1) + 1)..Len(box) : OfChannel(box[j], c) =>
               box[i + 1].kind # "CHANNEL_DELETE" /\ box[j].kind # "CHANNEL_CREATE"
        /\ s \in in \/ LeftAfter(box, i + 1, s)
        /\ LastOf(box, i + 1, c) /\ (s \notin miss \/ ~LeftAfter(box, i + 1, s)) =>
               (box[i + 1].kind = "CHANNEL_DELETE" <=> c \in gone) /\ box[i + 1].version = v
    BY <1>4 DEF ChannelTold
  <1>6. \A j \in (i + 1)..Len(b) : j + 1 \in ((i + 1) + 1)..Len(box) /\ j \in 1..Len(b)
    BY <1>1, <1>2
  <1>7. \A j \in (i + 1)..Len(b) : OfChannel(b[j], c) => b[i].kind # "CHANNEL_DELETE" /\ b[j].kind # "CHANNEL_CREATE"
    BY <1>1, <1>4, <1>5, <1>6
  <1>8. s \notin miss1 => s \notin miss \/ ~LeftAfter(box, i + 1, s)
    <2>1. \A j \in ((i + 1) + 1)..Len(box) : j \in 1..Len(box)
      BY <1>1
    <2>2. QED
      BY <2>1 DEF LeftAfter
  <1>9. QED
    BY <1>1, <1>4, <1>5, <1>7, <1>8

\* An event about something else leaves the channel shown.
LEMMA StillShown ==
  ASSUME NEW Message, NEW box \in Seq(Message), box # <<>>, NEW c, NEW s, NEW v, NEW gone,
         NEW list, NEW list1, NEW fails, NEW fails1,
         ~OfChannel(Head(box), c), s \in fails <=> s \in fails1,
         Has(list1, c) <=> Has(list, c), FirstIn(list, c, v) => FirstIn(list1, c, v),
         ChannelShown(box, list, c, s, v, gone, fails)
  PROVE  ChannelShown(Tail(box), list1, c, s, v, gone, fails1)
  <1> DEFINE b == Tail(box)
  <1>1. /\ Len(box) \in Nat /\ 1 \in 1..Len(box) /\ Head(box) = box[1]
        /\ \A i \in 1..Len(b) : i + 1 \in 2..Len(box) /\ b[i] = box[i + 1]
        /\ \A i \in 2..Len(box) : i - 1 \in 1..Len(b) /\ b[i - 1] = box[i]
        /\ \A i \in 1..Len(b) : LastOf(b, i, c) <=> LastOf(box, i + 1, c)
    BY ShorterFor
  <1> HIDE DEF b
  <1>2. \A i \in 1..Len(box) : OfChannel(box[i], c) => i \in 2..Len(box)
    BY <1>1
  <1>3. (\A i \in 1..Len(b) : ~OfChannel(b[i], c)) => \A i \in 1..Len(box) : ~OfChannel(box[i], c)
    BY <1>1, <1>2
  <1>4. (\E j \in 1..Len(box) : OfChannel(box[j], c) /\ box[j].kind = "CHANNEL_CREATE") =>
            \E j \in 1..Len(b) : OfChannel(b[j], c) /\ b[j].kind = "CHANNEL_CREATE"
    BY <1>1, <1>2
  <1>5. ASSUME NEW i \in 1..Len(b), LastOf(b, i, c)
        PROVE  /\ b[i].kind = "CHANNEL_CREATE" => FirstIn(list1, c, v)
               /\ b[i].kind = "CHANNEL_UPDATE" =>
                      \/ Has(list1, c) \/ s \in fails1
                      \/ \E j \in 1..Len(b) : OfChannel(b[j], c) /\ b[j].kind = "CHANNEL_CREATE"
    <2>1. i + 1 \in 1..Len(box) /\ b[i] = box[i + 1] /\ LastOf(box, i + 1, c)
      BY <1>1, <1>5
    <2>2. QED
      BY <1>4, <2>1 DEF ChannelShown
  <1>6. QED
    BY <1>3, <1>5 DEF ChannelShown, Shows, b

\* What the handler of an event about c makes of the list.
Noted(e, list, list1, c) ==
    /\ e.kind = "CHANNEL_CREATE" =>
           Has(list1, c) /\ (FirstIn(list, c, e.version) => FirstIn(list1, c, e.version))
    /\ e.kind = "CHANNEL_UPDATE" => (Has(list1, c) <=> Has(list, c)) /\ FirstIn(list1, c, e.version)
    /\ e.kind = "CHANNEL_DELETE" => ~Has(list1, c)

\* The event about c is handled as it should be.
LEMMA NowShown ==
  ASSUME NEW Message, NEW box \in Seq(Message), box # <<>>, NEW c, NEW s, NEW in, NEW v, NEW gone, NEW miss,
         NEW list, NEW list1, NEW fails, NEW fails1, s \in fails <=> s \in fails1,
         OfChannel(Head(box), c), Noted(Head(box), list, list1, c), s \notin miss,
         ChannelTold(box, c, s, in, v, gone, miss), ChannelShown(box, list, c, s, v, gone, fails)
  PROVE  ChannelShown(Tail(box), list1, c, s, v, gone, fails1)
  <1> DEFINE b == Tail(box)
             e == Head(box)
  <1>1. /\ Len(box) \in Nat /\ 1 \in 1..Len(box) /\ e = box[1]
        /\ \A i \in 1..Len(b) : i + 1 \in 2..Len(box) /\ b[i] = box[i + 1]
        /\ \A i \in 2..Len(box) : i - 1 \in 1..Len(b) /\ b[i - 1] = box[i]
        /\ \A i \in 1..Len(b) : LastOf(b, i, c) <=> LastOf(box, i + 1, c)
    BY ShorterFor
  <1>2. OfChannel(e, c) /\ Noted(e, list, list1, c) /\ e.kind \in {"CHANNEL_CREATE", "CHANNEL_UPDATE", "CHANNEL_DELETE"}
    BY DEF OfChannel
  <1> HIDE DEF b, e
  <1>3. /\ v > 0
        /\ \A j \in 2..Len(box) : OfChannel(box[j], c) => e.kind # "CHANNEL_DELETE" /\ box[j].kind # "CHANNEL_CREATE"
        /\ LastOf(box, 1, c) => (e.kind = "CHANNEL_DELETE" <=> c \in gone) /\ e.version = v
    <2>1. 1 + 1 = 2
      OBVIOUS
    <2>2. QED
      BY <1>1, <1>2, <2>1 DEF ChannelTold
  <1>4. CASE \A i \in 2..Len(box) : ~OfChannel(box[i], c)
    <2>1. LastOf(box, 1, c)
      BY <1>1, <1>2, <1>4 DEF LastOf
    <2>2. \A i \in 1..Len(b) : ~OfChannel(b[i], c)
      BY <1>1, <1>4
    <2>3. (Has(list1, c) => c \notin gone) /\ (c \notin gone => Has(list1, c) \/ s \in fails) /\ FirstIn(list1, c, v)
      <3>1. CASE e.kind = "CHANNEL_CREATE"
        <4>1. FirstIn(list, c, v)
          BY <1>1, <2>1, <3>1 DEF ChannelShown
        <4>2. QED
          BY <1>2, <1>3, <2>1, <3>1, <4>1 DEF Noted
      <3>2. CASE e.kind = "CHANNEL_UPDATE"
        <4>1. \/ Has(list, c) \/ s \in fails
              \/ \E j \in 1..Len(box) : OfChannel(box[j], c) /\ box[j].kind = "CHANNEL_CREATE"
          BY <1>1, <2>1, <3>2 DEF ChannelShown
        <4>2. \A j \in 1..Len(box) : j = 1 \/ j \in 2..Len(box)
          BY <1>1
        <4>3. Has(list, c) \/ s \in fails
          BY <1>1, <1>4, <3>2, <4>1, <4>2
        <4>4. QED
          BY <1>2, <1>3, <2>1, <3>2, <4>3 DEF Noted
      <3>3. CASE e.kind = "CHANNEL_DELETE"
        <4>1. ~Has(list1, c) /\ c \in gone
          BY <1>2, <1>3, <2>1, <3>3 DEF Noted
        <4>2. FirstIn(list1, c, v)
          BY <4>1 DEF Has, Elements, FirstIn
        <4>3. QED
          BY <4>1, <4>2
      <3>4. QED
        BY <1>2, <3>1, <3>2, <3>3
    <2>4. \A i \in 1..Len(b) : ~LastOf(b, i, c)
      BY <2>2 DEF LastOf
    <2>5. QED
      BY <1>3, <2>2, <2>3, <2>4 DEF ChannelShown, Shows, b
  <1>5. CASE \E i \in 2..Len(box) : OfChannel(box[i], c)
    <2>1. \E i \in 1..Len(b) : OfChannel(b[i], c)
      BY <1>1, <1>5
    <2>2. ASSUME NEW i \in 1..Len(b), LastOf(b, i, c)
          PROVE  b[i].kind # "CHANNEL_CREATE" /\ (b[i].kind = "CHANNEL_UPDATE" => Has(list1, c) \/ s \in fails)
      <3>1. i + 1 \in 2..Len(box) /\ i + 1 \in 1..Len(box) /\ b[i] = box[i + 1] /\ LastOf(box, i + 1, c)
        BY <1>1, <2>2
      <3>2. b[i].kind # "CHANNEL_CREATE" /\ e.kind # "CHANNEL_DELETE"
        BY <1>3, <3>1 DEF LastOf
      <3>3. ASSUME b[i].kind = "CHANNEL_UPDATE" PROVE Has(list1, c) \/ s \in fails
        <4>1. \/ Has(list, c) \/ s \in fails
              \/ \E j \in 1..Len(box) : OfChannel(box[j], c) /\ box[j].kind = "CHANNEL_CREATE"
          BY <3>1, <3>3 DEF ChannelShown
        <4>2. \A j \in 1..Len(box) : j = 1 \/ j \in 2..Len(box)
          BY <1>1
        <4>3. Has(list, c) \/ s \in fails \/ e.kind = "CHANNEL_CREATE"
          BY <1>1, <1>3, <4>1, <4>2
        <4>4. QED
          BY <1>2, <3>2, <4>3 DEF Noted
      <3>4. QED
        BY <3>2, <3>3
    <2>3. QED
      BY <2>1, <2>2 DEF ChannelShown, b
  <1>6. QED
    BY <1>4, <1>5

\* A list that shows the channel as it is agrees with whatever is on its way,
\* once nothing happened unnoticed.
LEMMA AsItIs ==
  ASSUME NEW box, NEW c, NEW s, NEW in, NEW v, NEW gone, NEW miss, NEW list, NEW fails, s \notin miss,
         Shows(list, c, s, v, gone, fails), ChannelTold(box, c, s, in, v, gone, miss)
  PROVE  ChannelShown(box, list, c, s, v, gone, fails)
  <1>1. ASSUME NEW i \in 1..Len(box), LastOf(box, i, c), box[i].kind = "CHANNEL_UPDATE"
        PROVE  Has(list, c) \/ s \in fails
    <2>1. OfChannel(box[i], c)
      BY <1>1 DEF LastOf
    <2>2. v > 0 /\ c \notin gone
      BY <1>1, <2>1 DEF ChannelTold
    <2>3. QED
      BY <2>2 DEF Shows
  <1>2. QED
    BY <1>1 DEF ChannelShown, Shows
-----------------------------------------------------------------------------
(* What the handlers make of a channel list. *)

\* emplace_back(): an entry behind one of its id does not show.
LEMMA Behind ==
  ASSUME NEW Item, NEW list \in Seq(Item), NEW e \in Item, NEW c, NEW v
  PROVE  /\ Has(Append(list, e), c) <=> Has(list, c) \/ e.id = c
         /\ FirstIn(list, c, v) /\ (e.id = c /\ ~Has(list, c) => e.version = v) => FirstIn(Append(list, e), c, v)
  <1> DEFINE a == Append(list, e)
             n == Len(list) + 1
  <1>1. /\ Len(list) \in Nat /\ Len(a) = n /\ a[n] = e
        /\ \A i \in 1..Len(list) : a[i] = list[i]
        /\ \A i \in 1..Len(a) : i \in 1..Len(list) \/ i = n
        /\ Elements(a) = Elements(list) \cup {e}
    BY AppendProperties, Appending
  <1> HIDE DEF a
  <1>2. Has(a, c) <=> Has(list, c) \/ e.id = c
    BY <1>1 DEF Has
  <1>3. ASSUME FirstIn(list, c, v), e.id = c /\ ~Has(list, c) => e.version = v,
               NEW i \in 1..Len(a), a[i].id = c, \A j \in 1..(i - 1) : a[j].id # c
        PROVE  a[i].version = v
    <2>1. CASE i = n
      <3>1. n - 1 = Len(list)
        BY <1>1
      <3>2. ~Has(list, c)
        BY <1>1, <1>3, <2>1, <3>1 DEF Has, Elements
      <3>3. QED
        BY <1>1, <1>3, <2>1, <3>2
    <2>2. CASE i # n
      <3>1. i \in 1..Len(list) /\ \A j \in 1..(i - 1) : j \in 1..Len(list)
        BY <1>1, <1>3, <2>2
      <3>2. list[i].id = c /\ a[i] = list[i] /\ \A j \in 1..(i - 1) : list[j].id # c
        BY <1>1, <1>3, <3>1
      <3>3. QED
        BY <1>3, <3>1, <3>2 DEF FirstIn
    <2>3. QED
      BY <2>1, <2>2
  <1>4. QED
    BY <1>2, <1>3 DEF FirstIn, a

\* A lookup finds the first entry of the id.
LEMMA Finding ==
  ASSUME NEW Item, NEW list \in Seq(Item), NEW c, Has(list, c)
  PROVE  /\ Index(list, c) \in 1..Len(list) /\ list[Index(list, c)].id = c
         /\ \A j \in 1..(Index(list, c) - 1) : list[j].id # c
  <1> DEFINE T == {i \in 1..Len(list) : list[i].id = c}
  <1>1. Len(list) \in Nat
    OBVIOUS
  <1>2. T \in SUBSET Nat /\ T # {}
    BY DEF Has, Elements
  <1>3. PICK i \in T : \A j \in T : i <= j
    BY <1>2, Least
  <1>4. i \in 1..Len(list) /\ list[i].id = c /\ \A j \in 1..(i - 1) : list[j].id # c
    BY <1>1, <1>3
  <1>5. QED
    BY <1>4 DEF Index

\* *it = entry: the entry that is found is replaced.
LEMMA InPlace ==
  ASSUME NEW Item, NEW list \in Seq(Item), NEW e \in Item, NEW c, NEW v
  PROVE  /\ Has(Replaced(list, e), c) <=> Has(list, c)
         /\ c # e.id /\ FirstIn(list, c, v) => FirstIn(Replaced(list, e), c, v)
         /\ FirstIn(Replaced(list, e), e.id, e.version)
  <1> DEFINE k == Index(list, e.id)
             r == [list EXCEPT ![k] = e]
  <1>1. Len(list) \in Nat /\ (e.id \in Listed(list) <=> Has(list, e.id))
    BY DEF Listed, Has, Elements
  <1>2. CASE Has(list, e.id)
    <2>1. k \in 1..Len(list) /\ list[k].id = e.id /\ \A j \in 1..(k - 1) : list[j].id # e.id
      BY <1>2, Finding
    <2>2. Replaced(list, e) = r
      BY <1>1, <1>2 DEF Replaced
    <2> HIDE DEF k
    <2>3. r \in Seq(Item) /\ Len(r) = Len(list) /\ \A i \in 1..Len(list) : r[i] = IF i = k THEN e ELSE list[i]
      BY <2>1
    <2> HIDE DEF r
    <2>4. \A i \in 1..Len(list) : r[i].id = list[i].id
      BY <2>1, <2>3
    <2>5. Has(r, c) <=> Has(list, c)
      BY <2>3, <2>4 DEF Has, Elements
    <2>6. ASSUME c # e.id, FirstIn(list, c, v) PROVE FirstIn(r, c, v)
      <3>1. ASSUME NEW i \in 1..Len(r), r[i].id = c, \A j \in 1..(i - 1) : r[j].id # c
            PROVE  r[i].version = v
        <4>1. i \in 1..Len(list) /\ i # k /\ list[i].id = c /\ r[i] = list[i]
          BY <2>1, <2>3, <2>4, <2>6, <3>1
        <4>2. \A j \in 1..(i - 1) : j \in 1..Len(list) /\ list[j].id # c
          BY <1>1, <2>3, <2>4, <3>1
        <4>3. QED
          BY <2>6, <4>1, <4>2 DEF FirstIn
      <3>2. QED
        BY <3>1 DEF FirstIn
    <2>7. FirstIn(r, e.id, e.version)
      <3>1. ASSUME NEW i \in 1..Len(r), r[i].id = e.id, \A j \in 1..(i - 1) : r[j].id # e.id
            PROVE  i = k
        <4>1. i \in 1..Len(list) /\ list[i].id = e.id /\ r[k].id = e.id
          BY <2>1, <2>3, <2>4, <3>1
        <4>2. ~(i < k) /\ ~(k < i)
          BY <1>1, <2>1, <3>1, <4>1
        <4>3. QED
          BY <1>1, <2>1, <4>1, <4>2
      <3>2. QED
        BY <2>1, <2>3, <3>1 DEF FirstIn
    <2>8. QED
      BY <2>2, <2>5, <2>6, <2>7
  <1>3. CASE ~Has(list, e.id)
    <2>1. Replaced(list, e) = list
      BY <1>1, <1>3 DEF Replaced
    <2>2. FirstIn(list, e.id, e.version)
      BY <1>3 DEF FirstIn, Has, Elements
    <2>3. QED
      BY <2>1, <2>2
  <1>4. QED
    BY <1>2, <1>3

\* remove_if() leaves the entries of other ids in their order.
LEMMA Remaining ==
  ASSUME NEW Item, NEW list \in Seq(Item), NEW id, NEW c, NEW v
  PROVE  /\ ~Has(Without(list, id), id)
         /\ c # id => (Has(Without(list, id), c) <=> Has(list, c))
         /\ c # id /\ FirstIn(list, c, v) => FirstIn(Without(list, id), c, v)
  <1>1. Len(list) \in Nat /\ Elements(Without(list, id)) = {x \in Elements(list) : x.id # id}
    BY Erasing
  <1> DEFINE f == Kept(list, id, Len(list))
  <1>2. \A n \in 0..Len(list) : f[n] = IF n = 0 THEN <<>>
                           ELSE IF list[n].id = id THEN f[n - 1] ELSE Append(f[n - 1], list[n])
    BY <1>1, Unfolding
  <1>3. Without(list, id) = f[Len(list)]
    BY DEF Without, Kept
  <1> HIDE DEF f
  <1>4. ASSUME c # id, FirstIn(list, c, v) PROVE FirstIn(f[Len(list)], c, v)
    <2> DEFINE Good(n) == n <= Len(list) => /\ f[n] \in Seq(Item) /\ FirstIn(f[n], c, v)
                                            /\ Has(f[n], c) <=> \E i \in 1..n : list[i].id = c
               S == {n \in Nat : Good(n)}
    <2>1. 0 \in S
      <3>1. f[0] = <<>>
        BY <1>1, <1>2
      <3>2. FirstIn(f[0], c, v) /\ ~Has(f[0], c)
        BY <3>1 DEF FirstIn, Has, Elements
      <3>3. Good(0)
        BY <3>1, <3>2
      <3>4. QED
        BY <3>3
    <2>2. ASSUME NEW n \in Nat, n \in S PROVE n + 1 \in S
      <3>1. SUFFICES ASSUME n + 1 <= Len(list)
                     PROVE  /\ f[n + 1] \in Seq(Item) /\ FirstIn(f[n + 1], c, v)
                            /\ Has(f[n + 1], c) <=> \E i \in 1..(n + 1) : list[i].id = c
        OBVIOUS
      <3>2. /\ f[n] \in Seq(Item) /\ FirstIn(f[n], c, v) /\ (Has(f[n], c) <=> \E i \in 1..n : list[i].id = c)
            /\ n + 1 \in 1..Len(list) /\ list[n + 1] \in Item
        BY <1>1, <2>2, <3>1
      <3>3. f[n + 1] = IF list[n + 1].id = id THEN f[n] ELSE Append(f[n], list[n + 1])
        <4>1. n + 1 \in 0..Len(list) /\ n + 1 # 0 /\ (n + 1) - 1 = n
          BY <3>1
        <4>2. QED
          BY <1>2, <4>1
      <3>4. (\E i \in 1..(n + 1) : list[i].id = c) <=> (\E i \in 1..n : list[i].id = c) \/ list[n + 1].id = c
        <4>1. \A k \in 1..(n + 1) : k \in 1..n \/ k = n + 1
          OBVIOUS
        <4>2. \A k \in 1..n : k \in 1..(n + 1)
          OBVIOUS
        <4>3. QED
          BY <4>1, <4>2
      <3>5. CASE list[n + 1].id = id
        BY <1>4, <3>2, <3>3, <3>4, <3>5
      <3>6. CASE list[n + 1].id # id
        <4>1. list[n + 1].id = c /\ ~Has(f[n], c) => list[n + 1].version = v
          <5>1. ASSUME list[n + 1].id = c, ~Has(f[n], c) PROVE list[n + 1].version = v
            <6>1. \A j \in 1..((n + 1) - 1) : list[j].id # c
              BY <3>2, <5>1
            <6>2. QED
              BY <1>4, <3>2, <5>1, <6>1 DEF FirstIn
          <5>2. QED
            BY <5>1
        <4>2. /\ Has(Append(f[n], list[n + 1]), c) <=> Has(f[n], c) \/ list[n + 1].id = c
              /\ FirstIn(Append(f[n], list[n + 1]), c, v)
              /\ Append(f[n], list[n + 1]) \in Seq(Item)
          BY <3>2, <4>1, Behind, AppendProperties
        <4>3. f[n + 1] = Append(f[n], list[n + 1])
          BY <3>3, <3>6
        <4>4. QED
          BY <3>2, <3>4, <4>2, <4>3
      <3>7. QED
        BY <3>5, <3>6
    <2> HIDE DEF S
    <2>3. Nat \subseteq S
      BY <2>1, <2>2, Induction
    <2>4. Good(Len(list))
      BY <1>1, <2>3 DEF S
    <2>5. QED
      BY <1>1, <2>4
  <1>5. QED
    BY <1>1, <1>3, <1>4 DEF Has

\* getServerChannels() lists the channels as they are.
LEMMA Showing ==
  ASSUME IInv, NEW c \in Channels
  PROVE  /\ Has(Fetched(ServerOf[c], TRUE), c) <=> channel[c] > 0 /\ c \notin deleted
         /\ FirstIn(Fetched(ServerOf[c], TRUE), c, channel[c])
  <1> USE DiscordAssumption
  <1> DEFINE live == Live(ServerOf[c])
             n == Cardinality(live)
             f == SetToSeq(live)
             list == Fetched(ServerOf[c], TRUE)
  <1>1. c \in live <=> channel[c] > 0 /\ c \notin deleted
    BY DEF Live
  <1>2. live \subseteq Channels
    BY DEF Live
  <1> HIDE DEF live
  <1>3. /\ n \in Nat /\ f \in [1..n -> live]
        /\ \A x \in live : \E i \in 1..n : f[i] = x
    BY <1>2, FS_Subset, Numbering
  <1>4. list = [i \in 1..n |-> [id |-> f[i], version |-> channel[f[i]]]]
    BY DEF Fetched, live
  <1> HIDE DEF list, n, f
  <1>5. Len(list) = n /\ \A i \in 1..n : list[i].id = f[i] /\ list[i].version = channel[f[i]]
    BY <1>3, <1>4
  <1>6. Has(list, c) <=> c \in live
    BY <1>3, <1>5 DEF Has, Elements
  <1>7. FirstIn(list, c, channel[c])
    BY <1>5 DEF FirstIn
  <1>8. QED
    BY <1>1, <1>6, <1>7 DEF list
-----------------------------------------------------------------------------
(* The steps, for the channel lists. *)

\* Events about other things leave the channels' story.
LEMMA Besides ==
  ASSUME InboxShape, ChannelStory, NEW more \in Seq(Events),
         \A i \in 1..Len(more) : more[i].kind \notin {"READY", "CHANNEL_CREATE", "CHANNEL_UPDATE", "CHANNEL_DELETE"},
         \A s \in member : s \in member' \/ \E i \in 1..Len(more) : Leaves(more[i], s),
         inbox' = inbox \o more, UNCHANGED <<channel, deleted, channels, failed, missed>>
  PROVE  ChannelStory'
  <1>1. SUFFICES ASSUME NEW c \in Channels
                 PROVE  LET s == ServerOf[c] IN
                        /\ ChannelTold(inbox', c, s, member', channel[c], deleted, missed)
                        /\ s \in DOMAIN channels /\ s \notin missed /\ ~Fresh(inbox') =>
                               ChannelShown(inbox', channels[s], c, s, channel[c], deleted, failed)
    BY DEF ChannelStory
  <1> DEFINE s == ServerOf[c]
  <1>2. /\ ChannelTold(inbox, c, s, member, channel[c], deleted, missed)
        /\ s \in DOMAIN channels /\ s \notin missed /\ ~Fresh(inbox) =>
               ChannelShown(inbox, channels[s], c, s, channel[c], deleted, failed)
    BY DEF ChannelStory
  <1> HIDE DEF s
  <1>3. /\ inbox \in Seq(Events)
        /\ \A i \in 1..Len(more) : ~OfChannel(more[i], c) /\ more[i].kind # "READY"
        /\ s \in member => s \in member' \/ \E i \in 1..Len(more) : Leaves(more[i], s)
    BY DEF InboxShape, OfChannel
  <1>4. /\ ChannelTold(inbox \o more, c, s, member', channel[c], deleted, missed)
        /\ Fresh(inbox \o more) <=> Fresh(inbox)
        /\ \A list, fails : ChannelShown(inbox, list, c, s, channel[c], deleted, fails) =>
                         ChannelShown(inbox \o more, list, c, s, channel[c], deleted, fails)
    BY <1>2, <1>3, OtherNews
  <1>5. QED
    BY <1>2, <1>4 DEF s

\* The deletion of another channel is nothing to this one.
LEMMA SameGone ==
  ASSUME NEW box, NEW c, NEW s, NEW in, NEW v, NEW gone, NEW gone1, NEW miss, NEW miss1,
         c \in gone1 <=> c \in gone, s \in miss => s \in miss1
  PROVE  /\ ChannelTold(box, c, s, in, v, gone, miss) => ChannelTold(box, c, s, in, v, gone1, miss1)
         /\ \A list, fails : ChannelShown(box, list, c, s, v, gone, fails) => ChannelShown(box, list, c, s, v, gone1, fails)
  BY DEF ChannelTold, ChannelShown, Shows

\* A channel changes.
LEMMA Changing ==
  ASSUME IInv, ChannelStory, NEW c \in Channels, NEW k \in {"CHANNEL_CREATE", "CHANNEL_UPDATE", "CHANNEL_DELETE"},
         ChangeChannel(c, k), Miss(ServerOf[c])
  PROVE  ChannelStory'
  <1> DEFINE t == ServerOf[c]
             e == [kind |-> k, id |-> c, version |-> channel'[c]]
  <1>1. /\ channel \in [Channels -> Nat] /\ inbox \in Seq(Events)
    BY DEF IInv, Types, InboxShape
  <1>2. /\ channel' = [channel EXCEPT ![c] = @ + 1]
        /\ deleted' = IF k = "CHANNEL_DELETE" THEN deleted \cup {c} ELSE deleted
        /\ c \notin deleted /\ (k = "CHANNEL_CREATE" <=> channel[c] = 0)
        /\ UNCHANGED <<member, channels, failed>>
        /\ IF t \in member THEN inbox' = Append(inbox, e) ELSE UNCHANGED inbox
        /\ missed' = IF t \in member THEN missed ELSE missed \cup {t}
    BY DEF ChangeChannel, Tell, Send, gatewayVars, Miss
  <1>3. channel'[c] = channel[c] + 1 /\ \A d \in Channels \ {c} : channel'[d] = channel[d]
    BY <1>1, <1>2
  <1>4. e \in Events
    BY <1>1, <1>3, Formed DEF IInv
  <1>5. e.kind = k /\ e.id = c /\ e.version = channel[c] + 1
    BY <1>3
  <1> HIDE DEF e
  <1>6. SUFFICES ASSUME NEW d \in Channels
                 PROVE  LET s == ServerOf[d] IN
                        /\ ChannelTold(inbox', d, s, member, channel'[d], deleted', missed')
                        /\ s \in DOMAIN channels /\ s \notin missed' /\ ~Fresh(inbox') =>
                               ChannelShown(inbox', channels[s], d, s, channel'[d], deleted', failed)
    BY <1>2 DEF ChannelStory
  <1> DEFINE s == ServerOf[d]
  <1>7. /\ ChannelTold(inbox, d, s, member, channel[d], deleted, missed)
        /\ s \in DOMAIN channels /\ s \notin missed /\ ~Fresh(inbox) =>
               ChannelShown(inbox, channels[s], d, s, channel[d], deleted, failed)
    BY DEF ChannelStory
  <1>8. CASE d = c /\ t \in member
    <2>1. /\ OfChannel(e, c) /\ s = t /\ channel[c] \in Nat
          /\ c \in deleted' <=> e.kind = "CHANNEL_DELETE"
      BY <1>1, <1>2, <1>5, <1>8 DEF OfChannel
    <2>2. /\ ChannelTold(Append(inbox, e), c, t, member, channel[c] + 1, deleted', missed)
          /\ Fresh(Append(inbox, e)) <=> Fresh(inbox)
          /\ \A list, fails : ChannelShown(inbox, list, c, t, channel[c], deleted, fails) =>
                           ChannelShown(Append(inbox, e), list, c, t, channel[c] + 1, deleted', fails)
      <3> HIDE DEF t, s
      <3>1. ChannelTold(inbox, c, t, member, channel[c], deleted, missed)
        BY <1>7, <1>8, <2>1
      <3>2. QED
        BY <1>1, <1>2, <1>4, <1>5, <1>8, <2>1, <3>1, News
    <2>3. QED
      BY <1>2, <1>3, <1>7, <1>8, <2>1, <2>2
  <1>9. CASE d = c /\ t \notin member
    <2>1. t \in missed' /\ inbox' = inbox /\ channel[c] \in Nat /\ (c \in deleted => c \in deleted') /\ s = t
      BY <1>1, <1>2, <1>9
    <2>2. ChannelTold(inbox, c, t, member, channel[c] + 1, deleted', missed')
      <3> HIDE DEF t, s
      <3>1. QED
        BY <1>7, <1>9, <2>1, NoNews
    <2>3. QED
      BY <1>3, <1>9, <2>1, <2>2
  <1>10. CASE d # c
    <2>1. (d \in deleted' <=> d \in deleted) /\ channel'[d] = channel[d] /\ (s \in missed => s \in missed')
      BY <1>2, <1>3, <1>10
    <2>2. /\ ChannelTold(inbox, d, s, member, channel[d], deleted', missed')
          /\ \A list, fails : ChannelShown(inbox, list, d, s, channel[d], deleted, fails) =>
                           ChannelShown(inbox, list, d, s, channel[d], deleted', fails)
      <3> HIDE DEF s
      <3>1. QED
        BY <1>7, <2>1, SameGone
    <2>3. CASE t \in member
      <3>1. /\ <<e>> \in Seq(Events) /\ inbox' = inbox \o <<e>>
            /\ \A i \in 1..Len(<<e>>) : ~OfChannel(<<e>>[i], d) /\ <<e>>[i].kind # "READY"
        BY <1>1, <1>2, <1>4, <1>5, <1>10, <2>3, AppendIsConcat DEF OfChannel
      <3>2. /\ ChannelTold(inbox \o <<e>>, d, s, member, channel[d], deleted', missed')
            /\ Fresh(inbox \o <<e>>) <=> Fresh(inbox)
            /\ \A list, fails : ChannelShown(inbox, list, d, s, channel[d], deleted', fails) =>
                             ChannelShown(inbox \o <<e>>, list, d, s, channel[d], deleted', fails)
        <4> HIDE DEF s
        <4>1. QED
          BY <1>1, <2>2, <3>1, OtherNews
      <3>3. QED
        BY <1>7, <2>1, <2>2, <3>1, <3>2
    <2>4. CASE t \notin member
      BY <1>2, <1>7, <2>1, <2>2, <2>4
    <2>5. QED
      BY <2>3, <2>4
  <1>11. QED
    BY <1>8, <1>9, <1>10

\* Discord changes.
LEMMA ChannelsOfDiscord ==
  ASSUME IInv, ChannelStory, DiscordStep
  PROVE  ChannelStory'
  <1>1. InboxShape /\ Types
    BY DEF IInv
  <1>2. ASSUME NEW e \in Events, e.kind \notin {"READY", "CHANNEL_CREATE", "CHANNEL_UPDATE", "CHANNEL_DELETE"},
               inbox' = Append(inbox, e) \/ UNCHANGED inbox,
               \A s \in member : s \in member' \/ (inbox' = Append(inbox, e) /\ Leaves(e, s)),
               UNCHANGED <<channel, deleted, channels, failed, missed>>
        PROVE  ChannelStory'
    <2>1. /\ <<>> \in Seq(Events) /\ <<e>> \in Seq(Events) /\ Len(<<>>) = 0 /\ Len(<<e>>) = 1 /\ <<e>>[1] = e
          /\ inbox \o <<>> = inbox /\ Append(inbox, e) = inbox \o <<e>>
      BY <1>1, <1>2, AppendIsConcat, ConcatEmptySeq DEF InboxShape
    <2>2. CASE inbox' = Append(inbox, e)
      <3>1. \A i \in 1..Len(<<e>>) : <<e>>[i] = e
        BY <2>1
      <3>2. \A s \in member : s \in member' \/ \E i \in 1..Len(<<e>>) : Leaves(<<e>>[i], s)
        BY <1>2, <2>1
      <3>3. QED
        BY <1>1, <1>2, <2>1, <2>2, <3>1, <3>2, Besides
    <2>3. CASE UNCHANGED inbox /\ inbox' # Append(inbox, e)
      <3>1. inbox' = inbox \o <<>> /\ \A i \in 1..Len(<<>>) : FALSE
        BY <2>1, <2>3
      <3>2. \A s \in member : s \in member'
        BY <1>2, <2>3
      <3>3. QED
        BY <1>1, <1>2, <2>1, <3>1, <3>2, Besides
    <2>4. QED
      BY <1>2, <2>2, <2>3
  <1>3. ASSUME NEW s \in Servers, JoinServer(s), UNCHANGED cacheVars PROVE ChannelStory'
    <2>1. Guild(s) \in Events /\ Guild(s).kind = "GUILD_CREATE"
      BY <1>1, Formed DEF Guild
    <2>2. inbox' = Append(inbox, Guild(s)) /\ member' = member \cup {s} /\ UNCHANGED <<channel, deleted, channels, failed, missed>>
      BY <1>3 DEF JoinServer, Send, cacheVars
    <2>3. QED
      BY <1>2, <2>1, <2>2
  <1>4. ASSUME NEW s \in Servers, LeaveServer(s), UNCHANGED cacheVars PROVE ChannelStory'
    <2> DEFINE e == [kind |-> "GUILD_DELETE", id |-> s]
    <2>1. e \in Events /\ e.kind = "GUILD_DELETE" /\ Leaves(e, s)
      BY <1>1, Formed DEF Leaves
    <2>2. inbox' = Append(inbox, e) /\ member' = member \ {s} /\ UNCHANGED <<channel, deleted, channels, failed, missed>>
      BY <1>4 DEF LeaveServer, Send, cacheVars
    <2> HIDE DEF e
    <2>3. QED
      BY <1>2, <2>1, <2>2
  <1>5. ASSUME NEW s \in Servers, EditServer(s), UNCHANGED cacheVars PROVE ChannelStory'
    <2> DEFINE e == [kind |-> "GUILD_UPDATE", id |-> s, version |-> serverVersion'[s]]
    <2>1. serverVersion'[s] \in Nat
      BY <1>1, <1>5 DEF EditServer, Types
    <2>2. e \in Events /\ e.kind = "GUILD_UPDATE"
      BY <1>1, <2>1, Formed
    <2>3. /\ inbox' = Append(inbox, e) \/ UNCHANGED inbox
          /\ UNCHANGED <<member, channel, deleted, channels, failed, missed>>
      BY <1>5 DEF EditServer, Tell, Send, gatewayVars, cacheVars
    <2> HIDE DEF e
    <2>4. QED
      BY <1>2, <2>2, <2>3
  <1>6. ASSUME NEW u \in Users, NEW c \in VoiceChannels \cup {None}, Move(u, c), UNCHANGED cacheVars
        PROVE  ChannelStory'
    <2>1. State(u, c) \in Events /\ State(u, c).kind = "VOICE_STATE_UPDATE"
      BY <1>1, Formed DEF State
    <2>2. PICK s \in Servers : Tell(s, State(u, c))
      BY <1>6 DEF Move
    <2>3. /\ inbox' = Append(inbox, State(u, c)) \/ UNCHANGED inbox
          /\ UNCHANGED <<member, channel, deleted, channels, failed, missed>>
      BY <1>6, <2>2 DEF Move, Tell, Send, gatewayVars, cacheVars
    <2>4. QED
      BY <1>2, <2>1, <2>3
  <1>7. QED
    BY <1>3, <1>4, <1>5, <1>6, Changing DEF DiscordStep

\* fillChannels() shows the channels of s as they are and touches no others.
LEMMA Filled ==
  ASSUME IInv, NEW s \in Servers, FillChannels(s)
  PROVE  /\ \A t \in missed : t \in missed' \/ \A i \in 1..Len(inbox) : ~Leaves(inbox[i], t)
         /\ \A c \in Channels : ServerOf[c] = s =>
                Shows(channels'[s], c, s, channel[c], deleted, failed')
         /\ \A t \in DOMAIN channels' : t # s =>
                /\ t \in DOMAIN channels /\ channels'[t] = channels[t]
                /\ t \in failed <=> t \in failed'
                /\ t \in missed <=> t \in missed'
  <1>1. PICK ok \in BOOLEAN :
            /\ SetChannels(s, Fetched(s, ok))
            /\ failed' = IF ok THEN failed \ {s} ELSE failed \cup {s}
            /\ missed' = IF ok /\ ~LeavePending(s) THEN missed \ {s} ELSE missed
    BY DEF FillChannels, Answers
  <1>2. channels' = [t \in DOMAIN channels \cup {s} |-> IF t = s THEN Fetched(s, ok) ELSE channels[t]]
    BY <1>1 DEF SetChannels
  <1>3. /\ DOMAIN channels' = DOMAIN channels \cup {s} /\ channels'[s] = Fetched(s, ok)
        /\ \A t \in DOMAIN channels' : t # s => t \in DOMAIN channels /\ channels'[t] = channels[t]
    BY <1>2
  <1>4. ASSUME NEW t \in missed, t \notin missed' PROVE \A i \in 1..Len(inbox) : ~Leaves(inbox[i], t)
    BY <1>1, <1>4 DEF LeavePending, Leaves
  <1>5. ASSUME NEW c \in Channels, ServerOf[c] = s
        PROVE  Shows(channels'[s], c, s, channel[c], deleted, failed')
    <2>1. CASE ok = TRUE
      BY <1>3, <1>5, <2>1, Showing DEF Shows
    <2>2. CASE ok = FALSE
      <3>1. channels'[s] = <<>> /\ s \in failed'
        BY <1>1, <1>3, <2>2 DEF Fetched
      <3>2. QED
        BY <3>1 DEF Shows, Has, Elements, FirstIn
    <2>3. QED
      BY <2>1, <2>2
  <1>6. \A t \in DOMAIN channels' : t # s => (t \in failed <=> t \in failed') /\ (t \in missed <=> t \in missed')
    BY <1>1
  <1>7. QED
    BY <1>3, <1>4, <1>5, <1>6

\* A handler that leaves each list that can be relied on as it was, makes of it
\* what its event tells, or has fetched it.
LEMMA Keeping ==
  ASSUME IInv, ChannelStory, Receive, UNCHANGED discordVars,
         \A s \in missed : s \in missed' \/ \A i \in 1..Len(inbox) : ~Leaves(inbox[i], s),
         \A c \in Channels : LET s == ServerOf[c] IN
             s \in DOMAIN channels' /\ s \notin missed' =>
                 \/ Shows(channels'[s], c, s, channel[c], deleted, failed')
                 \/ /\ s \in DOMAIN channels /\ s \notin missed /\ Event.kind # "READY"
                    /\ s \in failed <=> s \in failed'
                    /\ IF OfChannel(Event, c) THEN Noted(Event, channels[s], channels'[s], c)
                       ELSE /\ Has(channels'[s], c) <=> Has(channels[s], c)
                            /\ FirstIn(channels[s], c, channel[c]) => FirstIn(channels'[s], c, channel[c])
  PROVE  ChannelStory'
  <1>1. /\ inbox \in Seq(Events) /\ inbox # <<>> /\ inbox' = Tail(inbox) /\ Event = Head(inbox)
        /\ UNCHANGED <<member, channel, deleted>>
    BY DEF IInv, InboxShape, Receive, Event, discordVars
  <1>2. Event.kind # "READY" => ~Fresh(inbox)
    <2>1. Head(inbox) = inbox[1]
      BY <1>1
    <2>2. QED
      BY <1>1, <2>1 DEF Fresh
  <1>3. SUFFICES ASSUME NEW c \in Channels
                 PROVE  LET s == ServerOf[c] IN
                        /\ ChannelTold(Tail(inbox), c, s, member, channel[c], deleted, missed')
                        /\ s \in DOMAIN channels' /\ s \notin missed' /\ ~Fresh(Tail(inbox)) =>
                               ChannelShown(Tail(inbox), channels'[s], c, s, channel[c], deleted, failed')
    BY <1>1 DEF ChannelStory
  <1> DEFINE s == ServerOf[c]
  <1>4. /\ ChannelTold(inbox, c, s, member, channel[c], deleted, missed)
        /\ s \in DOMAIN channels /\ s \notin missed /\ ~Fresh(inbox) =>
               ChannelShown(inbox, channels[s], c, s, channel[c], deleted, failed)
    BY DEF ChannelStory
  <1>5. s \in DOMAIN channels' /\ s \notin missed' =>
            \/ Shows(channels'[s], c, s, channel[c], deleted, failed')
            \/ /\ s \in DOMAIN channels /\ s \notin missed /\ Event.kind # "READY"
               /\ s \in failed <=> s \in failed'
               /\ IF OfChannel(Event, c) THEN Noted(Event, channels[s], channels'[s], c)
                  ELSE /\ Has(channels'[s], c) <=> Has(channels[s], c)
                       /\ FirstIn(channels[s], c, channel[c]) => FirstIn(channels'[s], c, channel[c])
    OBVIOUS
  <1>6. s \in missed => s \in missed' \/ \A i \in 1..Len(inbox) : ~Leaves(inbox[i], s)
    OBVIOUS
  <1> DEFINE list == channels[s]
             list1 == channels'[s]
  <1> HIDE DEF s
  <1>7. ChannelTold(Tail(inbox), c, s, member, channel[c], deleted, missed')
    BY <1>1, <1>4, <1>6, StillTold
  <1>8. ASSUME s \in DOMAIN channels', s \notin missed'
        PROVE  ChannelShown(Tail(inbox), list1, c, s, channel[c], deleted, failed')
    <2>1. CASE Shows(list1, c, s, channel[c], deleted, failed')
      <3> HIDE DEF list1
      <3>1. QED
        BY <1>7, <1>8, <2>1, AsItIs
    <2>2. CASE /\ s \in DOMAIN channels /\ s \notin missed /\ Event.kind # "READY"
               /\ s \in failed <=> s \in failed'
               /\ IF OfChannel(Event, c) THEN Noted(Event, list, list1, c)
                  ELSE /\ Has(list1, c) <=> Has(list, c)
                       /\ FirstIn(list, c, channel[c]) => FirstIn(list1, c, channel[c])
      <3>1. ChannelShown(inbox, list, c, s, channel[c], deleted, failed)
        BY <1>2, <1>4, <2>2
      <3> HIDE DEF list, list1
      <3>2. CASE OfChannel(Event, c)
        <4>1. OfChannel(Head(inbox), c) /\ Noted(Head(inbox), list, list1, c)
          BY <1>1, <2>2, <3>2
        <4>2. QED
          BY <1>1, <1>4, <2>2, <3>1, <4>1, NowShown
      <3>3. CASE ~OfChannel(Event, c)
        <4>1. ~OfChannel(Head(inbox), c)
          BY <1>1, <3>3
        <4>2. QED
          BY <1>1, <2>2, <3>1, <3>3, <4>1, StillShown
      <3>4. QED
        BY <3>2, <3>3
    <2>3. QED
      BY <1>5, <1>8, <2>1, <2>2
  <1>9. QED
    BY <1>7, <1>8 DEF s

\* An event about a channel is handled: of a list that is cached it makes
\* `list`.
LEMMA Correcting ==
  ASSUME IInv, ChannelStory, Receive, UNCHANGED discordVars,
         OfChannel(Event, Event.id), Event.id \in Channels, NEW list, UpdateChannels(ServerOf[Event.id], list),
         ServerOf[Event.id] \in DOMAIN channels =>
             LET old == channels[ServerOf[Event.id]] IN
             /\ Noted(Event, old, list, Event.id)
             /\ \A c \in Channels \ {Event.id} : /\ Has(list, c) <=> Has(old, c)
                                                 /\ FirstIn(old, c, channel[c]) => FirstIn(list, c, channel[c])
  PROVE  ChannelStory'
  <1> DEFINE s == ServerOf[Event.id]
  <1>1. s \in Servers /\ Event.kind # "READY"
    BY DiscordAssumption DEF OfChannel
  <1>2. ASSUME NEW c, OfChannel(Event, c) PROVE c = Event.id
    BY <1>2 DEF OfChannel
  <1>3. CASE s \in DOMAIN channels
    <2>1. channels' = [t \in DOMAIN channels \cup {s} |-> IF t = s THEN list ELSE channels[t]] /\ UNCHANGED <<failed, missed>>
      BY <1>3 DEF UpdateChannels, SetChannels
    <2>2. DOMAIN channels' = DOMAIN channels /\ \A t \in DOMAIN channels : channels'[t] = IF t = s THEN list ELSE channels[t]
      BY <1>3, <2>1
    <2>3. /\ Noted(Event, channels[s], list, Event.id)
          /\ \A c \in Channels \ {Event.id} : /\ Has(list, c) <=> Has(channels[s], c)
                                              /\ FirstIn(channels[s], c, channel[c]) => FirstIn(list, c, channel[c])
      BY <1>3
    <2> HIDE DEF s
    <2>4. ASSUME NEW c \in Channels, ServerOf[c] \in DOMAIN channels
          PROVE  LET t == ServerOf[c] IN
                 IF OfChannel(Event, c) THEN Noted(Event, channels[t], channels'[t], c)
                 ELSE /\ Has(channels'[t], c) <=> Has(channels[t], c)
                      /\ FirstIn(channels[t], c, channel[c]) => FirstIn(channels'[t], c, channel[c])
      <3>1. CASE ServerOf[c] = s
        <4>1. channels'[ServerOf[c]] = list /\ (c # Event.id => ~OfChannel(Event, c))
          BY <1>2, <2>2, <2>4, <3>1
        <4>2. c = Event.id => OfChannel(Event, c)
          OBVIOUS
        <4>3. QED
          BY <2>3, <2>4, <3>1, <4>1, <4>2
      <3>2. CASE ServerOf[c] # s
        BY <1>2, <2>2, <2>4, <3>2 DEF s
      <3>3. QED
        BY <3>1, <3>2
    <2>5. QED
      BY <1>1, <2>1, <2>2, <2>4, Keeping
  <1>4. CASE s \notin DOMAIN channels
    <2>1. FillChannels(s)
      BY <1>4 DEF UpdateChannels
    <2> HIDE DEF s
    <2>2. /\ \A t \in missed : t \in missed' \/ \A i \in 1..Len(inbox) : ~Leaves(inbox[i], t)
          /\ \A c \in Channels : ServerOf[c] = s =>
                 Shows(channels'[s], c, s, channel[c], deleted, failed')
          /\ \A t \in DOMAIN channels' : t # s =>
                 /\ t \in DOMAIN channels /\ channels'[t] = channels[t]
                 /\ t \in failed <=> t \in failed'
                 /\ t \in missed <=> t \in missed'
      BY <1>1, <2>1, Filled
    <2>3. \A c \in Channels : ServerOf[c] # s => ~OfChannel(Event, c)
      BY <1>2 DEF s
    <2>4. QED
      BY <1>1, <2>2, <2>3, Keeping
  <1>5. QED
    BY <1>3, <1>4

\* An event is handled.
LEMMA ChannelsOfHandler ==
  ASSUME IInv, ChannelShape, ChannelStory, Handle
  PROVE  ChannelStory'
  <1>1. UNCHANGED discordVars
    BY DEF Handle
  <1>2. CASE OnReady \/ OnResumed
    <2>1. Receive /\ DOMAIN channels' = {} /\ UNCHANGED missed
      BY <1>2 DEF OnReady, OnResumed, Receiving, CacheReady, CacheResumed, NoChannels
    <2>2. QED
      BY <1>1, <2>1, Keeping
  <1>3. CASE OnServer \/ OnEditServer \/ OnDeleteServer \/ OnEditVoiceState \/ OnVoiceServer
    <2>1. /\ Receive /\ UNCHANGED <<channels, failed, missed>>
          /\ Event.kind # "READY" /\ \A c : ~OfChannel(Event, c)
      BY <1>3 DEF OnServer, OnEditServer, OnDeleteServer, OnEditVoiceState, OnVoiceServer, Receiving, OfChannel,
                  CacheServer, CacheEditServer, CacheDeleteServer, cacheVars
    <2>2. QED
      BY <1>1, <2>1, Keeping
  <1>4. ASSUME Receive, Event.kind \in {"CHANNEL_CREATE", "CHANNEL_UPDATE", "CHANNEL_DELETE"}
        PROVE  LET s == ServerOf[Event.id] IN
               /\ Event.id \in Channels /\ OfChannel(Event, Event.id)
               /\ Event.kind # "CHANNEL_DELETE" => Entry \in ChannelItems(s)
               /\ Entry.id = Event.id /\ Entry.version = Event.version
               /\ s \in DOMAIN channels => Cached(s) \in Seq(ChannelItems(s)) /\ Cached(s) = channels[s]
    <2>1. Event \in Events
      BY <1>4, HeadTailProperties DEF Receive, Event, IInv, InboxShape
    <2>2. Event.id \in Channels /\ Event.version \in Nat
      BY <1>4, <2>1 DEF Events
    <2>3. QED
      BY <1>4, <2>2 DEF OfChannel, Entry, ChannelItems, Cached, ChannelShape
  <1>5. CASE OnChannel
    <2> DEFINE s == ServerOf[Event.id]
               list == Append(Cached(s), Entry)
    <2>1. Receive /\ Event.kind = "CHANNEL_CREATE" /\ UpdateChannels(s, list)
      BY <1>5 DEF OnChannel, Receiving, CacheChannel
    <2>2. /\ Event.id \in Channels /\ OfChannel(Event, Event.id) /\ Entry \in ChannelItems(s)
          /\ Entry.id = Event.id /\ Entry.version = Event.version
          /\ s \in DOMAIN channels => Cached(s) \in Seq(ChannelItems(s)) /\ Cached(s) = channels[s]
      BY <1>4, <2>1
    <2>3. ASSUME s \in DOMAIN channels, NEW c, NEW v
          PROVE  /\ Has(list, c) <=> Has(channels[s], c) \/ Event.id = c
                 /\ FirstIn(channels[s], c, v) /\ (Event.id = c => Event.version = v) => FirstIn(list, c, v)
      <3> HIDE DEF s
      <3>1. QED
        BY <2>2, <2>3, Behind
    <2> HIDE DEF list
    <2>4. s \in DOMAIN channels => Noted(Event, channels[s], list, Event.id)
      BY <2>1, <2>3 DEF Noted
    <2>5. QED
      BY <1>1, <2>1, <2>2, <2>3, <2>4, Correcting
  <1>6. CASE OnEditChannel
    <2> DEFINE s == ServerOf[Event.id]
               list == Replaced(Cached(s), Entry)
    <2>1. Receive /\ Event.kind = "CHANNEL_UPDATE" /\ UpdateChannels(s, list)
      BY <1>6 DEF OnEditChannel, Receiving, CacheEditChannel
    <2>2. /\ Event.id \in Channels /\ OfChannel(Event, Event.id) /\ Entry \in ChannelItems(s)
          /\ Entry.id = Event.id /\ Entry.version = Event.version
          /\ s \in DOMAIN channels => Cached(s) \in Seq(ChannelItems(s)) /\ Cached(s) = channels[s]
      BY <1>4, <2>1
    <2>3. ASSUME s \in DOMAIN channels, NEW c, NEW v
          PROVE  /\ Has(list, c) <=> Has(channels[s], c)
                 /\ c # Event.id /\ FirstIn(channels[s], c, v) => FirstIn(list, c, v)
                 /\ FirstIn(list, Event.id, Event.version)
      <3> HIDE DEF s
      <3>1. QED
        BY <2>2, <2>3, InPlace
    <2> HIDE DEF list
    <2>4. s \in DOMAIN channels => Noted(Event, channels[s], list, Event.id)
      BY <2>1, <2>3 DEF Noted
    <2>5. QED
      BY <1>1, <2>1, <2>2, <2>3, <2>4, Correcting
  <1>7. CASE OnDeleteChannel
    <2> DEFINE s == ServerOf[Event.id]
               list == Without(Cached(s), Event.id)
    <2>1. Receive /\ Event.kind = "CHANNEL_DELETE" /\ UpdateChannels(s, list)
      BY <1>7 DEF OnDeleteChannel, Receiving, CacheDeleteChannel
    <2>2. /\ Event.id \in Channels /\ OfChannel(Event, Event.id)
          /\ s \in DOMAIN channels => Cached(s) \in Seq(ChannelItems(s)) /\ Cached(s) = channels[s]
      BY <1>4, <2>1
    <2>3. ASSUME s \in DOMAIN channels, NEW c, NEW v
          PROVE  /\ ~Has(list, Event.id)
                 /\ c # Event.id => (Has(list, c) <=> Has(channels[s], c))
                 /\ c # Event.id /\ FirstIn(channels[s], c, v) => FirstIn(list, c, v)
      <3> HIDE DEF s
      <3>1. QED
        BY <2>2, <2>3, Remaining
    <2> HIDE DEF list
    <2>4. s \in DOMAIN channels => Noted(Event, channels[s], list, Event.id)
      BY <2>1, <2>3 DEF Noted
    <2>5. QED
      BY <1>1, <2>1, <2>2, <2>3, <2>4, Correcting
  <1>8. QED
    BY <1>2, <1>3, <1>5, <1>6, <1>7 DEF Handle

\* The UI asks for something.
LEMMA ChannelsOfUI ==
  ASSUME IInv, ChannelStory, Request
  PROVE  ChannelStory'
  <1>1. InboxShape
    BY DEF IInv
  <1>2. ASSUME NEW s \in Servers, GetCachedChannels(s), UNCHANGED <<gatewayVars, discordVars>> PROVE ChannelStory'
    <2>1. /\ \A t \in missed : t \in missed' \/ \A i \in 1..Len(inbox) : ~Leaves(inbox[i], t)
          /\ \A c \in Channels : ServerOf[c] = s =>
                 Shows(channels'[s], c, s, channel[c], deleted, failed')
          /\ \A t \in DOMAIN channels' : t # s =>
                 /\ t \in DOMAIN channels /\ channels'[t] = channels[t]
                 /\ t \in failed <=> t \in failed'
                 /\ t \in missed <=> t \in missed'
      BY <1>2, Filled DEF GetCachedChannels
    <2>2. UNCHANGED <<inbox, member, channel, deleted>>
      BY <1>2 DEF gatewayVars, discordVars
    <2>3. SUFFICES ASSUME NEW c \in Channels
                   PROVE  LET t == ServerOf[c] IN
                          /\ ChannelTold(inbox, c, t, member, channel[c], deleted, missed')
                          /\ t \in DOMAIN channels' /\ t \notin missed' /\ ~Fresh(inbox) =>
                                 ChannelShown(inbox, channels'[t], c, t, channel[c], deleted, failed')
      BY <2>2 DEF ChannelStory
    <2> DEFINE t == ServerOf[c]
    <2>4. /\ ChannelTold(inbox, c, t, member, channel[c], deleted, missed)
          /\ t \in DOMAIN channels /\ t \notin missed /\ ~Fresh(inbox) =>
                 ChannelShown(inbox, channels[t], c, t, channel[c], deleted, failed)
      BY DEF ChannelStory
    <2>5. ChannelTold(inbox, c, t, member, channel[c], deleted, missed')
      <3>1. t \in missed /\ t \notin missed' => \A i \in 1..Len(inbox) : ~LeftAfter(inbox, i, t)
        <4>1. \A i \in 1..Len(inbox) : \A j \in (i + 1)..Len(inbox) : j \in 1..Len(inbox)
          BY <1>1 DEF InboxShape
        <4>2. QED
          BY <2>1, <4>1 DEF LeftAfter
      <3> HIDE DEF t
      <3>2. QED
        BY <2>4, <3>1 DEF ChannelTold
    <2>6. CASE t = s
      <3>1. Shows(channels'[t], c, t, channel[c], deleted, failed')
        BY <2>1, <2>6
      <3> HIDE DEF t
      <3>2. QED
        BY <2>5, <3>1, AsItIs DEF t
    <2>7. CASE t # s
      <3>1. t \in DOMAIN channels' => /\ t \in DOMAIN channels /\ channels'[t] = channels[t]
                                      /\ t \in failed <=> t \in failed'
                                      /\ t \in missed <=> t \in missed'
        BY <2>1, <2>7
      <3>2. ASSUME t \in failed <=> t \in failed',
                   NEW list, ChannelShown(inbox, list, c, t, channel[c], deleted, failed)
            PROVE  ChannelShown(inbox, list, c, t, channel[c], deleted, failed')
        <4> HIDE DEF t
        <4>1. Shows(list, c, t, channel[c], deleted, failed) <=> Shows(list, c, t, channel[c], deleted, failed')
          BY <3>2 DEF Shows
        <4>2. QED
          BY <3>2, <4>1 DEF ChannelShown
      <3>3. t \in DOMAIN channels' /\ t \notin missed' /\ ~Fresh(inbox) =>
                ChannelShown(inbox, channels'[t], c, t, channel[c], deleted, failed')
        <4> HIDE DEF t
        <4>1. QED
          BY <2>4, <3>1, <3>2
      <3>4. QED
        BY <2>5, <3>3
    <2>8. QED
      BY <2>6, <2>7
  <1>3. ASSUME NEW c \in VoiceChannels, Enter(c), UNCHANGED cacheVars PROVE ChannelStory'
    <2> DEFINE away == IF where[me] # None /\ ServerOf[where[me]] # ServerOf[c] THEN <<State(me, None)>> ELSE <<>>
               here == <<State(me, c), [kind |-> "VOICE_SERVER_UPDATE", channel |-> c]>>
               quiet(e) == e.kind \notin {"READY", "CHANNEL_CREATE", "CHANNEL_UPDATE", "CHANNEL_DELETE"}
    <2>1. /\ UNCHANGED <<member, channel, deleted, channels, failed, missed>>
          /\ inbox' = (inbox \o away) \o here
      BY <1>3 DEF Enter, cacheVars
    <2>2. /\ State(me, None) \in Events /\ State(me, c) \in Events
          /\ [kind |-> "VOICE_SERVER_UPDATE", channel |-> c] \in Events
          /\ quiet(State(me, None)) /\ quiet(State(me, c))
          /\ quiet([kind |-> "VOICE_SERVER_UPDATE", channel |-> c])
      BY DiscordAssumption, Formed DEF IInv, State
    <2>3. away \in Seq(Events) /\ \A i \in 1..Len(away) : quiet(away[i])
      BY <2>2
    <2>4. here \in Seq(Events) /\ Len(here) = 2 /\ \A i \in 1..2 : quiet(here[i])
      BY <2>2
    <2>5. inbox \in Seq(Events)
      BY <1>1 DEF InboxShape
    <2> HIDE DEF away, here, quiet
    <2>6. inbox' = inbox \o (away \o here) /\ away \o here \in Seq(Events)
      <3>1. away \o here \in Seq(Events)
        BY <2>3, <2>4, ConcatProperties
      <3>2. (inbox \o away) \o here = inbox \o (away \o here)
        BY <2>3, <2>4, <2>5, ConcatAssociative
      <3>3. QED
        BY <2>1, <3>1, <3>2
    <2>7. ASSUME NEW i \in 1..Len(away \o here) PROVE quiet((away \o here)[i])
      <3>1. /\ Len(away \o here) = Len(away) + 2 /\ Len(away) \in Nat
            /\ \A k \in 1..(Len(away) + 2) :
                   (away \o here)[k] = IF k <= Len(away) THEN away[k] ELSE here[k - Len(away)]
        <4>1. Len(away) \in Nat
          BY <2>3
        <4>2. /\ Len(away \o here) = Len(away) + Len(here)
              /\ \A k \in 1..(Len(away) + Len(here)) :
                     (away \o here)[k] = IF k <= Len(away) THEN away[k] ELSE here[k - Len(away)]
          BY <2>3, <2>4, ConcatProperties
        <4>3. QED
          BY <2>4, <4>1, <4>2
      <3>2. CASE i <= Len(away)
        BY <2>3, <2>7, <3>1, <3>2
      <3>3. CASE ~(i <= Len(away))
        <4>1. i - Len(away) \in 1..2 /\ (away \o here)[i] = here[i - Len(away)]
          BY <2>7, <3>1, <3>3
        <4>2. QED
          BY <2>4, <4>1
      <3>4. QED
        BY <3>2, <3>3
    <2>8. QED
      BY <1>1, <2>1, <2>6, <2>7, Besides DEF quiet
  <1>4. ASSUME UNCHANGED <<gatewayVars, discordVars, cacheVars>> PROVE ChannelStory'
    BY <1>4 DEF gatewayVars, discordVars, cacheVars, ChannelStory
  <1>5. QED
    BY <1>2, <1>3, <1>4 DEF Request

\* A connection is lost, resumed or begun anew.
LEMMA ChannelsOfConnection ==
  ASSUME IInv, ChannelStory, Connection
  PROVE  ChannelStory'
  <1>1. ASSUME UNCHANGED <<inbox, discordVars, cacheVars>> PROVE ChannelStory'
    BY <1>1 DEF discordVars, cacheVars, ChannelStory
  <1>2. CASE Resume /\ UNCHANGED <<discordVars, cacheVars>>
    <2> DEFINE e == [kind |-> "RESUMED"]
    <2>1. e \in Events /\ e.kind = "RESUMED" /\ InboxShape
      BY Formed DEF IInv
    <2>2. inbox' = Append(inbox, e) /\ UNCHANGED <<member, channel, deleted, channels, failed, missed>>
      BY <1>2 DEF Resume, discordVars, cacheVars
    <2> HIDE DEF e
    <2>3. inbox' = inbox \o <<e>> /\ <<e>> \in Seq(Events) /\ \A i \in 1..Len(<<e>>) : <<e>>[i] = e
      BY <2>1, <2>2, AppendIsConcat DEF InboxShape
    <2>4. QED
      BY <2>1, <2>2, <2>3, Besides
  <1>3. CASE Identify([i \in 1..Cardinality(member) |-> Guild(SetToSeq(member)[i])]) /\ UNCHANGED <<discordVars, cacheVars>>
    <2> DEFINE n == Cardinality(member)
               f == SetToSeq(member)
               guilds == [i \in 1..n |-> Guild(f[i])]
               ready == [kind |-> "READY"]
    <2>1. n \in Nat /\ f \in [1..n -> member] /\ member \subseteq Servers
      BY DiscordAssumption, FS_Subset, Numbering DEF IInv, Types
    <2>2. inbox' = <<ready>> \o guilds /\ UNCHANGED <<member, channel, deleted, channels, failed, missed>>
      BY <1>3 DEF Identify, discordVars, cacheVars
    <2> HIDE DEF n, f
    <2>3. \A i \in 1..n : guilds[i] \in Events /\ guilds[i].kind = "GUILD_CREATE"
      BY <2>1, Formed DEF Guild, IInv
    <2>4. DOMAIN guilds = 1..n /\ guilds = [i \in 1..n |-> guilds[i]]
      OBVIOUS
    <2> HIDE DEF guilds
    <2>5. guilds \in Seq(Events) /\ Len(guilds) = n
      BY <2>1, <2>3, <2>4
    <2>6. ready \in Events /\ ready.kind = "READY"
      BY Formed DEF IInv
    <2> HIDE DEF ready
    <2>7. <<ready>> \in Seq(Events) /\ Len(<<ready>>) = 1 /\ <<ready>>[1] = ready
      BY <2>6
    <2>8. /\ Len(inbox') = 1 + n
          /\ \A i \in 1..(1 + n) : inbox'[i] = IF i <= 1 THEN <<ready>>[i] ELSE guilds[i - 1]
      BY <2>2, <2>5, <2>7, ConcatProperties
    <2>9. inbox'[1] = ready /\ inbox' # <<>>
      BY <2>1, <2>7, <2>8
    <2>10. ASSUME NEW i \in 1..Len(inbox'), NEW c PROVE ~OfChannel(inbox'[i], c)
      <3>1. CASE i = 1
        BY <2>6, <2>9, <3>1 DEF OfChannel
      <3>2. CASE i # 1
        <4>1. i - 1 \in 1..n /\ i \in 1..(1 + n) /\ ~(i <= 1)
          BY <2>1, <2>8, <2>10, <3>2
        <4>2. inbox'[i] = guilds[i - 1]
          BY <2>8, <4>1
        <4>3. QED
          BY <2>3, <4>1, <4>2 DEF OfChannel
      <3>3. QED
        BY <3>1, <3>2
    <2>11. Fresh(inbox')
      BY <2>6, <2>9 DEF Fresh
    <2>12. QED
      BY <2>10, <2>11 DEF ChannelStory, ChannelTold
  <1>4. QED
    BY <1>1, <1>2, <1>3 DEF Connection, Drop, Reconnect, gatewayVars

\* However the list was filled and whenever the events come, once every event
\* is handled a cached channel list names no channel that is gone, the first
\* entry of each is in the latest version, and no channel is missing but from a
\* list that a failed request left.  (Not so of a server that changed while the
\* user was out of it; and a channel may be listed twice.)
THEOREM ChannelAgreement == Spec => []ChannelsAgree
  <1>1. ASSUME Init PROVE ChannelStory
    BY <1>1 DEF Init, DiscordInit, GatewayInit, CacheInit, NoChannels, ChannelStory, ChannelTold
  <1>2. IInv /\ Shapes /\ ChannelStory /\ [Next]_vars => ChannelStory'
    <2>1. SUFFICES ASSUME IInv, ChannelShape, ChannelStory, [Next]_vars PROVE ChannelStory'
      BY DEF Shapes
    <2>2. CASE UNCHANGED vars
      BY <2>1, <2>2 DEF vars, gatewayVars, discordVars, cacheVars, ChannelStory
    <2>3. CASE Next
      BY <2>1, <2>3, ChannelsOfDiscord, ChannelsOfHandler, ChannelsOfUI, ChannelsOfConnection DEF Next
    <2>4. QED
      BY <2>1, <2>2, <2>3
  <1>3. ASSUME Shapes, ChannelStory PROVE ChannelsAgree
    <2>1. SUFFICES ASSUME Quiet, NEW s \in DOMAIN channels, s \notin missed
                   PROVE  /\ Listed(channels[s]) \subseteq Live(s)
                          /\ s \notin failed => Live(s) \subseteq Listed(channels[s])
                          /\ \A c \in Listed(channels[s]) :
                                 channels[s][Index(channels[s], c)].version = channel[c]
      BY DEF ChannelsAgree
    <2> DEFINE list == channels[s]
    <2>2. list \in Seq(ChannelItems(s)) /\ s \in Servers
      BY <1>3 DEF Shapes, ChannelShape
    <2>3. ASSUME NEW c \in Channels, ServerOf[c] = s
          PROVE  Shows(list, c, s, channel[c], deleted, failed)
      <3>1. ~Fresh(inbox) /\ \A i \in 1..Len(inbox) : ~OfChannel(inbox[i], c)
        BY <2>1 DEF Quiet, Fresh
      <3>2. ChannelShown(inbox, channels[s], c, s, channel[c], deleted, failed)
        BY <1>3, <2>1, <2>3, <3>1 DEF ChannelStory
      <3>3. QED
        BY <3>1, <3>2 DEF ChannelShown
    <2> HIDE DEF list
    <2>4. \A i \in 1..Len(list) : list[i].id \in Channels /\ ServerOf[list[i].id] = s
      <3>1. \A x \in ChannelItems(s) : x.id \in Channels /\ ServerOf[x.id] = s
        BY DEF ChannelItems
      <3>2. \A i \in 1..Len(list) : list[i] \in ChannelItems(s)
        BY <2>2
      <3>3. QED
        BY <3>1, <3>2
    <2>5. \A c : c \in Listed(list) <=> Has(list, c)
      BY DEF Listed, Has, Elements
    <2>6. ASSUME NEW c \in Listed(list)
          PROVE  c \in Live(s) /\ list[Index(list, c)].version = channel[c]
      <3>1. c \in Channels /\ ServerOf[c] = s /\ Has(list, c)
        BY <2>4, <2>5, <2>6 DEF Listed
      <3>2. channel[c] > 0 /\ c \notin deleted /\ FirstIn(list, c, channel[c])
        BY <2>3, <3>1 DEF Shows
      <3>3. /\ Index(list, c) \in 1..Len(list) /\ list[Index(list, c)].id = c
            /\ \A j \in 1..(Index(list, c) - 1) : list[j].id # c
        BY <2>2, <3>1, Finding
      <3>4. QED
        BY <3>1, <3>2, <3>3 DEF FirstIn, Live
    <2>7. ASSUME s \notin failed, NEW c \in Live(s) PROVE c \in Listed(list)
      <3>1. c \in Channels /\ ServerOf[c] = s /\ channel[c] > 0 /\ c \notin deleted
        BY DEF Live
      <3>2. QED
        BY <2>3, <2>5, <2>7, <3>1 DEF Shows
    <2>8. QED
      BY <2>6, <2>7 DEF list
  <1>4. QED
    BY <1>1, <1>2, <1>3, Invariance, ShapesKept, PTL DEF Spec

-----------------------------------------------------------------------------
(* The voice states: what the events on their way say of a user. *)

OfUser(e, u) == \/ e.kind = "VOICE_STATE_UPDATE" /\ e.user = u
                \/ e.kind = "GUILD_CREATE" /\ u \in DOMAIN e.voice
Goal(e, u) == IF e.kind = "GUILD_CREATE" THEN e.voice[u] ELSE e.channel
FirstOfUser(box, i, u) == OfUser(box[i], u) /\ \A j \in 1..(i - 1) : ~OfUser(box[j], u)
LastOfUser(box, i, u) == OfUser(box[i], u) /\ \A j \in (i + 1)..Len(box) : ~OfUser(box[j], u)

NotShown(m, u) == \A c \in DOMAIN m : \A i \in 1..Len(m[c]) : m[c][i] # u
ShownAt(m, u, c) == IF c = None THEN NotShown(m, u) ELSE c \in DOMAIN m /\ Lists(m[c], u)
Once(m, u) == \A c, d \in DOMAIN m : \A i \in 1..Len(m[c]), j \in 1..Len(m[d]) :
                  m[c][i] = u /\ m[d][j] = u => c = d /\ i = j

\* What the events on their way and the states m say of a user u, who is in
\* the voice channel v of the servers the client hears of, and is passed over
\* if among `un`.  The last event tells v; a GUILD_CREATE, which does not look
\* for the user before it lists them, finds them nowhere.
VoiceStory(box, m, un, u, v) ==
    /\ Once(m, u)
    /\ u \in un => NotShown(m, u)
    /\ (\A i \in 1..Len(box) : ~OfUser(box[i], u)) /\ u \notin un => ShownAt(m, u, v)
    /\ \A i \in 1..Len(box) : LastOfUser(box, i, u) => Goal(box[i], u) = v
    /\ \A i \in 1..Len(box) : FirstOfUser(box, i, u) /\ box[i].kind = "GUILD_CREATE" => NotShown(m, u)
    /\ \A i, j \in 1..Len(box) :
           /\ i < j /\ OfUser(box[i], u) /\ OfUser(box[j], u) /\ box[j].kind = "GUILD_CREATE"
           /\ \A k \in (i + 1)..(j - 1) : ~OfUser(box[k], u)
           => Goal(box[i], u) = None

\* READY will empty the states.
Standing == IF Fresh(inbox) THEN NoStates ELSE states
PassedOver == IF Fresh(inbox) THEN {} ELSE unnamed

\* The voice channel of the user as the client hears of it.
Seen(u) == IF where[u] # None /\ ServerOf[where[u]] \in member THEN where[u] ELSE None

\* Since READY no server was left, as far as the client has heard or will hear.
Calm == /\ Fresh(inbox) \/ ~outage
        /\ \A i \in 1..Len(inbox) : inbox[i].kind # "GUILD_DELETE"

UserStory == Known /\ Calm => \A u \in Users : VoiceStory(inbox, Standing, PassedOver, u, Seen(u))
-----------------------------------------------------------------------------
(* What the handlers make of the states. *)

\* A user is shown as before.
Same(m, m1, u) == /\ Once(m, u) => Once(m1, u)
                  /\ NotShown(m, u) => NotShown(m1, u)
                  /\ \A c : c \in DOMAIN m /\ Lists(m[c], u) => c \in DOMAIN m1 /\ Lists(m1[c], u)

\* RemoveAt leaves each other entry where it was or one place nearer.
LEMMA Closing ==
  ASSUME NEW S, NEW q \in Seq(S), NEW i \in 1..Len(q)
  PROVE  /\ Len(q) \in Nat /\ Len(RemoveAt(q, i)) = Len(q) - 1
         /\ \A j \in 1..(Len(q) - 1) : RemoveAt(q, i)[j] = IF j < i THEN q[j] ELSE q[j + 1]
  <1> DEFINE a == SubSeq(q, 1, i - 1)
             b == SubSeq(q, i + 1, Len(q))
             r == RemoveAt(q, i)
  <1>1. a \in Seq(S) /\ Len(a) = i - 1 /\ \A j \in 1..(i - 1) : a[j] = q[j]
    OBVIOUS
  <1>2. b \in Seq(S) /\ Len(b) = Len(q) - i /\ \A j \in 1..(Len(q) - i) : b[j] = q[i + j]
    OBVIOUS
  <1>3. r = a \o b
    BY DEF RemoveAt
  <1>4. Len(q) \in Nat
    OBVIOUS
  <1> HIDE DEF a, b, r
  <1>5. /\ Len(r) = Len(a) + Len(b)
        /\ \A j \in 1..(Len(a) + Len(b)) : r[j] = IF j <= Len(a) THEN a[j] ELSE b[j - Len(a)]
    BY <1>1, <1>2, <1>3, ConcatProperties
  <1>6. ASSUME NEW j \in 1..(Len(q) - 1) PROVE r[j] = IF j < i THEN q[j] ELSE q[j + 1]
    <2>1. CASE j < i
      <3>1. j \in 1..(i - 1) /\ j \in 1..(Len(a) + Len(b)) /\ j <= Len(a)
        BY <1>1, <1>2, <1>4, <2>1
      <3>2. QED
        BY <1>1, <1>5, <2>1, <3>1
    <2>2. CASE ~(j < i)
      <3>1. /\ j \in 1..(Len(a) + Len(b)) /\ ~(j <= Len(a))
            /\ j - Len(a) \in 1..(Len(q) - i) /\ i + (j - Len(a)) = j + 1
        BY <1>1, <1>2, <1>4, <2>2
      <3>2. r[j] = b[j - Len(a)] /\ b[j - Len(a)] = q[i + (j - Len(a))]
        BY <1>2, <1>5, <3>1
      <3>3. QED
        BY <2>2, <3>1, <3>2
    <2>3. QED
      BY <2>1, <2>2
  <1>7. Len(r) = Len(q) - 1
    BY <1>1, <1>2, <1>4, <1>5
  <1>8. QED
    BY <1>4, <1>6, <1>7 DEF r

\* The entry of a user listed once is erased, and nobody else's.
LEMMA Quitting ==
  ASSUME NEW m, Rolls(m), NEW u
  PROVE  /\ Rolls(Left(m, u))
         /\ Once(m, u) => NotShown(Left(m, u), u)
         /\ \A w : w # u => Same(m, Left(m, u), w)
  <1> USE DiscordAssumption
  <1> DEFINE of == {c \in DOMAIN m : Lists(m[c], u)}
             c == CHOOSE d \in of : \A e \in of : d <= e
             Where == {k \in 1..Len(m[c]) : m[c][k] = u}
             i == CHOOSE k \in 1..Len(m[c]) : m[c][k] = u /\ \A j \in 1..(k - 1) : m[c][j] # u
             rest == RemoveAt(m[c], i)
             l == [d \in DOMAIN m \ (IF rest = <<>> THEN {c} ELSE {}) |-> IF d = c THEN rest ELSE m[d]]
  <1>1. Left(m, u) = IF of = {} THEN m ELSE l
    BY DEF Left
  <1>2. /\ Rolls(Left(m, u))
        /\ \A d \in DOMAIN m : \A v : v # u /\ Lists(m[d], v) =>
               d \in DOMAIN Left(m, u) /\ Lists(Left(m, u)[d], v)
    BY Leaving
  <1>3. CASE of = {}
    <2>1. NotShown(m, u) /\ Left(m, u) = m
      BY <1>1, <1>3 DEF NotShown, Lists
    <2> HIDE DEF of
    <2>2. QED
      BY <1>2, <2>1 DEF Same
  <1>4. CASE of # {}
    <2>1. of \in SUBSET Nat
      BY DEF Rolls
    <2>2. c \in of
      <3>1. \E d \in of : \A e \in of : d <= e
        BY <1>4, <2>1, Least
      <3>2. QED
        BY <3>1
    <2> HIDE DEF c
    <2>3. /\ c \in DOMAIN m /\ m[c] \in Seq(Users) /\ Len(m[c]) \in Nat
          /\ Where # {} /\ Where \in SUBSET Nat
      BY <2>2 DEF Rolls, Lists
    <2>4. i \in 1..Len(m[c]) /\ m[c][i] = u
      <3>1. PICK k \in Where : \A j \in Where : k <= j
        BY <2>3, Least
      <3>2. \A j \in 1..(k - 1) : m[c][j] # u
        BY <2>3, <3>1
      <3>3. QED
        BY <3>1, <3>2
    <2> HIDE DEF i
    <2>5. /\ Len(rest) = Len(m[c]) - 1
          /\ \A j \in 1..(Len(m[c]) - 1) : rest[j] = IF j < i THEN m[c][j] ELSE m[c][j + 1]
      BY <2>3, <2>4, Closing
    <2> HIDE DEF rest
    <2>6. Left(m, u) = l
      BY <1>1, <1>4
    <2>7. /\ DOMAIN l = DOMAIN m \ (IF rest = <<>> THEN {c} ELSE {})
          /\ \A d \in DOMAIN l : l[d] = IF d = c THEN rest ELSE m[d]
      OBVIOUS
    <2> HIDE DEF l
    \* Each entry that is left was an entry before.
    <2> DEFINE was(d, j) == IF d = c /\ ~(j < i) THEN j + 1 ELSE j
    <2>8. ASSUME NEW d \in DOMAIN l, NEW j \in 1..Len(l[d])
          PROVE  /\ d \in DOMAIN m /\ was(d, j) \in 1..Len(m[d]) /\ m[d][was(d, j)] = l[d][j]
                 /\ d = c => was(d, j) # i
      <3>1. CASE d = c
        <4>1. l[d] = rest /\ d \in DOMAIN m /\ j \in 1..(Len(m[c]) - 1)
          BY <2>5, <2>7, <2>8, <3>1
        <4>2. CASE j < i
          BY <2>3, <2>4, <2>5, <3>1, <4>1, <4>2
        <4>3. CASE ~(j < i)
          BY <2>3, <2>4, <2>5, <3>1, <4>1, <4>3
        <4>4. QED
          BY <4>2, <4>3
      <3>2. CASE d # c
        BY <2>7, <3>2
      <3>3. QED
        BY <3>1, <3>2
    <2>9. ASSUME NEW d \in DOMAIN l, NEW j \in 1..Len(l[d]), NEW k \in 1..Len(l[d]), was(d, j) = was(d, k)
          PROVE  j = k
      <3>1. j \in Int /\ k \in Int /\ i \in Int
        BY <2>4
      <3>2. QED
        BY <2>9, <3>1
    <2> HIDE DEF was
    <2>10. ASSUME Once(m, u) PROVE NotShown(l, u)
      <3>1. ASSUME NEW d \in DOMAIN l, NEW j \in 1..Len(l[d]), l[d][j] = u PROVE FALSE
        <4>1. d \in DOMAIN m /\ was(d, j) \in 1..Len(m[d]) /\ m[d][was(d, j)] = u /\ (d = c => was(d, j) # i)
          BY <2>8, <3>1
        <4>2. d = c /\ was(d, j) = i
          BY <2>3, <2>4, <2>10, <4>1 DEF Once
        <4>3. QED
          BY <4>1, <4>2
      <3>2. QED
        BY <3>1 DEF NotShown
    <2>11. ASSUME NEW w, w # u PROVE Same(m, l, w)
      <3>1. ASSUME NotShown(m, w) PROVE NotShown(l, w)
        BY <2>8, <3>1 DEF NotShown
      <3>2. ASSUME Once(m, w) PROVE Once(l, w)
        <4>1. SUFFICES ASSUME NEW d \in DOMAIN l, NEW e \in DOMAIN l,
                              NEW j \in 1..Len(l[d]), NEW k \in 1..Len(l[e]), l[d][j] = w, l[e][k] = w
                       PROVE  d = e /\ j = k
          BY DEF Once
        <4>2. /\ d \in DOMAIN m /\ was(d, j) \in 1..Len(m[d]) /\ m[d][was(d, j)] = w
              /\ e \in DOMAIN m /\ was(e, k) \in 1..Len(m[e]) /\ m[e][was(e, k)] = w
          BY <2>8, <4>1
        <4>3. d = e /\ was(d, j) = was(e, k)
          BY <3>2, <4>2 DEF Once
        <4>4. QED
          BY <2>9, <4>1, <4>3
      <3>3. QED
        BY <1>2, <2>6, <2>11, <3>1, <3>2 DEF Same
    <2>12. QED
      BY <1>2, <2>6, <2>10, <2>11
  <1>5. QED
    BY <1>3, <1>4

\* Entering shows a user who was not shown, and changes nobody else.
LEMMA ComingIn ==
  ASSUME NEW m, Rolls(m), NEW u \in Users, NEW c \in VoiceChannels
  PROVE  /\ NotShown(m, u) => Once(Entered(m, u, c), u)
         /\ c \in DOMAIN Entered(m, u, c) /\ Lists(Entered(m, u, c)[c], u)
         /\ \A w : w # u => Same(m, Entered(m, u, c), w)
  <1> DEFINE old == IF c \in DOMAIN m THEN m[c] ELSE <<>>
             new == Append(old, u)
             e == Entered(m, u, c)
  <1>1. e = [d \in DOMAIN m \cup {c} |-> IF d # c THEN m[d] ELSE new]
    BY DEF Entered
  <1>2. old \in Seq(Users)
    BY DEF Rolls
  <1>3. c \in DOMAIN m => old = m[c]
    OBVIOUS
  <1>4. c \notin DOMAIN m => Len(old) = 0
    OBVIOUS
  <1> HIDE DEF old
  <1>5. /\ Len(new) = Len(old) + 1 /\ Len(old) \in Nat
        /\ new[Len(old) + 1] = u /\ \A i \in 1..Len(old) : new[i] = old[i]
    BY <1>2, AppendProperties
  <1> HIDE DEF new, e
  <1>6. DOMAIN e = DOMAIN m \cup {c} /\ \A d \in DOMAIN e : e[d] = IF d # c THEN m[d] ELSE new
    BY <1>1
  \* Each entry but the new one was there before.
  <1>7. ASSUME NEW d \in DOMAIN e, NEW j \in 1..Len(e[d])
        PROVE  \/ d = c /\ j = Len(old) + 1 /\ e[d][j] = u
               \/ d \in DOMAIN m /\ j \in 1..Len(m[d]) /\ m[d][j] = e[d][j]
    <2>1. CASE d = c
      <3>1. j \in 1..(Len(old) + 1) /\ e[d] = new
        BY <1>5, <1>6, <1>7, <2>1
      <3>2. CASE j = Len(old) + 1
        BY <1>5, <2>1, <3>1, <3>2
      <3>3. CASE j # Len(old) + 1
        <4>1. j \in 1..Len(old)
          BY <1>5, <3>1, <3>3
        <4>2. c \in DOMAIN m
          BY <1>4, <4>1
        <4>3. QED
          BY <1>3, <1>5, <2>1, <3>1, <4>1, <4>2
      <3>4. QED
        BY <3>2, <3>3
    <2>2. CASE d # c
      BY <1>6, <2>2
    <2>3. QED
      BY <2>1, <2>2
  <1>8. ASSUME NotShown(m, u) PROVE Once(e, u)
    <2>1. \A d \in DOMAIN e : \A j \in 1..Len(e[d]) : e[d][j] = u => d = c /\ j = Len(old) + 1
      BY <1>7, <1>8 DEF NotShown
    <2>2. QED
      BY <2>1 DEF Once
  <1>9. ASSUME NEW w, w # u PROVE Same(m, e, w)
    <2>1. \A d \in DOMAIN e : \A j \in 1..Len(e[d]) : e[d][j] = w =>
              d \in DOMAIN m /\ j \in 1..Len(m[d]) /\ m[d][j] = w
      BY <1>7, <1>9
    <2>2. NotShown(m, w) => NotShown(e, w)
      BY <2>1 DEF NotShown
    <2>3. Once(m, w) => Once(e, w)
      BY <2>1 DEF Once
    <2>4. QED
      BY <2>2, <2>3, Entering DEF Same, e
  <1>10. QED
    BY <1>8, <1>9, Entering DEF e

\* A user is moved, and nobody else; who was listed once is listed once.
LEMMA Moving ==
  ASSUME NEW m, Rolls(m), NEW u \in Users, NEW c \in VoiceChannels \cup {None}
  PROVE  /\ Once(m, u) => Once(Moved(m, u, c), u) /\ ShownAt(Moved(m, u, c), u, c)
         /\ c # None => c \in DOMAIN Moved(m, u, c) /\ Lists(Moved(m, u, c)[c], u)
         /\ \A w : w # u => Same(m, Moved(m, u, c), w)
  <1>1. /\ Rolls(Left(m, u))
        /\ Once(m, u) => NotShown(Left(m, u), u)
        /\ \A w : w # u => Same(m, Left(m, u), w)
    BY Quitting
  <1>2. NotShown(Left(m, u), u) => Once(Left(m, u), u)
    BY DEF NotShown, Once
  <1>3. CASE c = None
    BY <1>1, <1>2, <1>3 DEF Moved, ShownAt
  <1>4. CASE c # None
    <2> DEFINE l == Left(m, u)
               e == Entered(l, u, c)
    <2>1. Moved(m, u, c) = e
      BY <1>4 DEF Moved
    <2> HIDE DEF l
    <2>2. /\ NotShown(l, u) => Once(e, u)
          /\ c \in DOMAIN e /\ Lists(e[c], u)
          /\ \A w : w # u => Same(l, e, w)
      BY <1>1, <1>4, ComingIn DEF l
    <2> HIDE DEF e
    <2>3. \A w : w # u => Same(m, l, w)
      BY <1>1 DEF l
    <2>4. \A w : w # u => Same(m, e, w)
      BY <2>2, <2>3 DEF Same
    <2>5. QED
      BY <1>1, <1>4, <2>1, <2>2, <2>4 DEF ShownAt, l
  <1>5. QED
    BY <1>3, <1>4

\* GUILD_CREATE shows those it lists, once who was not shown, and nobody else.
LEMMA AllIn ==
  ASSUME NEW m, Rolls(m), NEW named \in SUBSET Users, NEW at \in [named -> VoiceChannels]
  PROVE  /\ \A u \in named : NotShown(m, u) => Once(Joined(m, named, at), u)
         /\ \A u \in named : at[u] \in DOMAIN Joined(m, named, at) /\ Lists(Joined(m, named, at)[at[u]], u)
         /\ \A w : w \notin named => Same(m, Joined(m, named, at), w)
  <1> USE DiscordAssumption
  <1> DEFINE old(c) == IF c \in DOMAIN m THEN m[c] ELSE <<>>
             group(c) == {u \in named : at[u] = c}
             more(c) == SetToSeq(group(c))
             n == Joined(m, named, at)
  <1>1. DOMAIN n = DOMAIN m \cup {at[u] : u \in named} /\ \A c \in DOMAIN n : n[c] = old(c) \o more(c)
    BY DEF Joined
  <1> HIDE DEF n
  <1>2. ASSUME NEW c
        PROVE  /\ Len(old(c)) \in Nat /\ old(c) \in Seq(Users)
               /\ Len(more(c)) \in Nat /\ more(c) \in Seq(Users)
               /\ \A i \in 1..Len(more(c)) : more(c)[i] \in group(c)
               /\ \A i, j \in 1..Len(more(c)) : more(c)[i] = more(c)[j] => i = j
               /\ \A x \in group(c) : \E i \in 1..Len(more(c)) : more(c)[i] = x
    <2> DEFINE T == group(c)
               f == SetToSeq(T)
               k == Cardinality(T)
    <2>1. T \in SUBSET Users /\ IsFiniteSet(T)
      BY FS_Subset
    <2>2. more(c) = f
      OBVIOUS
    <2> HIDE DEF T
    <2>3. /\ k \in Nat /\ f \in [1..k -> T]
          /\ \A i, j \in 1..k : f[i] = f[j] => i = j
          /\ \A x \in T : \E i \in 1..k : f[i] = x
      BY <2>1, Numbering
    <2> HIDE DEF f, k
    <2>4. f \in Seq(Users) /\ Len(f) = k
      BY <2>1, <2>3
    <2>5. old(c) \in Seq(Users)
      BY DEF Rolls
    <2> HIDE DEF old, more, group
    <2>6. Len(old(c)) \in Nat
      BY <2>5
    <2>7. QED
      BY <2>2, <2>3, <2>4, <2>5, <2>6 DEF T
  <1>3. \A c : (c \in DOMAIN m => old(c) = m[c]) /\ (c \notin DOMAIN m => Len(old(c)) = 0)
    OBVIOUS
  <1>4. \A u \in named : u \in group(at[u]) /\ at[u] \in DOMAIN n
    BY <1>1
  <1>5. \A c : \A x \in group(c) : x \in named /\ at[x] = c
    OBVIOUS
  <1> HIDE DEF old, group, more
  <1>6. ASSUME NEW c \in DOMAIN n
        PROVE  /\ Len(n[c]) = Len(old(c)) + Len(more(c))
               /\ \A i \in 1..(Len(old(c)) + Len(more(c))) :
                      n[c][i] = IF i <= Len(old(c)) THEN old(c)[i] ELSE more(c)[i - Len(old(c))]
    <2> DEFINE a == old(c)
               b == more(c)
    <2>1. a \in Seq(Users) /\ b \in Seq(Users) /\ n[c] = a \o b
      BY <1>1, <1>2
    <2> HIDE DEF a, b
    <2>2. /\ Len(n[c]) = Len(a) + Len(b)
          /\ \A i \in 1..(Len(a) + Len(b)) : n[c][i] = IF i <= Len(a) THEN a[i] ELSE b[i - Len(a)]
      BY <2>1, ConcatProperties
    <2>3. QED
      BY <2>2 DEF a, b
  \* Each entry was there before or is one of those listed.
  <1>7. ASSUME NEW c \in DOMAIN n, NEW i \in 1..Len(n[c])
        PROVE  \/ c \in DOMAIN m /\ i \in 1..Len(m[c]) /\ m[c][i] = n[c][i]
               \/ /\ n[c][i] \in named /\ at[n[c][i]] = c
                  /\ i - Len(old(c)) \in 1..Len(more(c)) /\ more(c)[i - Len(old(c))] = n[c][i]
    <2>1. /\ Len(old(c)) \in Nat /\ Len(more(c)) \in Nat /\ i \in 1..(Len(old(c)) + Len(more(c)))
          /\ n[c][i] = IF i <= Len(old(c)) THEN old(c)[i] ELSE more(c)[i - Len(old(c))]
      BY <1>2, <1>6, <1>7
    <2>2. CASE i <= Len(old(c))
      <3>1. i \in 1..Len(old(c)) /\ c \in DOMAIN m
        BY <1>3, <2>1, <2>2
      <3>2. QED
        BY <1>3, <2>1, <2>2, <3>1
    <2>3. CASE ~(i <= Len(old(c)))
      <3>1. i - Len(old(c)) \in 1..Len(more(c))
        BY <2>1, <2>3
      <3>2. more(c)[i - Len(old(c))] \in group(c)
        BY <1>2, <3>1
      <3>3. QED
        BY <1>5, <2>1, <2>3, <3>1, <3>2
    <2>4. QED
      BY <2>2, <2>3
  <1>8. ASSUME NEW u \in named, NotShown(m, u) PROVE Once(n, u)
    <2>1. \A c \in DOMAIN n : \A i \in 1..Len(n[c]) : n[c][i] = u =>
              c = at[u] /\ i - Len(old(c)) \in 1..Len(more(c)) /\ more(c)[i - Len(old(c))] = u
      BY <1>7, <1>8 DEF NotShown
    <2>2. SUFFICES ASSUME NEW c \in DOMAIN n, NEW d \in DOMAIN n,
                          NEW i \in 1..Len(n[c]), NEW j \in 1..Len(n[d]), n[c][i] = u, n[d][j] = u
                   PROVE  c = d /\ i = j
      BY DEF Once
    <2>3. /\ c = at[u] /\ i - Len(old(c)) \in 1..Len(more(c)) /\ more(c)[i - Len(old(c))] = u
          /\ d = c /\ j - Len(old(c)) \in 1..Len(more(c)) /\ more(c)[j - Len(old(c))] = u
      <3>1. c = at[u] /\ d = at[u]
        BY <2>1, <2>2
      <3>2. i - Len(old(c)) \in 1..Len(more(c)) /\ more(c)[i - Len(old(c))] = u
        BY <2>1, <2>2
      <3>3. j - Len(old(d)) \in 1..Len(more(d)) /\ more(d)[j - Len(old(d))] = u
        BY <2>1, <2>2
      <3>4. QED
        BY <3>1, <3>2, <3>3
    <2>4. \A k, l \in 1..Len(more(c)) : more(c)[k] = more(c)[l] => k = l
      BY <1>2
    <2>5. i - Len(old(c)) = j - Len(old(c))
      BY <2>3, <2>4
    <2>6. Len(old(c)) \in Nat
      BY <1>2
    <2>7. QED
      BY <2>2, <2>3, <2>6, <2>5
  <1>9. ASSUME NEW u \in named PROVE Lists(n[at[u]], u)
    <2> DEFINE c == at[u]
    <2>1. PICK i \in 1..Len(more(c)) : more(c)[i] = u
      BY <1>2, <1>4
    <2>2. Len(old(c)) \in Nat /\ Len(more(c)) \in Nat /\ c \in DOMAIN n
      BY <1>2, <1>4
    <2>3. /\ Len(n[c]) = Len(old(c)) + Len(more(c))
          /\ \A k \in 1..(Len(old(c)) + Len(more(c))) :
                 n[c][k] = IF k <= Len(old(c)) THEN old(c)[k] ELSE more(c)[k - Len(old(c))]
      BY <1>6, <2>2
    <2> HIDE DEF c
    <2>4. /\ Len(old(c)) + i \in 1..(Len(old(c)) + Len(more(c))) /\ ~(Len(old(c)) + i <= Len(old(c)))
          /\ (Len(old(c)) + i) - Len(old(c)) = i
      BY <2>1, <2>2
    <2>5. n[c][Len(old(c)) + i] = u
      BY <2>1, <2>3, <2>4
    <2>6. QED
      BY <2>3, <2>4, <2>5 DEF Lists, c
  <1>10. ASSUME NEW w, w \notin named PROVE Same(m, n, w)
    <2>1. \A c \in DOMAIN n : \A i \in 1..Len(n[c]) : n[c][i] = w =>
              c \in DOMAIN m /\ i \in 1..Len(m[c]) /\ m[c][i] = w
      BY <1>7, <1>10
    <2>2. NotShown(m, w) => NotShown(n, w)
      BY <2>1 DEF NotShown
    <2>3. Once(m, w) => Once(n, w)
      BY <2>1 DEF Once
    <2>4. QED
      BY <2>2, <2>3, Listing DEF Same, n
  <1>11. QED
    BY <1>4, <1>8, <1>9, <1>10 DEF n

-----------------------------------------------------------------------------
(* What becomes of a user's story. *)

\* Events about other things leave it.
LEMMA Apart ==
  ASSUME NEW Message, NEW box \in Seq(Message), NEW more \in Seq(Message), NEW u, NEW m, NEW un, NEW v,
         \A i \in 1..Len(more) : ~OfUser(more[i], u),
         VoiceStory(box, m, un, u, v)
  PROVE  VoiceStory(box \o more, m, un, u, v)
  <1> DEFINE b == box \o more
  <1>1. /\ Len(box) \in Nat /\ Len(b) \in Nat
        /\ \A i \in 1..Len(box) : i \in 1..Len(b) /\ b[i] = box[i]
        /\ \A i \in 1..Len(b) : i > Len(box) => ~OfUser(b[i], u)
    BY ConcatProperties
  <1> HIDE DEF b
  <1>2. \A i \in 1..Len(b) : OfUser(b[i], u) => i \in 1..Len(box) /\ b[i] = box[i]
    BY <1>1
  <1>3. \A i \in 1..Len(b) : LastOfUser(b, i, u) => i \in 1..Len(box) /\ b[i] = box[i] /\ LastOfUser(box, i, u)
    BY <1>1, <1>2 DEF LastOfUser
  <1>4. \A i \in 1..Len(b) : FirstOfUser(b, i, u) => i \in 1..Len(box) /\ b[i] = box[i] /\ FirstOfUser(box, i, u)
    BY <1>1, <1>2 DEF FirstOfUser
  <1>5. (\A i \in 1..Len(b) : ~OfUser(b[i], u)) => \A i \in 1..Len(box) : ~OfUser(box[i], u)
    BY <1>1
  <1>6. ASSUME NEW i \in 1..Len(b), NEW j \in 1..Len(b), i < j, OfUser(b[i], u), OfUser(b[j], u),
               b[j].kind = "GUILD_CREATE", \A k \in (i + 1)..(j - 1) : ~OfUser(b[k], u)
        PROVE  Goal(b[i], u) = None
    <2>1. i \in 1..Len(box) /\ j \in 1..Len(box) /\ b[i] = box[i] /\ b[j] = box[j]
      BY <1>2, <1>6
    <2>2. \A k \in (i + 1)..(j - 1) : ~OfUser(box[k], u)
      BY <1>1, <1>6, <2>1
    <2>3. QED
      BY <1>6, <2>1, <2>2 DEF VoiceStory
  <1>7. QED
    BY <1>3, <1>4, <1>5, <1>6 DEF VoiceStory, b

\* The user moves and the client is told, or is in a server that the client's
\* user joins.
LEMMA ToldOf ==
  ASSUME NEW Message, NEW box \in Seq(Message), NEW e \in Message, NEW u, NEW m, NEW un, NEW v, NEW v1,
         OfUser(e, u), Goal(e, u) = v1, e.kind = "GUILD_CREATE" => v = None,
         VoiceStory(box, m, un, u, v)
  PROVE  VoiceStory(Append(box, e), m, un, u, v1)
  <1> DEFINE b == Append(box, e)
             n == Len(box) + 1
  <1>1. /\ Len(box) \in Nat /\ Len(b) = n /\ b[n] = e
        /\ \A i \in 1..Len(box) : b[i] = box[i]
        /\ \A i \in 1..Len(b) : i \in 1..Len(box) \/ i = n
    BY AppendProperties
  <1> HIDE DEF b
  <1>2. \A i \in 1..Len(b) : LastOfUser(b, i, u) => i = n
    BY <1>1 DEF LastOfUser
  <1>3. n \in 1..Len(b) /\ OfUser(b[n], u)
    BY <1>1
  <1>4. ASSUME NEW i \in 1..Len(b), FirstOfUser(b, i, u), b[i].kind = "GUILD_CREATE" PROVE NotShown(m, u)
    <2>1. CASE i = n
      <3>1. \A j \in 1..Len(box) : ~OfUser(box[j], u)
        <4>1. \A j \in 1..Len(box) : j \in 1..(n - 1)
          BY <1>1
        <4>2. QED
          BY <1>1, <1>4, <2>1, <4>1 DEF FirstOfUser
      <3>2. v = None
        BY <1>1, <1>4, <2>1
      <3>3. QED
        BY <3>1, <3>2 DEF VoiceStory, ShownAt
    <2>2. CASE i # n
      <3>1. i \in 1..Len(box) /\ b[i] = box[i] /\ FirstOfUser(box, i, u)
        BY <1>1, <1>4, <2>2 DEF FirstOfUser
      <3>2. QED
        BY <1>4, <3>1 DEF VoiceStory
    <2>3. QED
      BY <2>1, <2>2
  <1>5. ASSUME NEW i \in 1..Len(b), NEW j \in 1..Len(b), i < j, OfUser(b[i], u), OfUser(b[j], u),
               b[j].kind = "GUILD_CREATE", \A k \in (i + 1)..(j - 1) : ~OfUser(b[k], u)
        PROVE  Goal(b[i], u) = None
    <2>1. i \in 1..Len(box) /\ b[i] = box[i] /\ \A k \in (i + 1)..(j - 1) : k \in 1..Len(box) /\ ~OfUser(box[k], u)
      BY <1>1, <1>5
    <2>2. CASE j = n
      <3>1. LastOfUser(box, i, u)
        BY <1>1, <1>5, <2>1, <2>2 DEF LastOfUser
      <3>2. v = None
        BY <1>1, <1>5, <2>2
      <3>3. QED
        BY <2>1, <3>1, <3>2 DEF VoiceStory
    <2>3. CASE j # n
      <3>1. j \in 1..Len(box) /\ b[j] = box[j]
        BY <1>1, <2>3
      <3>2. QED
        BY <1>5, <2>1, <3>1 DEF VoiceStory
    <2>4. QED
      BY <2>2, <2>3
  <1>6. QED
    BY <1>1, <1>2, <1>3, <1>4, <1>5 DEF VoiceStory, b

\* What Tail does to the positions, for a user u.
LEMMA ShorterOf ==
  ASSUME NEW Message, NEW box \in Seq(Message), box # <<>>, NEW u
  PROVE  /\ Len(box) \in Nat /\ 1 \in 1..Len(box) /\ Head(box) = box[1]
         /\ \A i \in 1..Len(Tail(box)) : i + 1 \in 2..Len(box) /\ Tail(box)[i] = box[i + 1]
         /\ \A i \in 2..Len(box) : i - 1 \in 1..Len(Tail(box)) /\ Tail(box)[i - 1] = box[i]
         /\ \A i \in 1..Len(Tail(box)) : LastOfUser(Tail(box), i, u) <=> LastOfUser(box, i + 1, u)
         /\ \A i \in 1..Len(Tail(box)) : FirstOfUser(Tail(box), i, u) =>
                OfUser(box[i + 1], u) /\ \A k \in 2..i : ~OfUser(box[k], u)
         /\ \A i, j \in 1..Len(Tail(box)) : (\A k \in (i + 1)..(j - 1) : ~OfUser(Tail(box)[k], u)) =>
                \A k \in ((i + 1) + 1)..((j + 1) - 1) : ~OfUser(box[k], u)
  <1> DEFINE b == Tail(box)
  <1>1. Len(box) \in Nat /\ Len(box) >= 1 /\ Len(b) = Len(box) - 1 /\ Head(box) = box[1] /\ 1 \in 1..Len(box)
    <2>1. Len(box) \in Nat /\ Len(box) >= 1 /\ Len(b) = Len(box) - 1 /\ Head(box) = box[1]
      BY HeadTailProperties
    <2>2. QED
      BY <2>1
  <1>2. \A i \in 1..Len(b) : b[i] = box[i + 1]
    BY HeadTailProperties
  <1> HIDE DEF b
  <1>3. \A i \in 1..Len(b) : i + 1 \in 2..Len(box)
    BY <1>1
  <1>4. \A i \in 2..Len(box) : i - 1 \in 1..Len(b) /\ (i - 1) + 1 = i
    BY <1>1
  <1>5. \A i \in 2..Len(box) : b[i - 1] = box[i]
    BY <1>2, <1>4
  <1>6. ASSUME NEW i \in 1..Len(b) PROVE LastOfUser(b, i, u) <=> LastOfUser(box, i + 1, u)
    <2>1. ASSUME NEW j \in (i + 1)..Len(b) PROVE j + 1 \in ((i + 1) + 1)..Len(box) /\ b[j] = box[j + 1]
      <3>1. j + 1 \in ((i + 1) + 1)..Len(box) /\ j \in 1..Len(b)
        BY <1>1
      <3>2. QED
        BY <1>2, <3>1
    <2>2. ASSUME NEW j \in ((i + 1) + 1)..Len(box) PROVE j - 1 \in (i + 1)..Len(b) /\ b[j - 1] = box[j]
      <3>1. j - 1 \in (i + 1)..Len(b) /\ j \in 2..Len(box)
        BY <1>1
      <3>2. QED
        BY <1>5, <3>1
    <2>3. QED
      BY <1>2, <2>1, <2>2 DEF LastOfUser
  <1>7. ASSUME NEW i \in 1..Len(b), FirstOfUser(b, i, u)
        PROVE  OfUser(box[i + 1], u) /\ \A k \in 2..i : ~OfUser(box[k], u)
    <2>1. ASSUME NEW k \in 2..i PROVE ~OfUser(box[k], u)
      <3>1. k - 1 \in 1..(i - 1) /\ k \in 2..Len(box)
        BY <1>1
      <3>2. QED
        BY <1>5, <1>7, <3>1 DEF FirstOfUser
    <2>2. QED
      BY <1>2, <1>7, <2>1 DEF FirstOfUser
  <1>8. ASSUME NEW i \in 1..Len(b), NEW j \in 1..Len(b), \A k \in (i + 1)..(j - 1) : ~OfUser(b[k], u),
               NEW k \in ((i + 1) + 1)..((j + 1) - 1)
        PROVE  ~OfUser(box[k], u)
    <2>1. k - 1 \in (i + 1)..(j - 1) /\ k \in 2..Len(box)
      BY <1>1
    <2>2. QED
      BY <1>5, <1>8, <2>1
  <1>9. QED
    BY <1>1, <1>2, <1>3, <1>4, <1>5, <1>6, <1>7, <1>8 DEF b

\* An event about others is handled.
LEMMA Unmoved ==
  ASSUME NEW Message, NEW box \in Seq(Message), box # <<>>, NEW u, NEW m, NEW m1, NEW un, NEW un1, NEW v,
         ~OfUser(Head(box), u), Same(m, m1, u), u \in un1 <=> u \in un,
         VoiceStory(box, m, un, u, v)
  PROVE  VoiceStory(Tail(box), m1, un1, u, v)
  <1> DEFINE b == Tail(box)
  <1>1. /\ Len(box) \in Nat /\ 1 \in 1..Len(box) /\ Head(box) = box[1]
        /\ \A i \in 1..Len(b) : i + 1 \in 2..Len(box) /\ b[i] = box[i + 1]
        /\ \A i \in 2..Len(box) : i - 1 \in 1..Len(b) /\ b[i - 1] = box[i]
        /\ \A i \in 1..Len(b) : LastOfUser(b, i, u) <=> LastOfUser(box, i + 1, u)
        /\ \A i \in 1..Len(b) : FirstOfUser(b, i, u) =>
               OfUser(box[i + 1], u) /\ \A k \in 2..i : ~OfUser(box[k], u)
        /\ \A i, j \in 1..Len(b) : (\A k \in (i + 1)..(j - 1) : ~OfUser(b[k], u)) =>
               \A k \in ((i + 1) + 1)..((j + 1) - 1) : ~OfUser(box[k], u)
    BY ShorterOf
  <1>2. Len(b) \in Nat
    BY HeadTailProperties
  <1> HIDE DEF b
  <1>3. (\A i \in 1..Len(b) : ~OfUser(b[i], u)) => \A i \in 1..Len(box) : ~OfUser(box[i], u)
    <2>1. \A i \in 1..Len(box) : i = 1 \/ i \in 2..Len(box)
      BY <1>1
    <2>2. QED
      BY <1>1, <2>1
  <1>4. ASSUME NEW i \in 1..Len(b) PROVE i + 1 \in 1..Len(box) /\ b[i] = box[i + 1]
    BY <1>1
  <1>5. ASSUME NEW i \in 1..Len(b), FirstOfUser(b, i, u) PROVE FirstOfUser(box, i + 1, u)
    <2>1. \A k \in 1..((i + 1) - 1) : k = 1 \/ k \in 2..i
      BY <1>2
    <2>2. QED
      BY <1>1, <1>5, <2>1 DEF FirstOfUser
  <1>6. ASSUME NEW i \in 1..Len(b), NEW j \in 1..Len(b), i < j, OfUser(b[i], u), OfUser(b[j], u),
               b[j].kind = "GUILD_CREATE", \A k \in (i + 1)..(j - 1) : ~OfUser(b[k], u)
        PROVE  Goal(b[i], u) = None
    <2>1. /\ i + 1 \in 1..Len(box) /\ j + 1 \in 1..Len(box) /\ b[i] = box[i + 1] /\ b[j] = box[j + 1]
          /\ i + 1 < j + 1
      BY <1>2, <1>4, <1>6
    <2>2. \A k \in ((i + 1) + 1)..((j + 1) - 1) : ~OfUser(box[k], u)
      BY <1>1, <1>6
    <2>3. QED
      BY <1>6, <2>1, <2>2 DEF VoiceStory
  <1>7. ShownAt(m, u, v) => ShownAt(m1, u, v)
    BY DEF ShownAt, Same
  <1>8. ASSUME NEW i \in 1..Len(b), LastOfUser(b, i, u) PROVE Goal(b[i], u) = v
    <2>1. LastOfUser(box, i + 1, u)
      BY <1>1, <1>8
    <2>2. QED
      BY <1>4, <2>1 DEF VoiceStory
  <1>9. ASSUME NEW i \in 1..Len(b), FirstOfUser(b, i, u), b[i].kind = "GUILD_CREATE" PROVE NotShown(m1, u)
    BY <1>4, <1>5, <1>9 DEF VoiceStory, Same
  <1>10. Once(m1, u) /\ (u \in un1 => NotShown(m1, u))
    BY DEF VoiceStory, Same
  <1>11. (\A i \in 1..Len(b) : ~OfUser(b[i], u)) /\ u \notin un1 => ShownAt(m1, u, v)
    BY <1>3, <1>7 DEF VoiceStory
  <1>12. QED
    BY <1>6, <1>8, <1>9, <1>10, <1>11 DEF VoiceStory, b

\* An event about the user is handled: what it tells is shown, or the user is
\* passed over.
LEMMA NowMoved ==
  ASSUME NEW Message, NEW box \in Seq(Message), box # <<>>, NEW u, NEW m, NEW m1, NEW un, NEW un1, NEW v,
         OfUser(Head(box), u), Once(m1, u),
         IF u \in un1 THEN NotShown(m1, u) ELSE ShownAt(m1, u, Goal(Head(box), u)),
         VoiceStory(box, m, un, u, v)
  PROVE  VoiceStory(Tail(box), m1, un1, u, v)
  <1> DEFINE b == Tail(box)
             e == Head(box)
  <1>1. /\ Len(box) \in Nat /\ 1 \in 1..Len(box) /\ e = box[1]
        /\ \A i \in 1..Len(b) : i + 1 \in 2..Len(box) /\ b[i] = box[i + 1]
        /\ \A i \in 2..Len(box) : i - 1 \in 1..Len(b) /\ b[i - 1] = box[i]
        /\ \A i \in 1..Len(b) : LastOfUser(b, i, u) <=> LastOfUser(box, i + 1, u)
        /\ \A i \in 1..Len(b) : FirstOfUser(b, i, u) =>
               OfUser(box[i + 1], u) /\ \A k \in 2..i : ~OfUser(box[k], u)
        /\ \A i, j \in 1..Len(b) : (\A k \in (i + 1)..(j - 1) : ~OfUser(b[k], u)) =>
               \A k \in ((i + 1) + 1)..((j + 1) - 1) : ~OfUser(box[k], u)
    BY ShorterOf
  <1>2. Len(b) \in Nat
    BY HeadTailProperties
  <1> HIDE DEF b, e
  <1>3. ASSUME NEW i \in 1..Len(b) PROVE i + 1 \in 1..Len(box) /\ b[i] = box[i + 1]
    BY <1>1
  <1>4. OfUser(box[1], u)
    BY <1>1 DEF e
  <1>5. ASSUME \A i \in 1..Len(b) : ~OfUser(b[i], u), u \notin un1 PROVE ShownAt(m1, u, v)
    <2>1. \A i \in 2..Len(box) : ~OfUser(box[i], u)
      BY <1>1, <1>5
    <2>2. LastOfUser(box, 1, u)
      BY <1>4, <2>1 DEF LastOfUser
    <2>3. Goal(e, u) = v
      BY <1>1, <2>2 DEF VoiceStory
    <2>4. QED
      BY <1>5, <2>3 DEF e
  <1>6. ASSUME NEW i \in 1..Len(b), FirstOfUser(b, i, u), b[i].kind = "GUILD_CREATE" PROVE NotShown(m1, u)
    <2>1. i + 1 \in 1..Len(box) /\ 1 < i + 1 /\ box[i + 1].kind = "GUILD_CREATE" /\ OfUser(box[i + 1], u)
      BY <1>1, <1>2, <1>6
    <2>2. \A k \in (1 + 1)..((i + 1) - 1) : ~OfUser(box[k], u)
      <3>1. \A k \in (1 + 1)..((i + 1) - 1) : k \in 2..i
        BY <1>2
      <3>2. QED
        BY <1>1, <1>6, <3>1
    <2>3. Goal(e, u) = None
      BY <1>1, <1>4, <2>1, <2>2 DEF VoiceStory
    <2>4. QED
      BY <2>3 DEF ShownAt, e
  <1>7. ASSUME NEW i \in 1..Len(b), NEW j \in 1..Len(b), i < j, OfUser(b[i], u), OfUser(b[j], u),
               b[j].kind = "GUILD_CREATE", \A k \in (i + 1)..(j - 1) : ~OfUser(b[k], u)
        PROVE  Goal(b[i], u) = None
    <2>1. /\ i + 1 \in 1..Len(box) /\ j + 1 \in 1..Len(box) /\ b[i] = box[i + 1] /\ b[j] = box[j + 1]
          /\ i + 1 < j + 1
      BY <1>2, <1>3, <1>7
    <2>2. \A k \in ((i + 1) + 1)..((j + 1) - 1) : ~OfUser(box[k], u)
      BY <1>1, <1>7
    <2>3. QED
      BY <1>7, <2>1, <2>2 DEF VoiceStory
  <1>8. ASSUME NEW i \in 1..Len(b), LastOfUser(b, i, u) PROVE Goal(b[i], u) = v
    <2>1. LastOfUser(box, i + 1, u)
      BY <1>1, <1>8
    <2>2. QED
      BY <1>3, <2>1 DEF VoiceStory
  <1>9. QED
    BY <1>5, <1>6, <1>7, <1>8 DEF VoiceStory, b

\* A new session tells of each user in one server at most, and READY shows
\* nobody.
LEMMA AllAnew ==
  ASSUME NEW Message, NEW guilds \in Seq(Message), NEW ready \in Message, NEW u, NEW v,
         ready.kind = "READY",
         \A i \in 1..Len(guilds) : guilds[i].kind = "GUILD_CREATE",
         \A i \in 1..Len(guilds) : u \in DOMAIN guilds[i].voice => guilds[i].voice[u] = v /\ v # None,
         \A i, j \in 1..Len(guilds) : u \in DOMAIN guilds[i].voice /\ u \in DOMAIN guilds[j].voice => i = j,
         v # None => \E i \in 1..Len(guilds) : u \in DOMAIN guilds[i].voice
  PROVE  VoiceStory(<<ready>> \o guilds, NoStates, {}, u, v)
  <1> DEFINE b == <<ready>> \o guilds
  <1>1. /\ Len(guilds) \in Nat /\ Len(b) = Len(guilds) + 1 /\ b[1] = ready
        /\ \A i \in 1..Len(guilds) : b[i + 1] = guilds[i]
    <2>1. <<ready>> \in Seq(Message) /\ Len(<<ready>>) = 1 /\ <<ready>>[1] = ready
      OBVIOUS
    <2>2. /\ Len(b) = 1 + Len(guilds)
          /\ \A i \in 1..(1 + Len(guilds)) : b[i] = IF i <= 1 THEN <<ready>>[i] ELSE guilds[i - 1]
      BY <2>1, ConcatProperties
    <2> HIDE DEF b
    <2>3. Len(guilds) \in Nat
      OBVIOUS
    <2>4. ASSUME NEW i \in 1..Len(guilds) PROVE b[i + 1] = guilds[i]
      <3>1. i + 1 \in 1..(1 + Len(guilds)) /\ ~(i + 1 <= 1) /\ (i + 1) - 1 = i
        BY <2>3
      <3>2. QED
        BY <2>2, <3>1
    <2>5. b[1] = ready
      BY <2>1, <2>2, <2>3
    <2>6. Len(b) = Len(guilds) + 1
      BY <2>2, <2>3
    <2>7. QED
      BY <2>3, <2>4, <2>5, <2>6
  <1> HIDE DEF b
  <1>2. ASSUME NEW i \in 1..Len(b), OfUser(b[i], u)
        PROVE  i - 1 \in 1..Len(guilds) /\ b[i] = guilds[i - 1] /\ u \in DOMAIN guilds[i - 1].voice
    <2>1. i # 1
      BY <1>1, <1>2 DEF OfUser
    <2>2. i - 1 \in 1..Len(guilds) /\ (i - 1) + 1 = i
      BY <1>1, <1>2, <2>1
    <2>3. b[i] = guilds[i - 1]
      BY <1>1, <2>2
    <2>4. QED
      BY <1>2, <2>2, <2>3 DEF OfUser
  <1>3. NotShown(NoStates, u) /\ Once(NoStates, u)
    BY DEF NoStates, NotShown, Once
  <1>4. ASSUME \A i \in 1..Len(b) : ~OfUser(b[i], u) PROVE v = None
    <2>1. SUFFICES ASSUME NEW i \in 1..Len(guilds), u \in DOMAIN guilds[i].voice PROVE FALSE
      OBVIOUS
    <2>2. i + 1 \in 1..Len(b) /\ b[i + 1] = guilds[i]
      BY <1>1
    <2>3. QED
      BY <1>4, <2>1, <2>2 DEF OfUser
  <1>5. ASSUME NEW i \in 1..Len(b), OfUser(b[i], u) PROVE Goal(b[i], u) = v
    BY <1>2, <1>5 DEF Goal
  <1>6. ASSUME NEW i \in 1..Len(b), NEW j \in 1..Len(b), i < j, OfUser(b[i], u), OfUser(b[j], u) PROVE FALSE
    <2>1. i - 1 = j - 1
      BY <1>2, <1>6
    <2>2. QED
      BY <1>6, <2>1
  <1>7. QED
    BY <1>3, <1>4, <1>5, <1>6 DEF VoiceStory, LastOfUser, ShownAt, b

-----------------------------------------------------------------------------
(* The steps, for the voice states. *)

\* What is sent makes no session begin and no server come back.
LEMMA Calmer ==
  ASSUME InboxShape, NEW more \in Seq(Events), \A i \in 1..Len(more) : more[i].kind # "READY",
         inbox' = inbox \o more, UNCHANGED <<states, unnamed, outage>>
  PROVE  (Calm' => Calm) /\ Standing' = Standing /\ PassedOver' = PassedOver
  <1>1. /\ Len(inbox) \in Nat /\ Len(inbox') \in Nat
        /\ \A i \in 1..Len(inbox) : i \in 1..Len(inbox') /\ inbox'[i] = inbox[i]
        /\ \A i \in 1..Len(inbox') : i > Len(inbox) => inbox'[i].kind # "READY"
        /\ inbox' = <<>> <=> Len(inbox') = 0
        /\ inbox = <<>> <=> Len(inbox) = 0
    <2>1. /\ inbox \o more \in Seq(Events) /\ Len(inbox \o more) = Len(inbox) + Len(more)
          /\ Len(inbox) \in Nat /\ Len(more) \in Nat
          /\ \A i \in 1..(Len(inbox) + Len(more)) :
                 (inbox \o more)[i] = IF i <= Len(inbox) THEN inbox[i] ELSE more[i - Len(inbox)]
      BY ConcatProperties DEF InboxShape
    <2>2. \A i \in 1..Len(inbox') : i > Len(inbox) => i - Len(inbox) \in 1..Len(more)
      BY <2>1
    <2>3. QED
      BY <2>1, <2>2 DEF InboxShape
  <1>2. Fresh(inbox') <=> Fresh(inbox)
    BY <1>1 DEF Fresh
  <1>3. (\A i \in 1..Len(inbox') : inbox'[i].kind # "GUILD_DELETE") =>
            \A i \in 1..Len(inbox) : inbox[i].kind # "GUILD_DELETE"
    BY <1>1
  <1>4. Calm' => Calm
    BY <1>2, <1>3 DEF Calm
  <1>5. Standing' = Standing /\ PassedOver' = PassedOver
    BY <1>2 DEF Standing, PassedOver
  <1>6. QED
    BY <1>4, <1>5

\* An event is sent that tells what becomes of the users it is about.
LEMMA Spoken ==
  ASSUME InboxShape, UserStory, NEW e \in Events, e.kind # "READY", inbox' = Append(inbox, e),
         Known' => Known, UNCHANGED <<states, unnamed, outage>>,
         \A u \in Users : IF OfUser(e, u)
                          THEN Goal(e, u) = Seen(u)' /\ (e.kind = "GUILD_CREATE" => Seen(u) = None)
                          ELSE Seen(u)' = Seen(u)
  PROVE  UserStory'
  <1>1. /\ inbox \in Seq(Events) /\ <<e>> \in Seq(Events) /\ inbox' = inbox \o <<e>>
        /\ \A i \in 1..Len(<<e>>) : <<e>>[i] = e
    BY AppendIsConcat DEF InboxShape
  <1>2. (Calm' => Calm) /\ Standing' = Standing /\ PassedOver' = PassedOver
    BY <1>1, Calmer
  <1>3. SUFFICES ASSUME Known, Calm, NEW u \in Users PROVE VoiceStory(inbox', Standing, PassedOver, u, Seen(u)')
    BY <1>2 DEF UserStory
  <1>4. VoiceStory(inbox, Standing, PassedOver, u, Seen(u))
    BY <1>3 DEF UserStory
  <1> DEFINE m == Standing
             un == PassedOver
             v == Seen(u)
             v1 == Seen(u)'
  <1>5. /\ VoiceStory(inbox, m, un, u, v)
        /\ IF OfUser(e, u) THEN Goal(e, u) = v1 /\ (e.kind = "GUILD_CREATE" => v = None) ELSE v1 = v
    BY <1>4
  <1> HIDE DEF m, un, v, v1
  <1>6. CASE OfUser(e, u)
    <2>1. VoiceStory(Append(inbox, e), m, un, u, v1)
      BY <1>1, <1>5, <1>6, ToldOf
    <2>2. QED
      BY <2>1 DEF m, un, v1
  <1>7. CASE ~OfUser(e, u)
    <2>1. VoiceStory(inbox \o <<e>>, m, un, u, v)
      BY <1>1, <1>5, <1>7, Apart
    <2>2. QED
      BY <1>1, <1>5, <1>7, <2>1 DEF m, un, v1
  <1>8. QED
    BY <1>6, <1>7

\* Nothing is sent, and the client would not hear of it.
LEMMA Unspoken ==
  ASSUME UserStory, UNCHANGED inbox, Known' => Known, UNCHANGED <<states, unnamed, outage>>,
         \A u \in Users : Seen(u)' = Seen(u)
  PROVE  UserStory'
  <1>1. (Calm' <=> Calm) /\ Standing' = Standing /\ PassedOver' = PassedOver
    BY DEF Calm, Standing, PassedOver
  <1>2. SUFFICES ASSUME Known, Calm, NEW u \in Users PROVE VoiceStory(inbox', Standing, PassedOver, u, Seen(u)')
    BY <1>1 DEF UserStory
  <1>3. VoiceStory(inbox, Standing, PassedOver, u, Seen(u))
    BY <1>2 DEF UserStory
  <1>4. QED
    BY <1>3

\* Discord changes.
LEMMA UsersOfDiscord ==
  ASSUME IInv, UserStory, DiscordStep
  PROVE  UserStory'
  <1> USE DiscordAssumption
  <1>1. InboxShape /\ Types
    BY DEF IInv
  <1>2. UNCHANGED <<states, unnamed, outage>>
    BY DEF DiscordStep, voiceVars
  <1>3. ASSUME NEW s \in Servers, JoinServer(s) PROVE UserStory'
    <2>1. Guild(s) \in Events /\ Guild(s).kind = "GUILD_CREATE" /\ Guild(s).voice = [u \in InVoice(s) |-> where[u]]
      BY <1>1, Formed DEF Guild
    <2>2. /\ inbox' = Append(inbox, Guild(s)) /\ UNCHANGED <<conn, drops, where>>
          /\ member' = member \cup {s} /\ s \notin member
      BY <1>3 DEF JoinServer, Send
    <2>3. ASSUME NEW u \in Users
          PROVE  IF OfUser(Guild(s), u)
                 THEN Goal(Guild(s), u) = Seen(u)' /\ (Guild(s).kind = "GUILD_CREATE" => Seen(u) = None)
                 ELSE Seen(u)' = Seen(u)
      <3>1. OfUser(Guild(s), u) <=> u \in InVoice(s)
        BY <2>1 DEF OfUser
      <3>2. CASE u \in InVoice(s)
        <4>1. where[u] # None /\ ServerOf[where[u]] = s /\ Goal(Guild(s), u) = where[u]
          BY <2>1, <3>2 DEF InVoice, Goal
        <4>2. Seen(u)' = where[u] /\ Seen(u) = None
          BY <2>2, <4>1 DEF Seen
        <4>3. QED
          BY <3>1, <3>2, <4>1, <4>2
      <3>3. CASE u \notin InVoice(s)
        <4>1. where[u] = None \/ ServerOf[where[u]] # s
          BY <3>3 DEF InVoice
        <4>2. Seen(u)' = Seen(u)
          BY <2>2, <4>1 DEF Seen
        <4>3. QED
          BY <3>1, <3>3, <4>2
      <3>4. QED
        BY <3>2, <3>3
    <2>4. Known' => Known
      BY <2>2 DEF Known
    <2>5. QED
      BY <1>1, <1>2, <2>1, <2>2, <2>3, <2>4, Spoken
  <1>4. ASSUME NEW s \in Servers, LeaveServer(s) PROVE UserStory'
    <2> DEFINE e == [kind |-> "GUILD_DELETE", id |-> s]
    <2>1. inbox' = Append(inbox, e) /\ inbox \in Seq(Events) /\ e \in Events
      BY <1>1, <1>4, Formed DEF LeaveServer, Send, InboxShape
    <2>2. Len(inbox') \in Nat /\ Len(inbox') >= 1 /\ inbox'[Len(inbox')] = e
      <3> HIDE DEF e
      <3>1. Len(inbox') = Len(inbox) + 1 /\ inbox'[Len(inbox) + 1] = e /\ Len(inbox) \in Nat
        BY <2>1, AppendProperties
      <3>2. QED
        BY <3>1
    <2>3. ~Calm'
      BY <2>2 DEF Calm
    <2>4. QED
      BY <2>3 DEF UserStory
  <1>5. ASSUME NEW e \in Events, e.kind \notin {"READY", "GUILD_CREATE", "VOICE_STATE_UPDATE"},
               NEW s, Tell(s, e), UNCHANGED <<member, where>>
        PROVE  UserStory'
    <2>1. UNCHANGED <<conn, drops>> /\ (inbox' = Append(inbox, e) \/ UNCHANGED inbox)
      BY <1>5 DEF Tell, Send, gatewayVars
    <2>2. (Known' => Known) /\ (\A u \in Users : Seen(u)' = Seen(u) /\ ~OfUser(e, u))
      BY <1>5, <2>1 DEF Known, Seen, OfUser
    <2>3. QED
      BY <1>1, <1>2, <1>5, <2>1, <2>2, Spoken, Unspoken
  <1>6. ASSUME NEW s \in Servers, EditServer(s) PROVE UserStory'
    <2> DEFINE e == [kind |-> "GUILD_UPDATE", id |-> s, version |-> serverVersion'[s]]
    <2>1. serverVersion'[s] \in Nat /\ Tell(s, e) /\ UNCHANGED <<member, where>>
      BY <1>1, <1>6 DEF EditServer, Types
    <2>2. e \in Events /\ e.kind = "GUILD_UPDATE"
      BY <1>1, <2>1, Formed
    <2> HIDE DEF e
    <2>3. QED
      BY <1>5, <2>1, <2>2
  <1>7. ASSUME NEW c \in Channels, NEW k \in {"CHANNEL_CREATE", "CHANNEL_UPDATE", "CHANNEL_DELETE"},
               ChangeChannel(c, k)
        PROVE  UserStory'
    <2> DEFINE e == [kind |-> k, id |-> c, version |-> channel'[c]]
    <2>1. channel'[c] \in Nat /\ Tell(ServerOf[c], e) /\ UNCHANGED <<member, where>>
      BY <1>1, <1>7 DEF ChangeChannel, Types
    <2>2. e \in Events /\ e.kind = k
      BY <1>1, <2>1, Formed
    <2> HIDE DEF e
    <2>3. QED
      BY <1>5, <2>1, <2>2
  <1>8. ASSUME NEW u \in Users, NEW c \in VoiceChannels \cup {None}, Move(u, c) PROVE UserStory'
    <2>1. PICK s \in Servers : /\ {ServerOf[d] : d \in {where[u], c} \ {None}} = {s}
                               /\ Tell(s, State(u, c))
      BY <1>8 DEF Move
    <2>2. /\ UNCHANGED <<conn, drops, member>> /\ where' = [where EXCEPT ![u] = c]
          /\ IF s \in member THEN inbox' = Append(inbox, State(u, c)) ELSE UNCHANGED inbox
      BY <1>8, <2>1 DEF Move, Tell, Send, gatewayVars
    <2>3. where'[u] = c /\ \A w \in Users \ {u} : where'[w] = where[w]
      BY <1>1, <2>2 DEF Types
    <2>4. /\ State(u, c) \in Events /\ State(u, c).kind = "VOICE_STATE_UPDATE"
          /\ State(u, c).user = u /\ State(u, c).channel = c
      BY <1>1, Formed DEF State
    <2>5. (where[u] # None => ServerOf[where[u]] = s) /\ (c # None => ServerOf[c] = s)
      BY <2>1
    <2>6. \A w \in Users \ {u} : Seen(w)' = Seen(w)
      BY <2>2, <2>3 DEF Seen
    <2>7. \A w \in Users : OfUser(State(u, c), w) <=> w = u
      BY <2>4 DEF OfUser
    <2>8. (Known' => Known) /\ Goal(State(u, c), u) = c
      BY <2>2, <2>4 DEF Known, Goal
    <2>9. CASE s \in member
      <3>1. Seen(u)' = c
        BY <2>2, <2>3, <2>5, <2>9 DEF Seen
      <3>2. \A w \in Users : IF OfUser(State(u, c), w)
                             THEN /\ Goal(State(u, c), w) = Seen(w)'
                                  /\ State(u, c).kind = "GUILD_CREATE" => Seen(w) = None
                             ELSE Seen(w)' = Seen(w)
        BY <2>4, <2>6, <2>7, <2>8, <3>1
      <3>3. QED
        BY <1>1, <1>2, <2>2, <2>4, <2>8, <2>9, <3>2, Spoken
    <2>10. CASE s \notin member
      <3>1. Seen(u)' = Seen(u)
        BY <2>2, <2>3, <2>5, <2>10 DEF Seen
      <3>2. \A w \in Users : Seen(w)' = Seen(w)
        BY <2>6, <3>1
      <3>3. QED
        BY <1>2, <2>2, <2>8, <2>10, <3>2, Unspoken
    <2>11. QED
      BY <2>9, <2>10
  <1>9. QED
    BY <1>3, <1>4, <1>6, <1>7, <1>8 DEF DiscordStep

\* A handler, other than READY's, that shows each user its event is about as
\* it tells or passes them over, and everybody else as before.
LEMMA Attending ==
  ASSUME IInv, UserStory, Receive, UNCHANGED discordVars, UNCHANGED outage,
         Event.kind \notin {"READY", "GUILD_DELETE"},
         \A u \in Users :
             IF OfUser(Event, u)
             THEN VoiceStory(inbox, states, unnamed, u, Seen(u)) =>
                      /\ Once(states', u)
                      /\ IF u \in unnamed' THEN NotShown(states', u) ELSE ShownAt(states', u, Goal(Event, u))
             ELSE Same(states, states', u) /\ (u \in unnamed' <=> u \in unnamed)
  PROVE  UserStory'
  <1>1. /\ inbox \in Seq(Events) /\ inbox # <<>> /\ \A i \in 2..Len(inbox) : inbox[i].kind # "READY"
        /\ inbox' = Tail(inbox) /\ Event = Head(inbox) /\ Known
        /\ UNCHANGED <<member, where>>
    BY DEF IInv, InboxShape, Receive, Event, Known, discordVars
  <1>2. /\ Len(inbox) \in Nat /\ 1 \in 1..Len(inbox) /\ Head(inbox) = inbox[1]
        /\ \A i \in 2..Len(inbox) : i - 1 \in 1..Len(Tail(inbox)) /\ Tail(inbox)[i - 1] = inbox[i]
    BY <1>1, ShorterOf
  <1>3. ~Fresh(inbox) /\ ~Fresh(inbox')
    <2>1. ~Fresh(Tail(inbox))
      BY <1>1, Shorter
    <2>2. QED
      BY <1>1, <1>2, <2>1 DEF Fresh
  <1>4. Standing = states /\ PassedOver = unnamed /\ Standing' = states' /\ PassedOver' = unnamed'
    BY <1>3 DEF Standing, PassedOver
  <1>5. Calm' => Calm
    <2>1. SUFFICES ASSUME Calm', NEW i \in 1..Len(inbox) PROVE inbox[i].kind # "GUILD_DELETE"
      BY <1>3 DEF Calm
    <2>2. CASE i = 1
      BY <1>1, <1>2, <2>2
    <2>3. CASE i # 1
      <3>1. i \in 2..Len(inbox)
        BY <1>2, <2>3
      <3>2. QED
        BY <1>1, <1>2, <2>1, <3>1 DEF Calm
    <2>4. QED
      BY <2>2, <2>3
  <1>6. SUFFICES ASSUME Calm, NEW u \in Users PROVE VoiceStory(Tail(inbox), states', unnamed', u, Seen(u))
    BY <1>1, <1>4, <1>5 DEF UserStory, Seen
  <1>7. VoiceStory(inbox, states, unnamed, u, Seen(u))
    BY <1>1, <1>4, <1>6 DEF UserStory
  <1> DEFINE v == Seen(u)
  <1>8. IF OfUser(Head(inbox), u)
        THEN /\ Once(states', u)
             /\ IF u \in unnamed' THEN NotShown(states', u) ELSE ShownAt(states', u, Goal(Head(inbox), u))
        ELSE Same(states, states', u) /\ (u \in unnamed' <=> u \in unnamed)
    BY <1>1, <1>7
  <1>9. VoiceStory(inbox, states, unnamed, u, v)
    BY <1>7
  <1> HIDE DEF v
  <1>10. VoiceStory(Tail(inbox), states', unnamed', u, v)
    <2>1. CASE OfUser(Head(inbox), u)
      BY <1>1, <1>8, <1>9, <2>1, NowMoved
    <2>2. CASE ~OfUser(Head(inbox), u)
      BY <1>1, <1>8, <1>9, <2>2, Unmoved
    <2>3. QED
      BY <2>1, <2>2
  <1>11. QED
    BY <1>10 DEF v

\* An event is handled.
LEMMA UsersOfHandler ==
  ASSUME IInv, VoiceShape, UserStory, Handle
  PROVE  UserStory'
  <1> USE DiscordAssumption
  <1>1. UNCHANGED discordVars /\ Rolls(states) /\ None \notin VoiceChannels
    BY DEF Handle, VoiceShape, VoiceTypeOK, Rolls, None
  <1>2. ASSUME Receive PROVE Event \in Events
    BY <1>2, HeadTailProperties DEF Receive, Event, IInv, InboxShape
  <1>3. \A u : Same(states, states, u)
    BY DEF Same
  <1>4. CASE OnReady
    <2>1. /\ inbox \in Seq(Events) /\ inbox # <<>> /\ \A i \in 2..Len(inbox) : inbox[i].kind # "READY"
          /\ inbox' = Tail(inbox) /\ Head(inbox).kind = "READY" /\ Known
          /\ UNCHANGED <<member, where>> /\ states' = NoStates /\ unnamed' = {}
      BY <1>1, <1>4 DEF OnReady, Receiving, VoiceOnReady, IInv, InboxShape, Receive, Event, Known, discordVars
    <2>2. /\ Len(inbox) \in Nat /\ 1 \in 1..Len(inbox) /\ Head(inbox) = inbox[1]
          /\ \A i \in 2..Len(inbox) : i - 1 \in 1..Len(Tail(inbox)) /\ Tail(inbox)[i - 1] = inbox[i]
      BY <2>1, ShorterOf
    <2>3. Fresh(inbox) /\ ~Fresh(Tail(inbox))
      BY <2>1, <2>2, Shorter DEF Fresh
    <2>4. Standing = NoStates /\ PassedOver = {} /\ Standing' = NoStates /\ PassedOver' = {}
      BY <2>1, <2>3 DEF Standing, PassedOver
    <2>5. Calm' => Calm
      <3>1. SUFFICES ASSUME Calm', NEW i \in 1..Len(inbox) PROVE inbox[i].kind # "GUILD_DELETE"
        BY <2>3 DEF Calm
      <3>2. CASE i = 1
        BY <2>1, <2>2, <3>2
      <3>3. CASE i # 1
        <4>1. i \in 2..Len(inbox)
          BY <2>2, <3>3
        <4>2. QED
          BY <2>1, <2>2, <3>1, <4>1 DEF Calm
      <3>4. QED
        BY <3>2, <3>3
    <2>6. SUFFICES ASSUME Calm, NEW u \in Users PROVE VoiceStory(Tail(inbox), NoStates, {}, u, Seen(u))
      BY <2>1, <2>4, <2>5 DEF UserStory, Seen
    <2> DEFINE v == Seen(u)
    <2>7. VoiceStory(inbox, NoStates, {}, u, v)
      BY <2>1, <2>4, <2>6 DEF UserStory
    <2>8. ~OfUser(Head(inbox), u) /\ Same(NoStates, NoStates, u)
      BY <2>1 DEF OfUser, Same
    <2> HIDE DEF v
    <2>9. VoiceStory(Tail(inbox), NoStates, {}, u, v)
      BY <2>1, <2>7, <2>8, Unmoved
    <2>10. QED
      BY <2>9 DEF v
  <1>5. CASE OnServer
    <2>1. Receive /\ Event.kind = "GUILD_CREATE" /\ VoiceOnServer /\ Event \in Events
      BY <1>2, <1>5 DEF OnServer, Receiving
    <2>2. PICK present \in SUBSET Users : Event.voice \in [present -> VoiceChannels]
      BY <2>1 DEF Events
    <2> DEFINE at == Event.voice
    <2>3. PICK named \in SUBSET DOMAIN at :
              /\ states' = [c \in DOMAIN states \cup {at[u] : u \in named} |->
                              (IF c \in DOMAIN states THEN states[c] ELSE <<>>)
                              \o SetToSeq({u \in named : at[u] = c})]
              /\ unnamed' = (unnamed \ named) \cup (DOMAIN at \ named)
      BY <2>1 DEF VoiceOnServer
    <2> DEFINE g == [u \in named |-> at[u]]
    <2>4. /\ at \in [present -> VoiceChannels] /\ named \in SUBSET Users /\ g \in [named -> VoiceChannels]
          /\ \A u \in named : g[u] = at[u] /\ u \in DOMAIN at
          /\ \A u \in DOMAIN at : at[u] \in VoiceChannels
      BY <2>2, <2>3
    <2>5. \A u : (OfUser(Event, u) <=> u \in DOMAIN at) /\ Goal(Event, u) = at[u]
      BY <2>1 DEF OfUser, Goal
    <2> HIDE DEF at, g
    <2>6. states' = Joined(states, named, g)
      <3>1. {g[u] : u \in named} = {at[u] : u \in named}
        BY <2>4
      <3>2. \A c : {u \in named : g[u] = c} = {u \in named : at[u] = c}
        BY <2>4
      <3>3. QED
        BY <2>3, <3>1, <3>2 DEF Joined
    <2>7. /\ \A u \in named : NotShown(states, u) => Once(states', u)
          /\ \A u \in named : g[u] \in DOMAIN states' /\ Lists(states'[g[u]], u)
          /\ \A w : w \notin named => Same(states, states', w)
      BY <1>1, <2>4, <2>6, AllIn
    <2>8. Event = inbox[1] /\ 1 \in 1..Len(inbox)
      <3>1. inbox \in Seq(Events) /\ inbox # <<>> /\ Event = Head(inbox)
        BY <2>1 DEF IInv, InboxShape, Receive, Event
      <3>2. QED
        BY <3>1, ShorterOf
    <2>9. ASSUME NEW u \in Users, u \in DOMAIN at, VoiceStory(inbox, states, unnamed, u, Seen(u))
          PROVE  /\ Once(states', u)
                 /\ IF u \in unnamed' THEN NotShown(states', u) ELSE ShownAt(states', u, at[u])
      <3>1. FirstOfUser(inbox, 1, u)
        BY <2>5, <2>8, <2>9 DEF FirstOfUser
      <3>2. NotShown(states, u) /\ Once(states, u)
        BY <2>1, <2>8, <2>9, <3>1 DEF VoiceStory
      <3>3. CASE u \in named
        <4>1. u \notin unnamed'
          BY <2>3, <3>3
        <4>2. g[u] = at[u] /\ at[u] # None
          BY <1>1, <2>4, <3>3
        <4>3. QED
          BY <2>7, <3>2, <3>3, <4>1, <4>2 DEF ShownAt
      <3>4. CASE u \notin named
        <4>1. u \in unnamed'
          BY <2>3, <2>9, <3>4
        <4>2. QED
          BY <2>7, <3>2, <3>4, <4>1 DEF Same
      <3>5. QED
        BY <3>3, <3>4
    <2>10. ASSUME NEW u \in Users, u \notin DOMAIN at
           PROVE  Same(states, states', u) /\ (u \in unnamed' <=> u \in unnamed)
      BY <2>3, <2>4, <2>7, <2>10
    <2>11. UNCHANGED outage
      BY <2>1 DEF VoiceOnServer
    <2>12. QED
      BY <1>1, <2>1, <2>5, <2>9, <2>10, <2>11, Attending
  <1>6. CASE OnDeleteServer
    <2>1. /\ inbox \in Seq(Events) /\ inbox # <<>> /\ \A i \in 2..Len(inbox) : inbox[i].kind # "READY"
          /\ inbox' = Tail(inbox) /\ outage' = TRUE
      BY <1>6 DEF OnDeleteServer, Receiving, VoiceOnDeleteServer, IInv, InboxShape, Receive
    <2>2. ~Fresh(Tail(inbox))
      BY <2>1, Shorter
    <2>3. ~Calm'
      BY <2>1, <2>2 DEF Calm
    <2>4. QED
      BY <2>3 DEF UserStory
  <1>7. CASE OnEditVoiceState
    <2> DEFINE u == Event.user
               c == Event.channel
    <2>1. Receive /\ Event.kind = "VOICE_STATE_UPDATE" /\ VoiceOnEditVoiceState /\ Event \in Events
      BY <1>2, <1>7 DEF OnEditVoiceState, Receiving
    <2>2. u \in Users /\ c \in VoiceChannels \cup {None}
      BY <2>1 DEF Events
    <2>3. states' = Moved(states, u, c) /\ unnamed' = unnamed \ {u} /\ UNCHANGED outage
      BY <2>1 DEF VoiceOnEditVoiceState
    <2>4. \A w : (OfUser(Event, w) <=> w = u) /\ Goal(Event, w) = c
      BY <2>1 DEF OfUser, Goal
    <2> HIDE DEF u, c
    <2>5. /\ Once(states, u) => Once(states', u) /\ ShownAt(states', u, c)
          /\ \A w : w # u => Same(states, states', w)
      BY <1>1, <2>2, <2>3, Moving
    <2>6. VoiceStory(inbox, states, unnamed, u, Seen(u)) => Once(states, u)
      BY DEF VoiceStory
    <2>7. ASSUME NEW w \in Users
          PROVE  IF OfUser(Event, w)
                 THEN VoiceStory(inbox, states, unnamed, w, Seen(w)) =>
                          /\ Once(states', w)
                          /\ IF w \in unnamed' THEN NotShown(states', w) ELSE ShownAt(states', w, Goal(Event, w))
                 ELSE Same(states, states', w) /\ (w \in unnamed' <=> w \in unnamed)
      BY <2>3, <2>4, <2>5, <2>6
    <2>8. QED
      BY <1>1, <2>1, <2>3, <2>7, Attending
  <1>8. CASE OnResumed \/ OnEditServer \/ OnChannel \/ OnEditChannel \/ OnDeleteChannel \/ OnVoiceServer
    <2>1. /\ Receive /\ UNCHANGED <<states, unnamed, outage>>
          /\ Event.kind \notin {"READY", "GUILD_DELETE", "GUILD_CREATE", "VOICE_STATE_UPDATE"}
      BY <1>8 DEF OnResumed, OnEditServer, OnChannel, OnEditChannel, OnDeleteChannel, OnVoiceServer, Receiving,
                  VoiceOnResumed, VoiceOnVoiceServer, voiceVars
    <2>2. \A u \in Users : ~OfUser(Event, u)
      BY <2>1 DEF OfUser
    <2>3. \A u \in Users : Same(states, states', u)
      BY <1>3, <2>1
    <2>4. QED
      BY <1>1, <2>1, <2>2, <2>3, Attending
  <1>9. QED
    BY <1>4, <1>5, <1>6, <1>7, <1>8 DEF Handle

(* One event is a sequence of events, and so are two: what a handler of the  *)
(* service appends to the inbox.                                             *)
LEMMA OneEvent ==
  ASSUME NEW S, NEW e \in S
  PROVE  <<e>> \in Seq(S) /\ \A i \in 1..Len(<<e>>) : <<e>>[i] = e
OBVIOUS

LEMMA TwoEvents ==
  ASSUME NEW S, NEW e \in S, NEW f \in S
  PROVE  <<e, f>> \in Seq(S)
OBVIOUS

\* The UI asks for something.
LEMMA UsersOfUI ==
  ASSUME IInv, UserStory, Request
  PROVE  UserStory'
  <1> USE DiscordAssumption
  <1>1. InboxShape /\ Types
    BY DEF IInv
  <1>2. ASSUME UNCHANGED <<gatewayVars, discordVars, states, unnamed, outage>> PROVE UserStory'
    <2>1. UNCHANGED inbox /\ (Known' => Known) /\ \A u \in Users : Seen(u)' = Seen(u)
      BY <1>2 DEF gatewayVars, discordVars, Known, Seen
    <2>2. QED
      BY <1>2, <2>1, Unspoken
  <1>3. ASSUME NEW c \in VoiceChannels, Enter(c), JoinVoiceChannel PROVE UserStory'
    <2> DEFINE gone == State(me, None)
               come == State(me, c)
               voice == [kind |-> "VOICE_SERVER_UPDATE", channel |-> c]
               away == IF where[me] # None /\ ServerOf[where[me]] # ServerOf[c] THEN <<gone>> ELSE <<>>
               b == inbox \o away
    <2>1. /\ UNCHANGED <<conn, drops, member, states, unnamed, outage>>
          /\ where' = [where EXCEPT ![me] = c] /\ ServerOf[c] \in member
          /\ inbox' = b \o <<come, voice>>
      BY <1>3 DEF Enter, JoinVoiceChannel
    <2>2. /\ gone \in Events /\ come \in Events /\ voice \in Events /\ inbox \in Seq(Events)
          /\ gone.kind = "VOICE_STATE_UPDATE" /\ gone.user = me /\ gone.channel = None
          /\ come.kind = "VOICE_STATE_UPDATE" /\ come.user = me /\ come.channel = c
          /\ voice.kind = "VOICE_SERVER_UPDATE"
      BY <1>1, Formed DEF State, InboxShape
    <2>3. /\ \A u : OfUser(gone, u) <=> u = me
          /\ \A u : OfUser(come, u) <=> u = me
          /\ \A u : ~OfUser(voice, u)
          /\ Goal(gone, me) = None /\ Goal(come, me) = c
      BY <2>2 DEF OfUser, Goal
    <2> HIDE DEF gone, come, voice
    <2>4. b = inbox \/ b = Append(inbox, gone)
      BY <2>2, AppendIsConcat, ConcatEmptySeq
    <2>5. b \in Seq(Events) /\ away \in Seq(Events)
      BY <2>2, <2>4, AppendProperties
    <2> HIDE DEF b
    <2>6. Append(b, come) \in Seq(Events) /\ inbox' = Append(Append(b, come), voice)
      BY <2>1, <2>2, <2>5
    <2>7. ASSUME NEW u \in Users, NEW m, NEW un, NEW v, VoiceStory(inbox, m, un, u, v)
          PROVE  VoiceStory(inbox', m, un, u, IF u = me THEN c ELSE v)
      <3>1. /\ <<gone>> \in Seq(Events) /\ \A i \in 1..Len(<<gone>>) : <<gone>>[i] = gone
            /\ <<come>> \in Seq(Events) /\ \A i \in 1..Len(<<come>>) : <<come>>[i] = come
            /\ <<voice>> \in Seq(Events) /\ \A i \in 1..Len(<<voice>>) : <<voice>>[i] = voice
        BY <2>2, OneEvent
      <3>2. CASE u = me
        <4>1. PICK w : VoiceStory(b, m, un, u, w)
          <5>1. CASE b = inbox
            BY <2>7, <5>1
          <5>2. CASE b = Append(inbox, gone)
            <6>1. gone.kind # "GUILD_CREATE"
              BY <2>2
            <6>2. VoiceStory(Append(inbox, gone), m, un, u, None)
              BY <2>2, <2>3, <2>7, <3>2, <6>1, ToldOf
            <6>3. QED
              BY <5>2, <6>2
          <5>3. QED
            BY <2>4, <5>1, <5>2
        <4>2. VoiceStory(Append(b, come), m, un, u, c)
          <5>1. come.kind # "GUILD_CREATE"
            BY <2>2
          <5>2. QED
            BY <2>2, <2>3, <2>5, <3>2, <4>1, <5>1, ToldOf
        <4>3. Append(Append(b, come), voice) = Append(b, come) \o <<voice>>
          BY <2>2, <2>6, AppendIsConcat
        <4>4. VoiceStory(Append(b, come) \o <<voice>>, m, un, u, c)
          BY <2>3, <2>6, <3>1, <4>2, Apart
        <4>5. QED
          BY <2>6, <3>2, <4>3, <4>4
      <3>3. CASE u # me
        <4>1. VoiceStory(b, m, un, u, v)
          <5>1. CASE b = inbox
            BY <2>7, <5>1
          <5>2. CASE b = Append(inbox, gone)
            <6>1. Append(inbox, gone) = inbox \o <<gone>>
              BY <2>2, AppendIsConcat
            <6>2. VoiceStory(inbox \o <<gone>>, m, un, u, v)
              BY <2>2, <2>3, <2>7, <3>1, <3>3, Apart
            <6>3. QED
              BY <5>2, <6>1, <6>2
          <5>3. QED
            BY <2>4, <5>1, <5>2
        <4>2. VoiceStory(Append(b, come), m, un, u, v)
          <5>1. Append(b, come) = b \o <<come>>
            BY <2>2, <2>5, AppendIsConcat
          <5>2. VoiceStory(b \o <<come>>, m, un, u, v)
            BY <2>3, <2>5, <3>1, <3>3, <4>1, Apart
          <5>3. QED
            BY <5>1, <5>2
        <4>3. Append(Append(b, come), voice) = Append(b, come) \o <<voice>>
          BY <2>2, <2>6, AppendIsConcat
        <4>4. VoiceStory(Append(b, come) \o <<voice>>, m, un, u, v)
          BY <2>3, <2>6, <3>1, <4>2, Apart
        <4>5. QED
          BY <2>6, <3>3, <4>3, <4>4
      <3>4. QED
        BY <3>2, <3>3
    <2>8. (Calm' => Calm) /\ Standing' = Standing /\ PassedOver' = PassedOver
      <3>1. inbox' = inbox \o (away \o <<come, voice>>)
        <4> DEFINE two == <<come, voice>>
        <4>1. two \in Seq(Events)
          BY <2>2, TwoEvents
        <4>2. inbox \in Seq(Events) /\ away \in Seq(Events)
          BY <2>2, <2>5
        <4>3. inbox' = (inbox \o away) \o two
          BY <2>1 DEF b
        <4> HIDE DEF two, away
        <4>4. (inbox \o away) \o two = inbox \o (away \o two)
          BY <4>1, <4>2, ConcatAssociative
        <4>5. inbox' = inbox \o (away \o two)
          BY <4>3, <4>4
        <4>6. QED
          BY <4>5 DEF two, away
      <3>2. away \o <<come, voice>> \in Seq({e \in Events : e.kind # "READY"})
        <4> DEFINE Kind == {e \in Events : e.kind # "READY"}
        <4>1. gone \in Kind /\ come \in Kind /\ voice \in Kind
          BY <2>2
        <4> HIDE DEF Kind
        <4>2. away \in Seq(Kind) /\ <<come, voice>> \in Seq(Kind)
          BY <4>1
        <4>3. away \o <<come, voice>> \in Seq(Kind)
          BY <4>2, ConcatProperties
        <4>4. QED
          BY <4>3 DEF Kind
      <3> DEFINE more == away \o <<come, voice>>
      <3> HIDE DEF more
      <3>3. more \in Seq(Events) /\ \A i \in 1..Len(more) : more[i].kind # "READY"
        <4>1. more \in Seq({e \in Events : e.kind # "READY"})
          BY <3>2 DEF more
        <4>2. QED
          BY <4>1
      <3>4. inbox' = inbox \o more
        BY <3>1 DEF more
      <3>5. QED
        BY <1>1, <2>1, <3>3, <3>4, Calmer
    <2>9. \A u \in Users : Seen(u)' = IF u = me THEN c ELSE Seen(u)
      <3>1. \A u \in Users : where'[u] = IF u = me THEN c ELSE where[u]
        BY <1>1, <2>1 DEF Types
      <3>2. c # None
        BY DEF None
      <3>3. QED
        BY <2>1, <3>1, <3>2 DEF Seen
    <2>10. Known' => Known
      BY <2>1 DEF Known
    <2>11. SUFFICES ASSUME Known, Calm, NEW u \in Users PROVE VoiceStory(inbox', Standing, PassedOver, u, Seen(u)')
      BY <2>8, <2>10 DEF UserStory
    <2>12. VoiceStory(inbox, Standing, PassedOver, u, Seen(u))
      BY <2>11 DEF UserStory
    <2>13. VoiceStory(inbox', Standing, PassedOver, u, IF u = me THEN c ELSE Seen(u))
      BY <2>7, <2>12
    <2>14. QED
      BY <2>9, <2>13
  <1>4. CASE DisconnectVoiceChannel /\ UNCHANGED <<gatewayVars, discordVars>>
    BY <1>2, <1>4 DEF DisconnectVoiceChannel
  <1>5. QED
    BY <1>2, <1>3, <1>4 DEF Request, voiceVars

\* A new session tells where each user is.
LEMMA AfterIdentify ==
  ASSUME InboxShape, Types, Identify([i \in 1..Cardinality(member) |-> Guild(SetToSeq(member)[i])])
  PROVE  Fresh(inbox') /\ \A u \in Users : VoiceStory(inbox', NoStates, {}, u, Seen(u))
  <1> USE DiscordAssumption
  <1> DEFINE n == Cardinality(member)
             f == SetToSeq(member)
             guilds == [i \in 1..n |-> Guild(f[i])]
             ready == [kind |-> "READY"]
  <1>1. /\ n \in Nat /\ f \in [1..n -> member] /\ member \subseteq Servers
        /\ \A i, j \in 1..n : f[i] = f[j] => i = j
        /\ \A x \in member : \E i \in 1..n : f[i] = x
    BY FS_Subset, Numbering DEF Types
  <1>2. inbox' = <<ready>> \o guilds
    BY DEF Identify
  <1> HIDE DEF n, f
  <1>3. ASSUME NEW i \in 1..n
        PROVE  /\ guilds[i] \in Events /\ guilds[i].kind = "GUILD_CREATE" /\ f[i] \in member
               /\ \A u : u \in DOMAIN guilds[i].voice <=>
                      u \in Users /\ where[u] # None /\ ServerOf[where[u]] = f[i]
               /\ \A u \in DOMAIN guilds[i].voice : guilds[i].voice[u] = where[u]
    <2>1. f[i] \in member /\ f[i] \in Servers
      BY <1>1
    <2>2. guilds[i] = Guild(f[i])
      OBVIOUS
    <2> HIDE DEF guilds
    <2>3. Guild(f[i]) \in Events
      BY <2>1, Formed
    <2>4. Guild(f[i]).kind = "GUILD_CREATE" /\ Guild(f[i]).voice = [u \in InVoice(f[i]) |-> where[u]]
      BY DEF Guild
    <2>5. QED
      BY <2>1, <2>2, <2>3, <2>4 DEF InVoice
  <1>4. DOMAIN guilds = 1..n /\ guilds = [i \in 1..n |-> guilds[i]]
    OBVIOUS
  <1> HIDE DEF guilds
  <1>5. guilds \in Seq(Events) /\ Len(guilds) = n
    <2>1. \A i \in 1..n : guilds[i] \in Events
      BY <1>3
    <2>2. QED
      BY <1>1, <1>4, <2>1
  <1>6. ready \in Events /\ ready.kind = "READY"
    BY Formed
  <1> HIDE DEF ready
  <1>7. Fresh(inbox')
    <2>1. <<ready>> \in Seq(Events) /\ Len(<<ready>>) = 1 /\ <<ready>>[1] = ready
      BY <1>6
    <2>2. /\ Len(inbox') = 1 + n
          /\ \A i \in 1..(1 + n) : inbox'[i] = IF i <= 1 THEN <<ready>>[i] ELSE guilds[i - 1]
      BY <1>2, <1>5, <2>1, ConcatProperties
    <2>3. inbox'[1] = ready /\ inbox' # <<>>
      BY <1>1, <2>1, <2>2
    <2>4. QED
      BY <1>6, <2>3 DEF Fresh
  <1>8. SUFFICES ASSUME NEW u \in Users PROVE VoiceStory(<<ready>> \o guilds, NoStates, {}, u, Seen(u))
    BY <1>2, <1>7
  <1> DEFINE v == Seen(u)
  <1>9. \A i \in 1..Len(guilds) : u \in DOMAIN guilds[i].voice => guilds[i].voice[u] = v /\ v # None
    BY <1>3, <1>5 DEF Seen
  <1>10. \A i, j \in 1..Len(guilds) : u \in DOMAIN guilds[i].voice /\ u \in DOMAIN guilds[j].voice => i = j
    BY <1>1, <1>3, <1>5
  <1>11. v # None => \E i \in 1..Len(guilds) : u \in DOMAIN guilds[i].voice
    <2>1. SUFFICES ASSUME where[u] # None, ServerOf[where[u]] \in member
                   PROVE  \E i \in 1..n : u \in DOMAIN guilds[i].voice
      BY <1>5 DEF Seen
    <2>2. PICK i \in 1..n : f[i] = ServerOf[where[u]]
      BY <1>1, <2>1
    <2>3. QED
      BY <1>3, <2>1, <2>2
  <1>12. \A i \in 1..Len(guilds) : guilds[i].kind = "GUILD_CREATE"
    BY <1>3, <1>5
  <1> HIDE DEF v
  <1>13. VoiceStory(<<ready>> \o guilds, NoStates, {}, u, v)
    BY <1>5, <1>6, <1>9, <1>10, <1>11, <1>12, AllAnew
  <1>14. QED
    BY <1>13 DEF v

\* A connection is lost, resumed or begun anew.
LEMMA UsersOfConnection ==
  ASSUME IInv, UserStory, Connection
  PROVE  UserStory'
  <1> USE DiscordAssumption
  <1>1. InboxShape /\ Types
    BY DEF IInv
  <1>2. UNCHANGED <<states, unnamed, outage, member, where>>
    BY DEF Connection, VoiceOnDisconnect, VoiceReady, Reconnect, voiceVars, discordVars
  <1>3. \A u \in Users : Seen(u)' = Seen(u)
    BY <1>2 DEF Seen
  <1>4. CASE Drop
    <2>1. UNCHANGED inbox /\ Known
      BY <1>4 DEF Drop, Known
    <2>2. QED
      BY <1>2, <1>3, <2>1, Unspoken
  <1>5. CASE UNCHANGED gatewayVars
    <2>1. UNCHANGED inbox /\ (Known' => Known)
      BY <1>5 DEF gatewayVars, Known
    <2>2. QED
      BY <1>2, <1>3, <2>1, Unspoken
  <1>6. CASE Resume
    <2> DEFINE e == [kind |-> "RESUMED"]
    <2>1. e \in Events /\ e.kind = "RESUMED" /\ \A u \in Users : ~OfUser(e, u)
      BY <1>1, Formed DEF OfUser
    <2>2. inbox' = Append(inbox, e) /\ Known
      BY <1>1, <1>6 DEF Resume, Types, Known
    <2> HIDE DEF e
    <2>3. QED
      BY <1>1, <1>2, <1>3, <2>1, <2>2, Spoken
  <1>7. CASE Identify([i \in 1..Cardinality(member) |-> Guild(SetToSeq(member)[i])])
    <2>1. Fresh(inbox') /\ \A u \in Users : VoiceStory(inbox', NoStates, {}, u, Seen(u))
      BY <1>1, <1>7, AfterIdentify
    <2>2. Standing' = NoStates /\ PassedOver' = {}
      BY <2>1 DEF Standing, PassedOver
    <2>3. QED
      BY <1>3, <2>1, <2>2 DEF UserStory
  <1>8. QED
    BY <1>4, <1>5, <1>6, <1>7 DEF Connection, Reconnect

\* However users move, servers come and connections drop, once every event is
\* handled each user is listed exactly once, where they are, or not at all;
\* but for those passed over, and until a server was left.
THEOREM VoiceAgreement == Spec => []StatesAgree
  <1> USE DiscordAssumption
  <1>1. ASSUME Init PROVE UserStory
    BY <1>1 DEF Init, DiscordInit, GatewayInit, Known, UserStory
  <1>2. IInv /\ Shapes /\ UserStory /\ [Next]_vars => UserStory'
    <2>1. SUFFICES ASSUME IInv, VoiceShape, UserStory, [Next]_vars PROVE UserStory'
      BY DEF Shapes
    <2>2. CASE UNCHANGED vars
      <3>1. /\ UNCHANGED <<inbox, states, unnamed, outage>> /\ (Known' => Known)
            /\ \A u \in Users : Seen(u)' = Seen(u)
        BY <2>2 DEF vars, gatewayVars, discordVars, voiceVars, Known, Seen
      <3>2. QED
        BY <2>1, <3>1, Unspoken
    <2>3. CASE Next
      BY <2>1, <2>3, UsersOfDiscord, UsersOfHandler, UsersOfUI, UsersOfConnection DEF Next
    <2>4. QED
      BY <2>1, <2>2, <2>3
  <1>3. ASSUME IInv, UserStory PROVE StatesAgree
    <2>1. SUFFICES ASSUME Quiet, ~outage, NEW u \in Users, u \notin unnamed
                   PROVE  IF u \in UNION {InVoice(s) : s \in member}
                          THEN {e[1] : e \in Entries(u)} = {where[u]} /\ Cardinality(Entries(u)) = 1
                          ELSE Entries(u) = {}
      BY DEF StatesAgree
    <2>2. Known /\ ~Fresh(inbox) /\ Len(inbox) = 0
      BY <2>1 DEF Quiet, Known, Fresh
    <2>3. Calm /\ Standing = states /\ PassedOver = unnamed
      BY <2>1, <2>2 DEF Calm, Standing, PassedOver
    <2>4. Once(states, u) /\ ShownAt(states, u, Seen(u))
      <3>1. VoiceStory(inbox, states, unnamed, u, Seen(u))
        BY <1>3, <2>2, <2>3 DEF UserStory
      <3>2. QED
        BY <2>1, <2>2, <3>1 DEF VoiceStory
    <2>5. u \in UNION {InVoice(s) : s \in member} <=> where[u] # None /\ ServerOf[where[u]] \in member
      BY DEF InVoice
    <2>6. \A e : e \in Entries(u) <=> \E c \in DOMAIN states : \E i \in 1..Len(states[c]) :
                                          states[c][i] = u /\ e = <<c, i>>
      BY DEF Entries
    <2>7. CASE where[u] # None /\ ServerOf[where[u]] \in member
      <3>1. Seen(u) = where[u] /\ Seen(u) # None
        BY <2>7 DEF Seen
      <3>2. where[u] \in DOMAIN states /\ Lists(states[where[u]], u)
        BY <2>4, <3>1 DEF ShownAt
      <3>3. PICK i \in 1..Len(states[where[u]]) : states[where[u]][i] = u
        BY <3>2 DEF Lists
      <3>4. \A d \in DOMAIN states : \A j \in 1..Len(states[d]) : states[d][j] = u => d = where[u] /\ j = i
        BY <2>4, <3>2, <3>3 DEF Once
      <3>5. Entries(u) = {<<where[u], i>>}
        <4>1. <<where[u], i>> \in Entries(u)
          BY <2>6, <3>2, <3>3
        <4>2. ASSUME NEW e \in Entries(u) PROVE e = <<where[u], i>>
          <5>1. PICK c \in DOMAIN states : \E j \in 1..Len(states[c]) : states[c][j] = u /\ e = <<c, j>>
            BY <2>6, <4>2
          <5>2. PICK j \in 1..Len(states[c]) : states[c][j] = u /\ e = <<c, j>>
            BY <5>1
          <5>3. c = where[u] /\ j = i
            BY <3>4, <5>2
          <5>4. QED
            BY <5>2, <5>3
        <4> DEFINE here == <<where[u], i>>
                   those == Entries(u)
        <4>3. here \in those /\ \A e \in those : e = here
          BY <4>1, <4>2
        <4> HIDE DEF here, those
        <4>4. those = {here}
          BY <4>3
        <4>5. QED
          BY <4>4 DEF here, those
      <3>6. Cardinality(Entries(u)) = 1
        <4> DEFINE here == <<where[u], i>>
        <4>1. Entries(u) = {here}
          BY <3>5
        <4> HIDE DEF here
        <4>2. Cardinality({here}) = 1
          BY FS_Singleton
        <4>3. QED
          BY <4>1, <4>2
      <3>7. {e[1] : e \in Entries(u)} = {where[u]}
        BY <3>5
      <3>8. QED
        BY <2>5, <2>7, <3>6, <3>7
    <2>8. CASE ~(where[u] # None /\ ServerOf[where[u]] \in member)
      <3>1. NotShown(states, u)
        BY <2>4, <2>8 DEF Seen, ShownAt
      <3>2. Entries(u) = {}
        BY <2>6, <3>1 DEF NotShown
      <3>3. QED
        BY <2>5, <2>8, <3>2
    <2>9. QED
      BY <2>7, <2>8
  <1>4. QED
    BY <1>1, <1>2, <1>3, Invariance, ShapesKept, PTL DEF Spec

-----------------------------------------------------------------------------
(* A user in a voice channel is found in its list, also after servers were   *)
(* left.                                                                     *)

\* A user who is in the voice channel v is told to be there by the last event
\* about them on its way; if there is none, the states m list them in v, or
\* they are passed over.
Found(m, u, c) == c # None => c \in DOMAIN m /\ Lists(m[c], u)
Sighting(box, m, un, u, v) == v # None =>
    /\ (\A i \in 1..Len(box) : ~OfUser(box[i], u)) /\ u \notin un => Found(m, u, v)
    /\ \A i \in 1..Len(box) : LastOfUser(box, i, u) => Goal(box[i], u) = v

SightStory == Known => \A u \in Users : Sighting(inbox, Standing, PassedOver, u, Seen(u))

\* Events about other things leave it.
LEMMA SightAside ==
  ASSUME NEW Message, NEW box \in Seq(Message), NEW more \in Seq(Message), NEW u, NEW m, NEW un, NEW v,
         \A i \in 1..Len(more) : ~OfUser(more[i], u),
         Sighting(box, m, un, u, v)
  PROVE  Sighting(box \o more, m, un, u, v)
  <1> DEFINE b == box \o more
  <1>1. /\ Len(box) \in Nat /\ Len(b) \in Nat
        /\ \A i \in 1..Len(box) : i \in 1..Len(b) /\ b[i] = box[i]
        /\ \A i \in 1..Len(b) : i > Len(box) => ~OfUser(b[i], u)
    BY ConcatProperties
  <1> HIDE DEF b
  <1>2. \A i \in 1..Len(b) : OfUser(b[i], u) => i \in 1..Len(box) /\ b[i] = box[i]
    BY <1>1
  <1>3. \A i \in 1..Len(b) : LastOfUser(b, i, u) => i \in 1..Len(box) /\ b[i] = box[i] /\ LastOfUser(box, i, u)
    BY <1>1, <1>2 DEF LastOfUser
  <1>4. (\A i \in 1..Len(b) : ~OfUser(b[i], u)) => \A i \in 1..Len(box) : ~OfUser(box[i], u)
    BY <1>1
  <1>5. QED
    BY <1>3, <1>4 DEF Sighting, b

\* An event about the user is sent: whatever was told before, it says where
\* the user is.
LEMMA SightTold ==
  ASSUME NEW Message, NEW box \in Seq(Message), NEW e \in Message, NEW u, NEW m, NEW un,
         OfUser(e, u)
  PROVE  Sighting(Append(box, e), m, un, u, Goal(e, u))
  <1> DEFINE b == Append(box, e)
             n == Len(box) + 1
  <1>1. /\ n \in 1..Len(b) /\ b[n] = e
        /\ \A i \in 1..Len(b) : i = n \/ n \in (i + 1)..Len(b)
    BY AppendProperties
  <1> HIDE DEF b, n
  <1>2. \A i \in 1..Len(b) : LastOfUser(b, i, u) => i = n
    BY <1>1 DEF LastOfUser
  <1>3. QED
    BY <1>1, <1>2 DEF Sighting, b

\* An event is handled: the user it is about is found where it says or passed
\* over, everybody else is where they were.
LEMMA SightAfter ==
  ASSUME NEW Message, NEW box \in Seq(Message), box # <<>>, NEW u, NEW m, NEW m1, NEW un, NEW un1, NEW v,
         IF OfUser(Head(box), u) THEN u \in un1 \/ Found(m1, u, Goal(Head(box), u))
                                 ELSE Same(m, m1, u) /\ (u \in un1 <=> u \in un),
         Sighting(box, m, un, u, v)
  PROVE  Sighting(Tail(box), m1, un1, u, v)
  <1> DEFINE b == Tail(box)
  <1>1. /\ Len(box) \in Nat /\ 1 \in 1..Len(box) /\ Head(box) = box[1]
        /\ \A i \in 1..Len(b) : i + 1 \in 2..Len(box) /\ b[i] = box[i + 1]
        /\ \A i \in 2..Len(box) : i - 1 \in 1..Len(b) /\ b[i - 1] = box[i]
        /\ \A i \in 1..Len(b) : LastOfUser(b, i, u) <=> LastOfUser(box, i + 1, u)
    BY ShorterOf
  <1> HIDE DEF b
  <1>2. SUFFICES ASSUME v # None PROVE Sighting(b, m1, un1, u, v)
    BY DEF Sighting, b
  <1>3. ASSUME NEW i \in 1..Len(b), LastOfUser(b, i, u) PROVE Goal(b[i], u) = v
    <2>1. LastOfUser(box, i + 1, u) /\ i + 1 \in 1..Len(box) /\ b[i] = box[i + 1]
      BY <1>1, <1>3
    <2>2. QED
      BY <1>2, <2>1 DEF Sighting
  <1>4. ASSUME \A i \in 1..Len(b) : ~OfUser(b[i], u), u \notin un1 PROVE Found(m1, u, v)
    <2>1. \A i \in 2..Len(box) : ~OfUser(box[i], u)
      BY <1>1, <1>4
    <2>2. CASE OfUser(Head(box), u)
      <3>1. LastOfUser(box, 1, u)
        BY <1>1, <2>1, <2>2 DEF LastOfUser
      <3>2. Goal(Head(box), u) = v
        BY <1>1, <1>2, <3>1 DEF Sighting
      <3>3. QED
        BY <1>4, <2>2, <3>2
    <2>3. CASE ~OfUser(Head(box), u)
      <3>1. \A i \in 1..Len(box) : i = 1 \/ i \in 2..Len(box)
        BY <1>1
      <3>2. \A i \in 1..Len(box) : ~OfUser(box[i], u)
        BY <1>1, <2>1, <2>3, <3>1
      <3>3. Found(m, u, v)
        BY <1>2, <1>4, <2>3, <3>2 DEF Sighting
      <3>4. QED
        BY <2>3, <3>3 DEF Found, Same
    <2>4. QED
      BY <2>2, <2>3
  <1>5. QED
    BY <1>3, <1>4 DEF Sighting

\* A story of the user tells as much.
LEMMA SightOfStory ==
  ASSUME NEW box, NEW m, NEW un, NEW u, NEW v, VoiceStory(box, m, un, u, v)
  PROVE  Sighting(box, m, un, u, v)
BY DEF VoiceStory, Sighting, ShownAt, Found

\* An event is sent: it tells where the users it is about are, and of all
\* others no one is anywhere new.
LEMMA SightSpoken ==
  ASSUME InboxShape, SightStory, NEW e \in Events, e.kind # "READY", inbox' = Append(inbox, e),
         Known' => Known, UNCHANGED <<states, unnamed, outage>>,
         \A u \in Users : IF OfUser(e, u) THEN Goal(e, u) = Seen(u)' ELSE Seen(u)' \in {Seen(u), None}
  PROVE  SightStory'
  <1>1. /\ inbox \in Seq(Events) /\ <<e>> \in Seq(Events) /\ inbox' = inbox \o <<e>>
        /\ \A i \in 1..Len(<<e>>) : <<e>>[i] = e
    BY AppendIsConcat DEF InboxShape
  <1>2. Standing' = Standing /\ PassedOver' = PassedOver
    BY <1>1, Calmer
  <1>3. SUFFICES ASSUME Known, NEW u \in Users PROVE Sighting(inbox', Standing, PassedOver, u, Seen(u)')
    BY <1>2 DEF SightStory
  <1> DEFINE m == Standing
             un == PassedOver
             v == Seen(u)
             v1 == Seen(u)'
  <1>4. Sighting(inbox, m, un, u, v)
    BY <1>3 DEF SightStory
  <1>5. IF OfUser(e, u) THEN Goal(e, u) = v1 ELSE v1 \in {v, None}
    OBVIOUS
  <1> HIDE DEF m, un, v, v1
  <1>6. CASE OfUser(e, u)
    <2>1. Sighting(Append(inbox, e), m, un, u, v1)
      BY <1>1, <1>5, <1>6, SightTold
    <2>2. QED
      BY <2>1 DEF m, un, v1
  <1>7. CASE ~OfUser(e, u)
    <2>1. Sighting(inbox \o <<e>>, m, un, u, v)
      BY <1>1, <1>4, <1>7, SightAside
    <2>2. Sighting(inbox \o <<e>>, m, un, u, v1)
      BY <1>5, <1>7, <2>1 DEF Sighting
    <2>3. QED
      BY <1>1, <2>2 DEF m, un, v1
  <1>8. QED
    BY <1>6, <1>7

\* Nothing is sent, and the client would not hear of it.
LEMMA SightUnspoken ==
  ASSUME SightStory, UNCHANGED inbox, Known' => Known, UNCHANGED <<states, unnamed>>,
         \A u \in Users : Seen(u)' = Seen(u)
  PROVE  SightStory'
  <1>1. Standing' = Standing /\ PassedOver' = PassedOver
    BY DEF Standing, PassedOver
  <1>2. SUFFICES ASSUME Known, NEW u \in Users PROVE Sighting(inbox', Standing, PassedOver, u, Seen(u)')
    BY <1>1 DEF SightStory
  <1>3. Sighting(inbox, Standing, PassedOver, u, Seen(u))
    BY <1>2 DEF SightStory
  <1>4. QED
    BY <1>3

\* Discord changes.
LEMMA SightOfDiscord ==
  ASSUME IInv, SightStory, DiscordStep
  PROVE  SightStory'
  <1> USE DiscordAssumption
  <1>1. InboxShape /\ Types
    BY DEF IInv
  <1>2. UNCHANGED <<states, unnamed, outage>>
    BY DEF DiscordStep, voiceVars
  <1>3. ASSUME NEW s \in Servers, JoinServer(s) PROVE SightStory'
    <2>1. Guild(s) \in Events /\ Guild(s).kind = "GUILD_CREATE" /\ Guild(s).voice = [u \in InVoice(s) |-> where[u]]
      BY <1>1, Formed DEF Guild
    <2>2. /\ inbox' = Append(inbox, Guild(s)) /\ UNCHANGED <<conn, drops, where>>
          /\ member' = member \cup {s}
      BY <1>3 DEF JoinServer, Send
    <2>3. ASSUME NEW u \in Users
          PROVE  IF OfUser(Guild(s), u) THEN Goal(Guild(s), u) = Seen(u)' ELSE Seen(u)' = Seen(u)
      <3>1. OfUser(Guild(s), u) <=> where[u] # None /\ ServerOf[where[u]] = s
        BY <2>1 DEF OfUser, InVoice
      <3>2. CASE where[u] # None /\ ServerOf[where[u]] = s
        <4>1. u \in InVoice(s) /\ Goal(Guild(s), u) = where[u]
          BY <2>1, <3>2 DEF InVoice, Goal
        <4>2. QED
          BY <2>2, <3>1, <3>2, <4>1 DEF Seen
      <3>3. CASE ~(where[u] # None /\ ServerOf[where[u]] = s)
        BY <2>2, <3>1, <3>3 DEF Seen
      <3>4. QED
        BY <3>2, <3>3
    <2>4. Known' => Known
      BY <2>2 DEF Known
    <2>5. QED
      BY <1>1, <1>2, <2>1, <2>2, <2>3, <2>4, SightSpoken
  <1>4. ASSUME NEW s \in Servers, LeaveServer(s) PROVE SightStory'
    <2> DEFINE e == [kind |-> "GUILD_DELETE", id |-> s]
    <2>1. e \in Events /\ e.kind = "GUILD_DELETE"
      BY <1>1, Formed
    <2>2. /\ inbox' = Append(inbox, e) /\ UNCHANGED <<conn, drops>>
          /\ member' = member \ {s} /\ s \in member
          /\ where' = IF me \in InVoice(s) THEN [where EXCEPT ![me] = None] ELSE where
      BY <1>4 DEF LeaveServer, Send
    <2> HIDE DEF e
    <2>3. (Known' => Known) /\ \A u \in Users : ~OfUser(e, u)
      BY <2>1, <2>2 DEF Known, OfUser
    <2>4. ASSUME NEW u \in Users PROVE Seen(u)' \in {Seen(u), None}
      <3>1. where'[u] = where[u] \/ where'[u] = None
        BY <1>1, <2>2 DEF Types
      <3>2. QED
        BY <2>2, <3>1 DEF Seen
    <2>5. QED
      BY <1>1, <1>2, <2>1, <2>2, <2>3, <2>4, SightSpoken
  <1>5. ASSUME NEW e \in Events, e.kind \notin {"READY", "GUILD_CREATE", "VOICE_STATE_UPDATE"},
               NEW s, Tell(s, e), UNCHANGED <<member, where>>
        PROVE  SightStory'
    <2>1. UNCHANGED <<conn, drops>> /\ (inbox' = Append(inbox, e) \/ UNCHANGED inbox)
      BY <1>5 DEF Tell, Send, gatewayVars
    <2>2. (Known' => Known) /\ (\A u \in Users : Seen(u)' = Seen(u) /\ ~OfUser(e, u))
      BY <1>5, <2>1 DEF Known, Seen, OfUser
    <2>3. QED
      BY <1>1, <1>2, <1>5, <2>1, <2>2, SightSpoken, SightUnspoken
  <1>6. ASSUME NEW s \in Servers, EditServer(s) PROVE SightStory'
    <2> DEFINE e == [kind |-> "GUILD_UPDATE", id |-> s, version |-> serverVersion'[s]]
    <2>1. serverVersion'[s] \in Nat /\ Tell(s, e) /\ UNCHANGED <<member, where>>
      BY <1>1, <1>6 DEF EditServer, Types
    <2>2. e \in Events /\ e.kind = "GUILD_UPDATE"
      BY <1>1, <2>1, Formed
    <2> HIDE DEF e
    <2>3. QED
      BY <1>5, <2>1, <2>2
  <1>7. ASSUME NEW c \in Channels, NEW k \in {"CHANNEL_CREATE", "CHANNEL_UPDATE", "CHANNEL_DELETE"},
               ChangeChannel(c, k)
        PROVE  SightStory'
    <2> DEFINE e == [kind |-> k, id |-> c, version |-> channel'[c]]
    <2>1. channel'[c] \in Nat /\ Tell(ServerOf[c], e) /\ UNCHANGED <<member, where>>
      BY <1>1, <1>7 DEF ChangeChannel, Types
    <2>2. e \in Events /\ e.kind = k
      BY <1>1, <2>1, Formed
    <2> HIDE DEF e
    <2>3. QED
      BY <1>5, <2>1, <2>2
  <1>8. ASSUME NEW u \in Users, NEW c \in VoiceChannels \cup {None}, Move(u, c) PROVE SightStory'
    <2>1. PICK s \in Servers : /\ {ServerOf[d] : d \in {where[u], c} \ {None}} = {s}
                               /\ Tell(s, State(u, c))
      BY <1>8 DEF Move
    <2>2. /\ UNCHANGED <<conn, drops, member>> /\ where' = [where EXCEPT ![u] = c]
          /\ IF s \in member THEN inbox' = Append(inbox, State(u, c)) ELSE UNCHANGED inbox
      BY <1>8, <2>1 DEF Move, Tell, Send, gatewayVars
    <2>3. where'[u] = c /\ \A w \in Users \ {u} : where'[w] = where[w]
      BY <1>1, <2>2 DEF Types
    <2>4. /\ State(u, c) \in Events /\ State(u, c).kind = "VOICE_STATE_UPDATE"
          /\ State(u, c).user = u /\ State(u, c).channel = c
      BY <1>1, Formed DEF State
    <2>5. (where[u] # None => ServerOf[where[u]] = s) /\ (c # None => ServerOf[c] = s)
      BY <2>1
    <2>6. \A w \in Users \ {u} : Seen(w)' = Seen(w)
      BY <2>2, <2>3 DEF Seen
    <2>7. /\ \A w \in Users : OfUser(State(u, c), w) <=> w = u
          /\ Goal(State(u, c), u) = c /\ (Known' => Known)
      BY <2>2, <2>4 DEF OfUser, Goal, Known
    <2>8. CASE s \in member
      <3>1. Seen(u)' = c
        BY <2>2, <2>3, <2>5, <2>8 DEF Seen
      <3>2. \A w \in Users : IF OfUser(State(u, c), w) THEN Goal(State(u, c), w) = Seen(w)' ELSE Seen(w)' = Seen(w)
        BY <2>6, <2>7, <3>1
      <3>3. QED
        BY <1>1, <1>2, <2>2, <2>4, <2>7, <2>8, <3>2, SightSpoken
    <2>9. CASE s \notin member
      <3>1. Seen(u)' = Seen(u)
        BY <2>2, <2>3, <2>5, <2>9 DEF Seen
      <3>2. QED
        BY <1>2, <2>2, <2>6, <2>7, <2>9, <3>1, SightUnspoken
    <2>10. QED
      BY <2>8, <2>9
  <1>9. QED
    BY <1>3, <1>4, <1>6, <1>7, <1>8 DEF DiscordStep

\* A handler, other than READY's, that lists each user its event is about where
\* it says or passes them over, and everybody else as before.
LEMMA SightAttending ==
  ASSUME IInv, SightStory, Receive, UNCHANGED discordVars, Event.kind # "READY",
         \A u \in Users : IF OfUser(Event, u) THEN u \in unnamed' \/ Found(states', u, Goal(Event, u))
                          ELSE Same(states, states', u) /\ (u \in unnamed' <=> u \in unnamed)
  PROVE  SightStory'
  <1>1. /\ inbox \in Seq(Events) /\ inbox # <<>>
        /\ inbox' = Tail(inbox) /\ Event = Head(inbox) /\ Known
        /\ UNCHANGED <<member, where>>
    BY DEF IInv, InboxShape, Receive, Event, Known, discordVars
  <1>2. ~Fresh(inbox) /\ ~Fresh(inbox')
    <2>1. ~Fresh(Tail(inbox)) /\ Head(inbox) = inbox[1]
      BY <1>1, Shorter, ShorterOf DEF IInv, InboxShape
    <2>2. QED
      BY <1>1, <2>1 DEF Fresh
  <1>3. Standing = states /\ PassedOver = unnamed /\ Standing' = states' /\ PassedOver' = unnamed'
    BY <1>2 DEF Standing, PassedOver
  <1>4. SUFFICES ASSUME NEW u \in Users PROVE Sighting(Tail(inbox), states', unnamed', u, Seen(u))
    BY <1>1, <1>3 DEF SightStory, Seen
  <1> DEFINE v == Seen(u)
  <1>5. Sighting(inbox, states, unnamed, u, v)
    BY <1>1, <1>3 DEF SightStory
  <1>6. IF OfUser(Head(inbox), u) THEN u \in unnamed' \/ Found(states', u, Goal(Head(inbox), u))
                                  ELSE Same(states, states', u) /\ (u \in unnamed' <=> u \in unnamed)
    BY <1>1
  <1> HIDE DEF v
  <1>7. Sighting(Tail(inbox), states', unnamed', u, v)
    BY <1>1, <1>5, <1>6, SightAfter
  <1>8. QED
    BY <1>7 DEF v

\* An event is handled.
LEMMA SightOfHandler ==
  ASSUME IInv, VoiceShape, SightStory, Handle
  PROVE  SightStory'
  <1> USE DiscordAssumption
  <1>1. UNCHANGED discordVars /\ Rolls(states)
    BY DEF Handle, VoiceShape, VoiceTypeOK, Rolls
  <1>2. ASSUME Receive PROVE Event \in Events
    BY <1>2, HeadTailProperties DEF Receive, Event, IInv, InboxShape
  <1>3. CASE OnReady
    <2>1. /\ inbox \in Seq(Events) /\ inbox # <<>> /\ \A i \in 2..Len(inbox) : inbox[i].kind # "READY"
          /\ inbox' = Tail(inbox) /\ Head(inbox).kind = "READY" /\ Known
          /\ UNCHANGED <<member, where>> /\ states' = NoStates /\ unnamed' = {}
      BY <1>1, <1>3 DEF OnReady, Receiving, VoiceOnReady, IInv, InboxShape, Receive, Event, Known, discordVars
    <2>2. Fresh(inbox)
      <3>1. Head(inbox) = inbox[1]
        BY <2>1, ShorterOf
      <3>2. QED
        BY <2>1, <3>1 DEF Fresh
    <2>3. Standing = NoStates /\ PassedOver = {} /\ Standing' = NoStates /\ PassedOver' = {}
      BY <2>1, <2>2 DEF Standing, PassedOver
    <2>4. SUFFICES ASSUME NEW u \in Users PROVE Sighting(Tail(inbox), NoStates, {}, u, Seen(u))
      BY <2>1, <2>3 DEF SightStory, Seen
    <2> DEFINE v == Seen(u)
    <2>5. Sighting(inbox, NoStates, {}, u, v)
      BY <2>1, <2>3 DEF SightStory
    <2>6. ~OfUser(Head(inbox), u) /\ Same(NoStates, NoStates, u)
      BY <2>1 DEF OfUser, Same
    <2> HIDE DEF v
    <2>7. Sighting(Tail(inbox), NoStates, {}, u, v)
      BY <2>1, <2>5, <2>6, SightAfter
    <2>8. QED
      BY <2>7 DEF v
  <1>4. CASE OnServer
    <2>1. Receive /\ Event.kind = "GUILD_CREATE" /\ VoiceOnServer /\ Event \in Events
      BY <1>2, <1>4 DEF OnServer, Receiving
    <2>2. PICK present \in SUBSET Users : Event.voice \in [present -> VoiceChannels]
      BY <2>1 DEF Events
    <2> DEFINE at == Event.voice
    <2>3. PICK named \in SUBSET DOMAIN at :
              /\ states' = [c \in DOMAIN states \cup {at[u] : u \in named} |->
                              (IF c \in DOMAIN states THEN states[c] ELSE <<>>)
                              \o SetToSeq({u \in named : at[u] = c})]
              /\ unnamed' = (unnamed \ named) \cup (DOMAIN at \ named)
      BY <2>1 DEF VoiceOnServer
    <2> DEFINE g == [u \in named |-> at[u]]
    <2>4. /\ named \in SUBSET Users /\ g \in [named -> VoiceChannels]
          /\ \A u \in named : g[u] = at[u] /\ u \in DOMAIN at
      BY <2>2, <2>3
    <2>5. \A u : (OfUser(Event, u) <=> u \in DOMAIN at) /\ Goal(Event, u) = at[u]
      BY <2>1 DEF OfUser, Goal
    <2> HIDE DEF at, g
    <2>6. states' = Joined(states, named, g)
      <3>1. {g[u] : u \in named} = {at[u] : u \in named}
        BY <2>4
      <3>2. \A c : {u \in named : g[u] = c} = {u \in named : at[u] = c}
        BY <2>4
      <3>3. QED
        BY <2>3, <3>1, <3>2 DEF Joined
    <2>7. /\ \A u \in named : g[u] \in DOMAIN states' /\ Lists(states'[g[u]], u)
          /\ \A w : w \notin named => Same(states, states', w)
      BY <1>1, <2>4, <2>6, AllIn
    <2>8. ASSUME NEW u \in Users, u \in DOMAIN at PROVE u \in unnamed' \/ Found(states', u, at[u])
      <3>1. u \in unnamed' \/ u \in named
        BY <2>3, <2>8
      <3>2. QED
        BY <2>4, <2>7, <3>1 DEF Found
    <2>9. ASSUME NEW u \in Users, u \notin DOMAIN at
          PROVE  Same(states, states', u) /\ (u \in unnamed' <=> u \in unnamed)
      BY <2>3, <2>4, <2>7, <2>9
    <2>10. QED
      BY <1>1, <2>1, <2>5, <2>8, <2>9, SightAttending
  <1>5. CASE OnEditVoiceState
    <2> DEFINE u == Event.user
               c == Event.channel
    <2>1. Receive /\ Event.kind = "VOICE_STATE_UPDATE" /\ VoiceOnEditVoiceState /\ Event \in Events
      BY <1>2, <1>5 DEF OnEditVoiceState, Receiving
    <2>2. u \in Users /\ c \in VoiceChannels \cup {None}
      BY <2>1 DEF Events
    <2>3. states' = Moved(states, u, c) /\ unnamed' = unnamed \ {u}
      BY <2>1 DEF VoiceOnEditVoiceState
    <2>4. \A w : (OfUser(Event, w) <=> w = u) /\ Goal(Event, w) = c
      BY <2>1 DEF OfUser, Goal
    <2> HIDE DEF u, c
    <2>5. Found(states', u, c) /\ \A w : w # u => Same(states, states', w)
      BY <1>1, <2>2, <2>3, Moving DEF Found
    <2>6. QED
      BY <1>1, <2>1, <2>3, <2>4, <2>5, SightAttending
  <1>6. CASE \/ OnResumed \/ OnEditServer \/ OnDeleteServer
             \/ OnChannel \/ OnEditChannel \/ OnDeleteChannel \/ OnVoiceServer
    <2>1. /\ Receive /\ UNCHANGED <<states, unnamed>>
          /\ Event.kind \notin {"READY", "GUILD_CREATE", "VOICE_STATE_UPDATE"}
      BY <1>6 DEF OnResumed, OnEditServer, OnDeleteServer, OnChannel, OnEditChannel, OnDeleteChannel, OnVoiceServer,
                  Receiving, VoiceOnResumed, VoiceOnDeleteServer, VoiceOnVoiceServer, voiceVars
    <2>2. \A u \in Users : ~OfUser(Event, u) /\ Same(states, states', u)
      BY <2>1 DEF OfUser, Same
    <2>3. QED
      BY <1>1, <2>1, <2>2, SightAttending
  <1>7. QED
    BY <1>3, <1>4, <1>5, <1>6 DEF Handle

\* The UI asks for something.
LEMMA SightOfUI ==
  ASSUME IInv, SightStory, Request
  PROVE  SightStory'
  <1> USE DiscordAssumption
  <1>1. InboxShape /\ Types
    BY DEF IInv
  <1>2. ASSUME UNCHANGED <<gatewayVars, discordVars, states, unnamed>> PROVE SightStory'
    <2>1. UNCHANGED inbox /\ (Known' => Known) /\ \A u \in Users : Seen(u)' = Seen(u)
      BY <1>2 DEF gatewayVars, discordVars, Known, Seen
    <2>2. QED
      BY <1>2, <2>1, SightUnspoken
  <1>3. ASSUME NEW c \in VoiceChannels, Enter(c), JoinVoiceChannel PROVE SightStory'
    <2> DEFINE gone == State(me, None)
               come == State(me, c)
               voice == [kind |-> "VOICE_SERVER_UPDATE", channel |-> c]
               away == IF where[me] # None /\ ServerOf[where[me]] # ServerOf[c] THEN <<gone>> ELSE <<>>
               b == inbox \o away
    <2>1. /\ UNCHANGED <<conn, drops, member, states, unnamed, outage>>
          /\ where' = [where EXCEPT ![me] = c] /\ ServerOf[c] \in member
          /\ inbox' = b \o <<come, voice>>
      BY <1>3 DEF Enter, JoinVoiceChannel
    <2>2. /\ gone \in Events /\ come \in Events /\ voice \in Events /\ inbox \in Seq(Events)
          /\ gone.kind = "VOICE_STATE_UPDATE" /\ gone.user = me
          /\ come.kind = "VOICE_STATE_UPDATE" /\ come.user = me /\ come.channel = c
          /\ voice.kind = "VOICE_SERVER_UPDATE"
      BY <1>1, Formed DEF State, InboxShape
    <2>3. /\ \A u : OfUser(gone, u) <=> u = me
          /\ \A u : OfUser(come, u) <=> u = me
          /\ \A u : ~OfUser(voice, u)
          /\ Goal(come, me) = c
      BY <2>2 DEF OfUser, Goal
    <2> DEFINE more == away \o <<come, voice>>
    <2>4. away \in Seq(Events) /\ <<come, voice>> \in Seq(Events)
      BY <2>2, TwoEvents, OneEvent
    <2> HIDE DEF gone, come, voice
    <2>5. \A i \in 1..Len(away) : away[i] = gone
      OBVIOUS
    <2>6. b \in Seq(Events) /\ Append(b, come) \in Seq(Events) /\ inbox' = Append(Append(b, come), voice)
      <3> HIDE DEF away
      <3>1. b \in Seq(Events)
        BY <2>2, <2>4, ConcatProperties
      <3> HIDE DEF b
      <3>2. QED
        BY <2>1, <2>2, <3>1
    <2>7. /\ <<come>> \in Seq(Events) /\ \A i \in 1..Len(<<come>>) : <<come>>[i] = come
          /\ <<voice>> \in Seq(Events) /\ \A i \in 1..Len(<<voice>>) : <<voice>>[i] = voice
          /\ Append(b, come) = b \o <<come>> /\ inbox' = Append(b, come) \o <<voice>>
      <3> HIDE DEF b
      <3>1. /\ <<come>> \in Seq(Events) /\ \A i \in 1..Len(<<come>>) : <<come>>[i] = come
            /\ <<voice>> \in Seq(Events) /\ \A i \in 1..Len(<<voice>>) : <<voice>>[i] = voice
        BY <2>2, OneEvent
      <3>2. Append(b, come) = b \o <<come>> /\ Append(Append(b, come), voice) = Append(b, come) \o <<voice>>
        BY <2>2, <2>6, AppendIsConcat
      <3>3. QED
        BY <2>6, <3>1, <3>2
    <2> HIDE DEF b
    <2>8. ASSUME NEW u \in Users, NEW m, NEW un, NEW v, Sighting(inbox, m, un, u, v)
          PROVE  Sighting(inbox', m, un, u, IF u = me THEN c ELSE v)
      <3>1. CASE u = me
        <4>1. OfUser(come, u) /\ ~OfUser(voice, u) /\ Goal(come, u) = c
          BY <2>3, <3>1
        <4>2. Sighting(Append(b, come), m, un, u, c)
          BY <2>2, <2>6, <4>1, SightTold
        <4>3. \A i \in 1..Len(<<voice>>) : ~OfUser(<<voice>>[i], u)
          BY <2>7, <4>1
        <4>4. Sighting(Append(b, come) \o <<voice>>, m, un, u, c)
          BY <2>6, <2>7, <4>2, <4>3, SightAside
        <4>5. QED
          BY <2>7, <3>1, <4>4
      <3>2. CASE u # me
        <4>1. \A i \in 1..Len(away) : ~OfUser(away[i], u)
          BY <2>3, <2>5, <3>2
        <4>2. Sighting(b, m, un, u, v)
          <5> HIDE DEF away
          <5>1. QED
            BY <2>2, <2>4, <2>8, <4>1, SightAside DEF b
        <4>3. /\ \A i \in 1..Len(<<come>>) : ~OfUser(<<come>>[i], u)
              /\ \A i \in 1..Len(<<voice>>) : ~OfUser(<<voice>>[i], u)
          BY <2>3, <2>7, <3>2
        <4>4. Sighting(b \o <<come>>, m, un, u, v)
          BY <2>6, <2>7, <4>2, <4>3, SightAside
        <4>5. Sighting(Append(b, come) \o <<voice>>, m, un, u, v)
          BY <2>6, <2>7, <4>3, <4>4, SightAside
        <4>6. QED
          BY <2>7, <3>2, <4>5
      <3>3. QED
        BY <3>1, <3>2
    <2> USE DEF b
    <2>9. Standing' = Standing /\ PassedOver' = PassedOver
      <3>1. inbox' = inbox \o more
        <4> DEFINE two == <<come, voice>>
        <4> HIDE DEF two, away
        <4>1. (inbox \o away) \o two = inbox \o (away \o two)
          BY <2>2, <2>4, ConcatAssociative DEF two
        <4>2. QED
          BY <2>1, <4>1 DEF two
      <3>2. more \in Seq(Events) /\ \A i \in 1..Len(more) : more[i].kind # "READY"
        <4> DEFINE Kind == {e \in Events : e.kind # "READY"}
        <4>1. gone \in Kind /\ come \in Kind /\ voice \in Kind
          BY <2>2
        <4> HIDE DEF Kind
        <4>2. away \in Seq(Kind) /\ <<come, voice>> \in Seq(Kind)
          BY <4>1
        <4>3. more \in Seq(Kind)
          BY <4>2, ConcatProperties
        <4> HIDE DEF more
        <4>4. QED
          BY <4>3 DEF Kind
      <3> HIDE DEF more
      <3>3. QED
        BY <1>1, <2>1, <3>1, <3>2, Calmer
    <2>10. \A u \in Users : Seen(u)' = IF u = me THEN c ELSE Seen(u)
      <3>1. \A u \in Users : where'[u] = IF u = me THEN c ELSE where[u]
        BY <1>1, <2>1 DEF Types
      <3>2. c # None
        BY DEF None
      <3>3. QED
        BY <2>1, <3>1, <3>2 DEF Seen
    <2>11. Known' => Known
      BY <2>1 DEF Known
    <2>12. SUFFICES ASSUME Known, NEW u \in Users PROVE Sighting(inbox', Standing, PassedOver, u, Seen(u)')
      BY <2>9, <2>11 DEF SightStory
    <2>13. Sighting(inbox, Standing, PassedOver, u, Seen(u))
      BY <2>12 DEF SightStory
    <2>14. Sighting(inbox', Standing, PassedOver, u, IF u = me THEN c ELSE Seen(u))
      BY <2>8, <2>13
    <2>15. QED
      BY <2>10, <2>14
  <1>4. CASE DisconnectVoiceChannel /\ UNCHANGED <<gatewayVars, discordVars>>
    BY <1>2, <1>4 DEF DisconnectVoiceChannel
  <1>5. QED
    BY <1>2, <1>3, <1>4 DEF Request, voiceVars

\* A connection is lost, resumed or begun anew.
LEMMA SightOfConnection ==
  ASSUME IInv, SightStory, Connection
  PROVE  SightStory'
  <1> USE DiscordAssumption
  <1>1. InboxShape /\ Types
    BY DEF IInv
  <1>2. UNCHANGED <<states, unnamed, outage, member, where>>
    BY DEF Connection, VoiceOnDisconnect, VoiceReady, Reconnect, voiceVars, discordVars
  <1>3. \A u \in Users : Seen(u)' = Seen(u)
    BY <1>2 DEF Seen
  <1>4. CASE Drop
    <2>1. UNCHANGED inbox /\ Known
      BY <1>4 DEF Drop, Known
    <2>2. QED
      BY <1>2, <1>3, <2>1, SightUnspoken
  <1>5. CASE UNCHANGED gatewayVars
    <2>1. UNCHANGED inbox /\ (Known' => Known)
      BY <1>5 DEF gatewayVars, Known
    <2>2. QED
      BY <1>2, <1>3, <2>1, SightUnspoken
  <1>6. CASE Resume
    <2> DEFINE e == [kind |-> "RESUMED"]
    <2>1. e \in Events /\ e.kind = "RESUMED" /\ \A u \in Users : ~OfUser(e, u)
      BY <1>1, Formed DEF OfUser
    <2>2. inbox' = Append(inbox, e) /\ Known
      BY <1>1, <1>6 DEF Resume, Types, Known
    <2> HIDE DEF e
    <2>3. QED
      BY <1>1, <1>2, <1>3, <2>1, <2>2, SightSpoken
  <1>7. CASE Identify([i \in 1..Cardinality(member) |-> Guild(SetToSeq(member)[i])])
    <2>1. Fresh(inbox') /\ \A u \in Users : VoiceStory(inbox', NoStates, {}, u, Seen(u))
      BY <1>1, <1>7, AfterIdentify
    <2>2. Standing' = NoStates /\ PassedOver' = {}
      BY <2>1 DEF Standing, PassedOver
    <2>3. QED
      BY <1>3, <2>1, <2>2, SightOfStory DEF SightStory
  <1>8. QED
    BY <1>4, <1>5, <1>6, <1>7 DEF Connection, Reconnect

\* However users move, servers come and go, also with outages in between, and
\* connections drop: once every event is handled, each user in a voice channel
\* of the client's servers is in its list, but for those whose member the last
\* GUILD_CREATE about them lacked.
THEOREM NobodyIsHidden == Spec => []NobodyHidden
  <1>1. ASSUME Init PROVE SightStory
    BY <1>1 DEF Init, DiscordInit, GatewayInit, Known, SightStory
  <1>2. IInv /\ Shapes /\ SightStory /\ [Next]_vars => SightStory'
    <2>1. SUFFICES ASSUME IInv, VoiceShape, SightStory, [Next]_vars PROVE SightStory'
      BY DEF Shapes
    <2>2. CASE UNCHANGED vars
      <3>1. /\ UNCHANGED <<inbox, states, unnamed>> /\ (Known' => Known)
            /\ \A u \in Users : Seen(u)' = Seen(u)
        BY <2>2 DEF vars, gatewayVars, discordVars, voiceVars, Known, Seen
      <3>2. QED
        BY <2>1, <3>1, SightUnspoken
    <2>3. CASE Next
      BY <2>1, <2>3, SightOfDiscord, SightOfHandler, SightOfUI, SightOfConnection DEF Next
    <2>4. QED
      BY <2>1, <2>2, <2>3
  <1>3. ASSUME IInv, SightStory PROVE NobodyHidden
    <2>1. SUFFICES ASSUME Quiet, NEW s \in member, NEW u \in InVoice(s), u \notin unnamed
                   PROVE  where[u] \in DOMAIN states /\ Lists(states[where[u]], u)
      BY DEF NobodyHidden
    <2>2. Known /\ ~Fresh(inbox) /\ Len(inbox) = 0
      BY <2>1 DEF Quiet, Known, Fresh
    <2>3. u \in Users /\ Seen(u) = where[u] /\ where[u] # None
      BY <2>1 DEF InVoice, Seen
    <2>4. Sighting(inbox, states, unnamed, u, where[u])
      BY <1>3, <2>2, <2>3 DEF SightStory, Standing, PassedOver
    <2>5. QED
      BY <2>1, <2>2, <2>3, <2>4 DEF Sighting, Found
  <1>4. QED
    BY <1>1, <1>2, <1>3, Invariance, ShapesKept, PTL DEF Spec
=============================================================================
