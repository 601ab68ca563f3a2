------------------------- MODULE VoiceSessionProofs -------------------------
(***************************************************************************)
(* Proofs about the voice connections, for any set of addresses: the list  *)
(* and the client's pointer agree with what lives at each address, the     *)
(* loop of a tick, which starts over whenever it called a connection,      *)
(* misses none and calls none twice, and there is one connection at most   *)
(* unless the gateway was lost or a join did not wait for another.         *)
(***************************************************************************)
EXTENDS VoiceSession, FiniteSetTheorems, SequenceTheorems, TLAPS

Distinct(q) == \A i, j \in 1..Len(q) : q[i] = q[j] => i = j
Elements(q) == {q[i] : i \in 1..Len(q)}

\* What may live at an address.
What == {"free", "context", "nosocket", "connecting", "ready"}

\* The list names each connection once.
ListShape == /\ connections \in Seq(Address) /\ Distinct(connections)
             /\ Listed = {a \in Address : state[a] \notin {"free", "context"}}

\* The types of what a single variable holds.
Types == /\ phase \in {"idle", "gateway", "voice", "schedule"}
         /\ state \in [Address -> {"free", "context", "nosocket", "connecting", "ready"}]
         /\ current \in Address \cup {0} /\ saved \in BOOLEAN
         /\ index \in 0..Len(connections)
         /\ called \subseteq Address /\ due \subseteq Address
         /\ ticks \in [Address -> 0..2]

\* The loop: what it passed was called, so where it ends all were; who is due
\* and was not called is still listed, and was not ticked.
LoopShape ==
    /\ phase \in {"idle", "gateway"} => index = 0
    /\ phase = "voice" =>
           /\ \A i \in 1..index : connections[i] \in called
           /\ due \ called \subseteq Listed
           /\ \A a \in Listed \ called : a \in due <=> state[a] # "nosocket"
           /\ \A a \in Address : ticks[a] = IF a \in due \cap called THEN 1 ELSE 0

\* Where the client's pointer leads.
CurrentShape == current # 0 => state[current] = (IF selfRemoved THEN "free" ELSE "ready")

\* Whatever is ready is the current connection, so joining leaves it.
OneShape == ~orphaning => /\ \A a, b \in Address : state[a] # "free" /\ state[b] # "free" => a = b
                          /\ \A a \in Address : state[a] = "ready" => current = a

IInv == Types /\ ListShape /\ LoopShape /\ EachTickedOnce /\ CurrentShape /\ OneShape
-----------------------------------------------------------------------------
(* Lists without repetition: their length, and what erasing and adding do. *)

LEMMA Counting ==
  ASSUME NEW q \in Seq(Address), Distinct(q)
  PROVE  Cardinality(Elements(q)) = Len(q)
  <1>1. Len(q) \in Nat /\ q \in [1..Len(q) -> Elements(q)]
    BY DEF Elements
  <1>2. q \in Bijection(1..Len(q), Elements(q))
    BY <1>1 DEF Distinct, Elements, Bijection, Injection, Surjection, IsInjective
  <1>3. ExistsBijection(1..Len(q), Elements(q))
    BY <1>2 DEF ExistsBijection
  <1>4. QED
    BY <1>1, <1>3, FS_CountingElements

LEMMA Erasing ==
  ASSUME NEW q \in Seq(Address), Distinct(q), NEW i \in 1..Len(q)
  PROVE  /\ RemoveAt(q, i) \in Seq(Address) /\ Distinct(RemoveAt(q, i))
         /\ Elements(RemoveAt(q, i)) = Elements(q) \ {q[i]}
  <1> DEFINE a == SubSeq(q, 1, i - 1)
             b == SubSeq(q, i + 1, Len(q))
             r == RemoveAt(q, i)
  <1>1. a \in Seq(Address) /\ Len(a) = i - 1 /\ \A j \in 1..(i - 1) : a[j] = q[j]
    OBVIOUS
  <1>2. b \in Seq(Address) /\ Len(b) = Len(q) - i /\ \A j \in 1..(Len(q) - i) : b[j] = q[i + j]
    OBVIOUS
  <1>0. r = a \o b
    BY DEF RemoveAt
  <1> HIDE DEF a, b, r
  <1>3. r \in Seq(Address) /\ Len(r) = Len(q) - 1
    <2>1. r \in Seq(Address) /\ Len(r) = Len(a) + Len(b)
      BY <1>0, <1>1, <1>2, ConcatProperties
    <2>2. Len(q) \in Nat
      OBVIOUS
    <2>3. Len(r) = Len(q) - 1
      BY <1>1, <1>2, <2>1, <2>2
    <2>4. QED
      BY <2>1, <2>3
  <1>4. ASSUME NEW j \in 1..(Len(q) - 1)
        PROVE  r[j] = IF j < i THEN q[j] ELSE q[j + 1]
    <2>1. /\ j \in 1..(Len(a) + Len(b)) => r[j] = IF j <= Len(a) THEN a[j] ELSE b[j - Len(a)]
      BY <1>0, <1>1, <1>2, ConcatProperties
    <2>2. Len(q) \in Nat
      OBVIOUS
    <2>3. CASE j < i
      <3>1. j \in 1..(i - 1) /\ j <= Len(a) /\ j \in 1..(Len(a) + Len(b))
        BY <1>1, <1>2, <2>2, <2>3
      <3>2. QED
        BY <1>1, <2>1, <2>3, <3>1
    <2>4. CASE ~(j < i)
      <3>1. /\ j - Len(a) \in 1..(Len(q) - i) /\ ~(j <= Len(a)) /\ j \in 1..(Len(a) + Len(b))
            /\ i + (j - Len(a)) = j + 1
        BY <1>1, <1>2, <2>2, <2>4
      <3>2. QED
        BY <1>2, <2>1, <2>4, <3>1
    <2>5. QED
      BY <2>3, <2>4
  <1>5. Distinct(r)
    <2>1. SUFFICES ASSUME NEW j \in 1..(Len(q) - 1), NEW k \in 1..(Len(q) - 1), r[j] = r[k] PROVE j = k
      BY <1>3 DEF Distinct
    <2>2. /\ Len(q) \in Nat
          /\ j \in 1..Len(q) /\ j + 1 \in 1..Len(q) /\ k \in 1..Len(q) /\ k + 1 \in 1..Len(q)
      OBVIOUS
    <2>3. (IF j < i THEN j ELSE j + 1) = (IF k < i THEN k ELSE k + 1)
      BY <1>4, <2>1, <2>2 DEF Distinct
    <2>4. QED
      BY <2>2, <2>3
  <1>6. ASSUME NEW j \in 1..(Len(q) - 1) PROVE r[j] \in Elements(q) \ {q[i]}
    <2>1. PICK k \in 1..Len(q) : k # i /\ r[j] = q[k]
      <3>1. j \in 1..Len(q) /\ j + 1 \in 1..Len(q) /\ (j < i => j # i) /\ (~(j < i) => j + 1 # i)
        OBVIOUS
      <3>2. QED
        BY <1>4, <3>1
    <2>2. q[k] # q[i]
      BY <2>1 DEF Distinct
    <2>3. QED
      BY <2>1, <2>2 DEF Elements
  <1>7. ASSUME NEW k \in 1..Len(q), k # i PROVE q[k] \in Elements(r)
    <2>1. CASE k < i
      BY <1>3, <1>4, <2>1 DEF Elements
    <2>2. CASE k > i
      <3>1. k - 1 \in 1..(Len(q) - 1) /\ r[k - 1] = q[k]
        BY <1>4, <2>2
      <3>2. QED
        BY <1>3, <3>1 DEF Elements
    <2>3. QED
      BY <1>7, <2>1, <2>2
  <1>8. QED
    BY <1>3, <1>5, <1>6, <1>7 DEF Elements, r

LEMMA Adding ==
  ASSUME NEW q \in Seq(Address), Distinct(q), NEW a \in Address, a \notin Elements(q),
         NEW r \in {<<a>> \o q, Append(q, a)}
  PROVE  r \in Seq(Address) /\ Distinct(r) /\ Elements(r) = Elements(q) \cup {a} /\ Len(r) = Len(q) + 1
  <1>1. CASE r = <<a>> \o q
    <2>1. <<a>> \in Seq(Address) /\ Len(<<a>>) = 1 /\ <<a>>[1] = a
      OBVIOUS
    <2>2. r \in Seq(Address) /\ Len(r) = Len(q) + 1
      BY <1>1, <2>1
    <2>3. \A j \in 1..Len(r) : r[j] = IF j = 1 THEN a ELSE q[j - 1]
      <3> DEFINE t == <<a>>
      <3>1. t \in Seq(Address) /\ Len(t) = 1 /\ t[1] = a
        OBVIOUS
      <3> HIDE DEF t
      <3>2. \A j \in 1..Len(t) + Len(q) : (t \o q)[j] = IF j <= Len(t) THEN t[j] ELSE q[j - Len(t)]
        BY <3>1, ConcatProperties
      <3>3. QED
        BY <1>1, <2>2, <3>1, <3>2 DEF t
    <2>4. Distinct(r)
      <3>1. ASSUME NEW j \in 2..Len(r) PROVE r[j] = q[j - 1] /\ r[j] # a /\ j - 1 \in 1..Len(q)
        BY <2>2, <2>3 DEF Elements
      <3>2. r[1] = a
        BY <2>2, <2>3
      <3>3. ASSUME NEW j \in 2..Len(r), NEW k \in 2..Len(r), r[j] = r[k] PROVE j = k
        <4>1. j - 1 \in 1..Len(q) /\ k - 1 \in 1..Len(q) /\ q[j - 1] = q[k - 1]
          BY <3>1, <3>3
        <4>2. j - 1 = k - 1
          BY <4>1 DEF Distinct
        <4>3. QED
          BY <4>2
      <3>4. QED
        BY <2>2, <3>1, <3>2, <3>3 DEF Distinct
    <2>6. Elements(r) \subseteq Elements(q) \cup {a}
      <3>1. ASSUME NEW j \in 1..Len(r) PROVE r[j] \in Elements(q) \cup {a}
        BY <2>2, <2>3 DEF Elements
      <3>2. QED
        BY <3>1 DEF Elements
    <2>7. a \in Elements(r)
      <3>1. 1 \in 1..Len(r) /\ r[1] = a
        BY <2>2, <2>3
      <3>2. QED
        BY <3>1 DEF Elements
    <2>5. ASSUME NEW k \in 1..Len(q) PROVE q[k] \in Elements(r)
      <3>1. k + 1 \in 1..Len(r) /\ r[k + 1] = q[k]
        BY <2>2, <2>3
      <3>2. QED
        BY <3>1 DEF Elements
    <2>8. QED
      BY <2>2, <2>4, <2>5, <2>6, <2>7 DEF Elements
  <1>2. CASE r = Append(q, a)
    <2>1. r \in Seq(Address) /\ Len(r) = Len(q) + 1
          /\ \A j \in 1..Len(r) : r[j] = IF j = Len(r) THEN a ELSE q[j]
      BY <1>2
    <2>2. QED
      BY <2>1 DEF Distinct, Elements
  <1>3. QED
    BY <1>1, <1>2
-----------------------------------------------------------------------------
LEMMA InitIInv == ASSUME Init PROVE IInv
  <1>1. connections \in Seq(Address) /\ Len(connections) = 0 /\ Listed = {}
    BY DEF Init, Listed
  <1>2. Types
    <2>1. saved \in BOOLEAN
      BY DEF Init
    <2>2. QED
      BY <1>1, <2>1 DEF Init, Types
  <1>3. ListShape
    BY <1>1 DEF Init, ListShape, Distinct
  <1>4. LoopShape /\ EachTickedOnce /\ CurrentShape /\ OneShape
    BY DEF Init, LoopShape, EachTickedOnce, CurrentShape, OneShape
  <1>5. QED
    BY <1>2, <1>3, <1>4 DEF IInv

\* Erasing a connection together with what lives at its address.
LEMMA Erased ==
  ASSUME Types, ListShape, NEW i \in 0..Len(connections), Erase(i)
  PROVE  /\ connections' \in Seq(Address) /\ Distinct(connections')
         /\ Freed(i) \in [Address -> What]
         /\ Listed' = {a \in Address : Freed(i)[a] \notin {"free", "context"}}
         /\ \A b \in Address : Freed(i)[b] = (IF i # 0 /\ b = connections[i] THEN "free" ELSE state[b])
  <1>1. CASE i = 0
    BY <1>1 DEF Types, ListShape, Erase, Freed, Listed, What
  <1>2. CASE i # 0
    <2>1. i \in 1..Len(connections) /\ connections[i] \in Address
      BY <1>2 DEF ListShape
    <2>2. /\ connections' \in Seq(Address) /\ Distinct(connections')
          /\ Elements(connections') = Elements(connections) \ {connections[i]}
      BY <1>2, <2>1, Erasing DEF ListShape, Erase
    <2>3. Listed' = Listed \ {connections[i]}
      BY <2>2 DEF Listed, Elements
    <2>4. Freed(i) = [state EXCEPT ![connections[i]] = "free"]
      BY <1>2 DEF Freed
    <2>5. QED
      BY <1>2, <2>1, <2>2, <2>3, <2>4 DEF ListShape, Types, What
  <1>3. QED
    BY <1>1, <1>2

\* Leaving the current channel: what is left was there before, and nothing is
\* left of the current connection.
LEMMA CurrentLeft ==
  ASSUME IInv, NEW i \in Removable(current), Erase(i)
  PROVE  /\ connections' \in Seq(Address) /\ Distinct(connections')
         /\ Freed(i) \in [Address -> What]
         /\ Listed' = {a \in Address : Freed(i)[a] \notin {"free", "context"}}
         /\ \A b \in Address : Freed(i)[b] = "free" \/ Freed(i)[b] = state[b]
         /\ current # 0 => Freed(i)[current] = "free"
  <1>1. i \in 0..Len(connections)
    BY DEF Removable, IInv, ListShape
  <1>2. current \in Address \cup {0}
    BY DEF IInv, Types
  <1>3. current # 0 /\ state[current] # "free" => i # 0 /\ connections[i] = current
    BY DEF Removable
  <1>4. QED
    BY <1>1, <1>2, <1>3, Erased DEF IInv

\* A new connection for an address that had none.
LEMMA Appeared ==
  ASSUME Types, ListShape, NEW a \in Address, state[a] \in {"free", "context"},
         NEW s \in {"nosocket", "connecting"}, state' = [state EXCEPT ![a] = s],
         connections' \in {<<a>> \o connections, Append(connections, a)}
  PROVE  /\ ListShape' /\ Len(connections') = Len(connections) + 1
         /\ state' \in [Address -> What]
  <1>1. a \notin Elements(connections)
    BY DEF Types, ListShape, Listed, Elements
  <1>2. /\ connections' \in Seq(Address) /\ Distinct(connections')
        /\ Elements(connections') = Elements(connections) \cup {a}
        /\ Len(connections') = Len(connections) + 1
    BY <1>1, Adding DEF ListShape
  <1>3. Listed' = Listed \cup {a}
    BY <1>2 DEF Listed, Elements
  <1>4. QED
    BY <1>2, <1>3 DEF ListShape, Types, What
-----------------------------------------------------------------------------
(* Every step keeps the invariant. *)

LEMMA LeaveKeeps == ASSUME IInv, DisconnectVoiceChannel PROVE IInv'
  <1>1. PICK i \in Removable(current) : Erase(i) /\ state' = Freed(i)
    BY DEF DisconnectVoiceChannel
  <1>2. /\ connections' \in Seq(Address) /\ Distinct(connections')
        /\ state' \in [Address -> What]
        /\ Listed' = {a \in Address : state'[a] \notin {"free", "context"}}
        /\ \A b \in Address : state'[b] = "free" \/ state'[b] = state[b]
        /\ current # 0 => state'[current] = "free"
    BY <1>1, CurrentLeft
  <1>3. saved' \in BOOLEAN /\ current' = 0 /\ phase' = phase /\ phase = "idle"
    BY DEF DisconnectVoiceChannel
  <1>4. index' = 0 /\ UNCHANGED <<called, due, ticks>>
    BY <1>3 DEF DisconnectVoiceChannel, loopVars, IInv, LoopShape
  <1>5. Types'
    BY <1>2, <1>3, <1>4 DEF IInv, Types, What
  <1>6. ListShape' /\ LoopShape' /\ EachTickedOnce' /\ CurrentShape'
    BY <1>2, <1>3, <1>4 DEF ListShape, LoopShape, EachTickedOnce, CurrentShape
  <1>7. OneShape'
    BY <1>2, <1>3 DEF DisconnectVoiceChannel, IInv, Types, OneShape
  <1>8. QED
    BY <1>5, <1>6, <1>7 DEF IInv

LEMMA JoinKeeps == ASSUME IInv, NEW a \in Address, JoinVoiceChannel(a) PROVE IInv'
  <1>1. PICK i \in Removable(current) :
            Erase(i) /\ Freed(i)[a] = "free" /\ state' = [Freed(i) EXCEPT ![a] = "context"]
    BY DEF JoinVoiceChannel
  <1>2. /\ connections' \in Seq(Address) /\ Distinct(connections')
        /\ Freed(i) \in [Address -> What]
        /\ Listed' = {b \in Address : Freed(i)[b] \notin {"free", "context"}}
        /\ \A b \in Address : Freed(i)[b] = "free" \/ Freed(i)[b] = state[b]
        /\ current # 0 => Freed(i)[current] = "free"
    BY <1>1, CurrentLeft
  <1>3. saved' \in BOOLEAN /\ current' = 0 /\ phase' = phase /\ phase = "idle"
    BY DEF JoinVoiceChannel, IInv, Types
  <1>4. index' = 0 /\ UNCHANGED <<called, due, ticks>>
    BY <1>3 DEF JoinVoiceChannel, loopVars, IInv, LoopShape
  <1>5. Types'
    BY <1>1, <1>2, <1>3, <1>4 DEF IInv, Types, What
  <1>6. ListShape' /\ LoopShape' /\ EachTickedOnce' /\ CurrentShape'
    BY <1>1, <1>2, <1>3, <1>4 DEF ListShape, LoopShape, EachTickedOnce, CurrentShape, What
  <1>7. OneShape'
    <2>1. SUFFICES ASSUME ~orphaning, ~UnderWay, orphaning' = FALSE PROVE OneShape'
      BY DEF JoinVoiceChannel, OneShape
    <2>2. \A b \in Address : state[b] \in {"free", "ready"}
      BY <2>1 DEF UnderWay, IInv, Types
    <2>3. \A b \in Address : state[b] = "ready" => b = current
      BY <2>1 DEF IInv, OneShape
    <2>4. \A b \in Address : Freed(i)[b] = "free"
      <3>1. ASSUME NEW b \in Address PROVE Freed(i)[b] = "free"
        <4>1. CASE state[b] = "free"
          BY <1>2, <4>1
        <4>2. CASE state[b] = "ready"
          BY <1>2, <2>3, <4>2, AddressAssumption
        <4>3. QED
          BY <2>2, <4>1, <4>2
      <3>2. QED
        BY <3>1
    <2>5. QED
      BY <1>1, <1>2, <2>4 DEF OneShape, What
  <1>8. QED
    BY <1>5, <1>6, <1>7 DEF IInv

\* A new connection of the gateway's phase.
LEMMA GatewayKeeps ==
  ASSUME IInv, (\E a \in Address : VoiceServerUpdate(a)) \/ ForgetConnection \/ OnResumed
  PROVE  IInv'
  <1>1. CASE ForgetConnection
    BY <1>1 DEF ForgetConnection, listVars, loopVars, IInv, Types, ListShape, LoopShape, Listed,
         EachTickedOnce, CurrentShape, OneShape
  <1>2. ASSUME NEW a \in Address, VoiceServerUpdate(a) PROVE IInv'
    <2> USE <1>2 DEF VoiceServerUpdate, sessionVars, loopVars, historyVars
    <2>1. PICK s \in {"nosocket", "connecting"} : state' = [state EXCEPT ![a] = s]
      OBVIOUS
    <2>2. ListShape' /\ Len(connections') = Len(connections) + 1 /\ state' \in [Address -> What]
      BY <2>1, Appeared DEF IInv
    <2>3. Types'
      BY <2>2 DEF IInv, Types, ListShape, What
    <2>4. LoopShape' /\ EachTickedOnce'
      BY DEF IInv, LoopShape, EachTickedOnce
    <2>5. CurrentShape' /\ OneShape'
      BY <2>1 DEF IInv, Types, CurrentShape, OneShape
    <2>6. QED
      BY <2>2, <2>3, <2>4, <2>5 DEF IInv
  <1>3. CASE OnResumed
    <2>1. ListShape' /\ Len(connections') \in Nat /\ Len(connections') >= Len(connections)
          /\ state' \in [Address -> What]
      <3>1. CASE saved
        <4>1. PICK a \in Address, s \in {"nosocket", "connecting"} :
                /\ state[a] = "free" /\ state' = [state EXCEPT ![a] = s]
                /\ connections' \in {<<a>> \o connections, Append(connections, a)}
          BY <1>3, <3>1 DEF OnResumed
        <4>2. Types /\ ListShape /\ Len(connections) \in Nat
          BY DEF IInv, ListShape
        <4>3. ListShape' /\ Len(connections') = Len(connections) + 1 /\ state' \in [Address -> What]
          BY <4>1, <4>2, Appeared
        <4>4. QED
          BY <4>2, <4>3
      <3>2. CASE ~saved
        BY <1>3, <3>2 DEF OnResumed, listVars, IInv, Types, ListShape, Listed, What
      <3>3. QED
        BY <3>1, <3>2
    <2>2. Types'
      BY <1>3, <2>1 DEF OnResumed, loopVars, IInv, Types, ListShape, What
    <2>3. LoopShape' /\ EachTickedOnce' /\ CurrentShape' /\ OneShape'
      BY <1>3 DEF OnResumed, loopVars, IInv, LoopShape, EachTickedOnce, CurrentShape, OneShape
    <2>4. QED
      BY <2>1, <2>2, <2>3 DEF IInv
  <1>4. QED
    BY <1>1, <1>2, <1>3

\* The steps of the loop that call the connection at its index.
LEMMA CallKeeps ==
  ASSUME IInv, CallNoSocket \/ CallQuietly \/ CallReady \/ CallRemovesItself
  PROVE  IInv'
  <1> DEFINE a == At
  <1>1. /\ phase = "voice" /\ index + 1 \in 1..Len(connections) /\ a \notin called
        /\ a \in Address /\ a \in Listed /\ state[a] \notin {"free", "context"}
    <2>1. phase = "voice" /\ index < Len(connections) /\ a \notin called
      BY DEF CallNoSocket, CallQuietly, CallReady, CallRemovesItself
    <2>2. index + 1 \in 1..Len(connections)
      BY <2>1 DEF IInv, Types, ListShape
    <2>3. QED
      BY <2>1, <2>2 DEF At, IInv, ListShape, Listed
  <1>2. called' = called \cup {a} /\ index' = 0 /\ UNCHANGED <<phase, due, orphaning>>
    BY DEF CallNoSocket, CallQuietly, CallReady, CallRemovesItself, Called, historyVars
  <1> HIDE DEF a
  <1>3. ticks' = [ticks EXCEPT ![a] = IF a \in due THEN 1 ELSE 0]
    <2>1. ticks[a] = 0 /\ ticks \in [Address -> 0..2]
      BY <1>1 DEF IInv, LoopShape, Types
    <2>2. CASE CallNoSocket
      <3>1. a \notin due
        BY <1>1, <2>2 DEF CallNoSocket, IInv, LoopShape, a
      <3>2. QED
        BY <2>1, <2>2, <3>1 DEF CallNoSocket
    <2>3. CASE CallQuietly \/ CallReady \/ CallRemovesItself
      <3>1. a \in due
        BY <1>1, <2>3 DEF CallQuietly, CallReady, CallRemovesItself, IInv, LoopShape, a
      <3>2. QED
        BY <1>1, <2>1, <2>3, <3>1 DEF CallQuietly, CallReady, CallRemovesItself, Ticked, a
    <2>4. QED
      BY <2>2, <2>3
  <1>4. /\ ListShape'
        /\ state' \in [Address -> What]
        /\ Listed' = Listed \/ Listed' = Listed \ {a}
        /\ \A b \in Address \ {a} : state'[b] = state[b]
    <2>1. CASE CallNoSocket \/ CallQuietly
      BY <2>1 DEF CallNoSocket, CallQuietly, listVars, IInv, Types, ListShape, Listed, What
    <2>2. CASE CallReady
      BY <1>1, <2>2 DEF CallReady, IInv, Types, ListShape, Listed, What, a
    <2>3. CASE CallRemovesItself
      <3>1. Erase(index + 1) /\ state' = Freed(index + 1) /\ connections[index + 1] = a
        BY <1>1, <2>3 DEF CallRemovesItself, Freed, At, a, IInv, Types
      <3>2. /\ connections' \in Seq(Address) /\ Distinct(connections')
            /\ state' \in [Address -> What]
            /\ Listed' = {b \in Address : state'[b] \notin {"free", "context"}}
            /\ \A b \in Address : state'[b] = (IF b = a THEN "free" ELSE state[b])
        BY <1>1, <3>1, Erased DEF IInv
      <3>3. QED
        BY <3>2 DEF IInv, ListShape
    <2>4. QED
      BY <2>1, <2>2, <2>3
  <1>5. Types'
    <2>7. saved' \in BOOLEAN
      <3>1. CASE CallReady
        BY <3>1 DEF CallReady
      <3>2. CASE CallNoSocket \/ CallQuietly \/ CallRemovesItself
        BY <3>2 DEF CallNoSocket, CallQuietly, CallRemovesItself, sessionVars, IInv, Types
      <3>3. QED
        BY <3>1, <3>2
    <2>1. current' \in Address \cup {0}
      BY <1>1 DEF CallNoSocket, CallQuietly, CallReady, CallRemovesItself, sessionVars, IInv, Types, a
    <2>2. ticks' \in [Address -> 0..2]
      BY <1>1, <1>3 DEF IInv, Types
    <2>3. Len(connections') \in Nat
      BY <1>4 DEF ListShape
    <2>4. state' \in [Address -> {"free", "context", "nosocket", "connecting", "ready"}]
      BY <1>4 DEF What
    <2>5. index' \in 0..Len(connections') /\ called' \subseteq Address /\ due' \subseteq Address
      BY <1>1, <1>2, <2>3 DEF IInv, Types
    <2>6. QED
      BY <1>1, <1>2, <2>7, <2>1, <2>2, <2>4, <2>5 DEF Types
  <1>6. LoopShape' /\ EachTickedOnce'
    <2>1. due' \ called' \subseteq Listed'
      BY <1>1, <1>2, <1>4 DEF IInv, LoopShape
    <2>2. \A b \in Listed' \ called' : b \in due' <=> state'[b] # "nosocket"
      BY <1>1, <1>2, <1>4 DEF IInv, LoopShape, ListShape
    <2>3. \A b \in Address : ticks'[b] = IF b \in due' \cap called' THEN 1 ELSE 0
      BY <1>1, <1>2, <1>3 DEF IInv, LoopShape, Types
    <2>4. QED
      BY <1>1, <1>2, <2>1, <2>2, <2>3 DEF LoopShape, EachTickedOnce
  <1>7. CurrentShape' /\ OneShape'
    <2> USE <1>1, AddressAssumption DEF IInv, Types, CurrentShape, OneShape, sessionVars, listVars, historyVars
    <2>1. CASE CallNoSocket \/ CallQuietly
      BY <2>1 DEF CallNoSocket, CallQuietly
    <2>2. CASE CallReady
      BY <1>4, <2>2 DEF CallReady, a
    <2>3. CASE CallRemovesItself
      <3>1. /\ state' = [state EXCEPT ![a] = "free"] /\ UNCHANGED <<current, orphaning>>
            /\ selfRemoved' = (selfRemoved \/ current = a)
        BY <2>3 DEF CallRemovesItself, a
      <3>2. QED
        BY <3>1
    <2>4. QED
      BY <2>1, <2>2, <2>3
  <1>8. QED
    BY <1>4, <1>5, <1>6, <1>7 DEF IInv

LEMMA StepIInv == ASSUME IInv, [Next]_vars PROVE IInv'
  <1> USE DEF listVars, sessionVars, loopVars, historyVars
  <1>1. ASSUME TickBegin \/ TickEnds PROVE IInv'
    BY <1>1 DEF TickBegin, TickEnds, IInv, Types, ListShape, LoopShape, Listed, EachTickedOnce,
         CurrentShape, OneShape
  <1>2. CASE VoiceLoopBegins
    BY <1>2 DEF VoiceLoopBegins, IInv, Types, ListShape, LoopShape, Listed, EachTickedOnce,
         CurrentShape, OneShape
  <1>3. CASE AlreadyCalled
    BY <1>3 DEF AlreadyCalled, At, IInv, Types, ListShape, LoopShape, Listed, EachTickedOnce,
         CurrentShape, OneShape
  <1>4. CASE VoiceLoopEnds
    <2>1. Listed \subseteq called
      BY <1>4 DEF VoiceLoopEnds, IInv, Types, LoopShape, ListShape, Listed
    <2>2. EachTickedOnce'
      BY <1>4, <2>1 DEF VoiceLoopEnds, IInv, LoopShape, EachTickedOnce
    <2>3. QED
      BY <1>4, <2>2 DEF VoiceLoopEnds, IInv, Types, ListShape, LoopShape, Listed, CurrentShape, OneShape
  <1>5. CASE UNCHANGED vars
    BY <1>5 DEF vars, IInv, Types, ListShape, LoopShape, Listed, EachTickedOnce, CurrentShape, OneShape
  <1>6. QED
    BY <1>1, <1>2, <1>3, <1>4, <1>5, LeaveKeeps, JoinKeeps, GatewayKeeps, CallKeeps DEF Next, VoiceLoop
-----------------------------------------------------------------------------
\* In every reachable state the list, the addresses, the loop and the client's
\* pointer have the shapes above.
THEOREM Invariance == Spec => []IInv
  BY InitIInv, StepIInv, PTL DEF Spec

\* The list, the addresses and the loop's index agree, and the list names each
\* connection once.
THEOREM Typing == Spec => []TypeOK
  <1>1. IInv => TypeOK
    <2> SUFFICES ASSUME IInv PROVE TypeOK
      OBVIOUS
    <2>1. Cardinality(Listed) = Len(connections)
      BY Counting DEF IInv, ListShape, Listed, Elements
    <2>2. QED
      BY <2>1 DEF IInv, Types, ListShape, TypeOK
  <1>2. QED
    BY <1>1, Invariance, PTL

\* DiscordClient::tick() ticks each connection that has a socket exactly once,
\* whichever remove themselves on the way.
THEOREM TickedOnce == Spec => []EachTickedOnce
  <1>1. IInv => EachTickedOnce
    BY DEF IInv
  <1>2. QED
    BY <1>1, Invariance, PTL

\* _current_voice_connection names a ready connection of the list, or one that
\* removed itself.
THEOREM CurrentValid == Spec => []CurrentIsReady
  <1>1. IInv => CurrentIsReady
    BY DEF IInv, Types, ListShape, CurrentShape, CurrentIsReady
  <1>2. QED
    BY <1>1, Invariance, PTL

\* While the gateway is not lost and a join waits for the one before, there is
\* never a second voice connection or context.
THEOREM OnlyOne == Spec => []OneAtATime
  <1>1. IInv => OneAtATime
    <2> SUFFICES ASSUME IInv, ~orphaning PROVE Cardinality({a \in Address : state[a] # "free"}) <= 1
      BY DEF OneAtATime
    <2> DEFINE used == {a \in Address : state[a] # "free"}
    <2>1. \A a, b \in used : a = b
      BY DEF IInv, OneShape
    <2>2. CASE used = {}
      BY <2>2, FS_EmptySet
    <2>3. CASE used # {}
      <3>1. PICK a \in used : used = {a}
        BY <2>1, <2>3
      <3>2. QED
        <4>1. Cardinality({a}) = 1
          BY FS_Singleton
        <4>2. QED
          BY <3>1, <4>1
    <2>4. QED
      BY <2>2, <2>3
  <1>2. QED
    BY <1>1, Invariance, PTL
=============================================================================
