------------------------------ MODULE Hub_proofs ------------------------------
(***************************************************************************)
(* Theorems about Hub, for every set of connections and wrappers and every  *)
(* size of the buffers.                                                     *)
(***************************************************************************)
EXTENDS Hub, FiniteSetTheorems, TLAPS

-----------------------------------------------------------------------------
(* Who holds a wrapper. *)

Live == {"register", "reading", "leaving", "returning"}

WrapperTypes ==
    /\ conn \in [Wrapper -> Client \cup {None}]
    /\ wrapper \in [Client -> Wrapper \cup {None}]
    /\ reader \in [Client -> ReaderState]

\* A live reader points to a wrapper that holds its own socket. That it is a
\* wrapper at all is what makes a step of another connection leave it alone.
HoldsOwn ==
    \A c \in Client : reader[c] \in Live => wrapper[c] \in Wrapper /\ conn[wrapper[c]] = c

WrapperInv == WrapperTypes /\ HoldsOwn

LEMMA InitWrapper == Init => WrapperInv
BY DEF Init, WrapperInv, WrapperTypes, HoldsOwn, Live, ReaderState

\* Only a new connection and a returning handler write conn.
LEMMA NextWrapper == WrapperInv /\ [Next]_vars => WrapperInv'
<1> SUFFICES ASSUME WrapperInv, [Next]_vars PROVE WrapperInv'
    OBVIOUS
<1> USE DEF WrapperInv, WrapperTypes, HoldsOwn, Live, ReaderState
<1>1. ASSUME NEW c \in Client, NEW w \in Wrapper, Connect(c, w) PROVE WrapperInv'
    <2>1. \A d \in Client : reader[d] \in Live => wrapper[d] # w
        BY <1>1, HubAssumption DEF Connect
    <2>2. WrapperTypes'
        BY <1>1 DEF Connect, ReaderGoes
    <2>3. HoldsOwn'
        BY <1>1, <2>1 DEF Connect, ReaderGoes
    <2>4. QED BY <2>2, <2>3
<1>2. ASSUME NEW c \in Client, Handler(c) PROVE WrapperInv'
    <2>1. CASE Register(c)
        BY <2>1 DEF Register, ReaderGoes
    <2>2. CASE ReadFails(c)
        BY <2>2 DEF ReadFails, ReaderGoes
    <2>3. CASE Unregister(c)
        BY <2>3 DEF Unregister, ReaderGoes
    <2>4. CASE Release(c)
        <3>1. \A d \in Client \ {c} : reader[d] \in Live => wrapper[d] # wrapper[c]
            BY <2>4 DEF Release
        <3>2. WrapperTypes'
            BY <2>4 DEF Release, ReaderGoes
        <3>3. HoldsOwn'
            BY <2>4, <3>1 DEF Release, ReaderGoes
        <3>4. QED BY <3>2, <3>3
    <2>5. QED BY <1>2, <2>1, <2>2, <2>3, <2>4 DEF Handler
<1>3. ASSUME NEW c \in Client, PeerCloses(c) \/ Pump(c) PROVE WrapperInv'
    BY <1>3 DEF PeerCloses, Pump, PumpTakes, PumpWrites, PingFails, PumpCloses, PumpPanics,
                connVars
<1>4. ASSUME NEW u \in User, Send(u) PROVE WrapperInv'
    BY <1>4 DEF Send, connVars
<1>5. CASE HubRegisters \/ HubUnregisters \/ HubBroadcasts \/ Stop
    BY <1>5 DEF HubRegisters, HubUnregisters, HubBroadcasts, Stop, connVars
<1>6. CASE UNCHANGED vars
    BY <1>6 DEF vars, connVars
<1>7. QED BY <1>1, <1>2, <1>3, <1>4, <1>5, <1>6 DEF Next

\* Until its handler returns, no other connection gets a connection's wrapper
\* (the pool of gofiber/contrib/websocket and client.go:68-89).
THEOREM WrapperIsOwned == Spec => []ReaderOwnsWrapper
<1>1. WrapperInv => ReaderOwnsWrapper
    BY DEF WrapperInv, HoldsOwn, Live, ReaderOwnsWrapper
<1>2. QED BY <1>1, InitWrapper, NextWrapper, PTL DEF Spec

-----------------------------------------------------------------------------
(* Who is unregistered. *)

Unasked == {"none", "register", "reading", "leaving"}

\* A client whose read pump has not asked is not in the buffer and its channel is
\* open; a client in the buffer is there once and its channel is open.
AskedOnce ==
    /\ reader \in [Client -> ReaderState]
    /\ unregister \in Seq(Client)
    /\ \A i \in DOMAIN unregister :
          reader[unregister[i]] \notin Unasked /\ unregister[i] \notin shut
    /\ \A i, j \in DOMAIN unregister : unregister[i] = unregister[j] => i = j
    /\ \A c \in Client : reader[c] \in Unasked => c \notin shut

LEMMA InitAsked == Init => AskedOnce
BY DEF Init, AskedOnce, ReaderState, Unasked

LEMMA NextAsked == AskedOnce /\ [Next]_vars => AskedOnce'
<1> SUFFICES ASSUME AskedOnce, [Next]_vars PROVE AskedOnce'
    OBVIOUS
<1> USE DEF AskedOnce, ReaderState, Unasked
<1>1. ASSUME NEW c \in Client, NEW w \in Wrapper, Connect(c, w) PROVE AskedOnce'
    BY <1>1 DEF Connect, ReaderGoes, hubVars, chanVars
<1>2. ASSUME NEW c \in Client, Handler(c) PROVE AskedOnce'
    <2>1. CASE Register(c)
        BY <2>1 DEF Register, ReaderGoes, chanVars
    <2>2. CASE ReadFails(c)
        BY <2>2 DEF ReadFails, ReaderGoes, hubVars, chanVars
    <2>3. CASE Unregister(c)
        <3>1. /\ unregister' = Append(unregister, c)
              /\ reader' = [reader EXCEPT ![c] = "returning"]
              /\ shut' = shut /\ reader[c] = "leaving"
            BY <2>3 DEF Unregister, ReaderGoes, chanVars
        <3>2. \A i \in DOMAIN unregister : unregister[i] # c
            BY <3>1
        <3>3. QED BY <3>1, <3>2
    <2>4. CASE Release(c)
        BY <2>4 DEF Release, ReaderGoes, hubVars, chanVars
    <2>5. QED BY <1>2, <2>1, <2>2, <2>3, <2>4 DEF Handler
<1>3. ASSUME NEW c \in Client, PeerCloses(c) \/ Pump(c) PROVE AskedOnce'
    BY <1>3 DEF PeerCloses, Pump, PumpTakes, PumpWrites, PingFails, PumpCloses, PumpPanics,
                hubVars, chanVars, connVars
<1>4. ASSUME NEW u \in User, Send(u) PROVE AskedOnce'
    BY <1>4 DEF Send, chanVars, connVars
<1>5. CASE HubUnregisters
    <2>1. /\ unregister # <<>>
          /\ unregister' = Tail(unregister)
          /\ shut' = shut \cup {Head(unregister)}
          /\ reader' = reader
        BY <1>5 DEF HubUnregisters, Closes, connVars
    <2>2. /\ unregister' \in Seq(Client)
          /\ \A i \in DOMAIN unregister' : i + 1 \in DOMAIN unregister
                                            /\ unregister'[i] = unregister[i + 1]
          /\ Head(unregister) = unregister[1] /\ 1 \in DOMAIN unregister
        BY <2>1
    <2>3. QED BY <2>1, <2>2
<1>6. CASE HubRegisters \/ HubBroadcasts \/ Stop
    BY <1>6 DEF HubRegisters, HubBroadcasts, Stop, chanVars, connVars
<1>7. CASE UNCHANGED vars
    BY <1>7 DEF vars, hubVars, chanVars, connVars
<1>8. QED BY <1>1, <1>2, <1>3, <1>4, <1>5, <1>6, <1>7 DEF Next

\* The hub never closes a channel twice: a client is in the buffer once, or its
\* channel is closed, and not both (hub.go:53-63, client.go:69-71).
THEOREM ClosedOnce == Spec => []UnregisteredOnce
<1>1. AskedOnce => UnregisteredOnce
    <2> SUFFICES ASSUME AskedOnce, NEW c \in Client
                 PROVE Cardinality({i \in DOMAIN unregister : unregister[i] = c})
                         + Cardinality({c} \cap shut) <= 1
        BY DEF UnregisteredOnce
    <2> DEFINE I == {i \in DOMAIN unregister : unregister[i] = c}
    <2>1. I = {} \/ (\E i \in I : I = {i})
        BY DEF AskedOnce
    <2>2. Cardinality(I) = 0 \/ (Cardinality(I) = 1 /\ c \notin shut)
        BY <2>1, FS_EmptySet, FS_Singleton, ZenonT(30) DEF AskedOnce
    <2>3. {c} \cap shut = {} \/ {c} \cap shut = {c}
        OBVIOUS
    <2>4. CASE c \in shut
        <3>1. Cardinality({c} \cap shut) = 1
            BY <2>4, <2>3, FS_Singleton
        <3>2. QED BY <2>2, <2>4, <3>1
    <2>5. CASE c \notin shut
        <3>1. Cardinality({c} \cap shut) = 0
            BY <2>5, <2>3, FS_EmptySet
        <3>2. QED BY <2>2, <3>1
    <2>6. QED BY <2>4, <2>5
<1>2. QED BY <1>1, InitAsked, NextAsked, PTL DEF Spec

-----------------------------------------------------------------------------
(* What a client's channel holds. *)

\* Every event of s was sent before every event of t.
Precedes(s, t) == \A i \in DOMAIN s, j \in DOMAIN t : s[i].n < t[j].n

\* All events of s are among the first k sent.
AmongFirst(s, k) == \A i \in DOMAIN s : s[i].n <= k

ForUser(s, u) == \A i \in DOMAIN s : s[i].user = u

\* A channel fed from the buffer stays in order because what it holds was sent
\* before what the buffer holds.
Routed ==
    /\ sent \in 0..MaxEvents
    /\ broadcast \in Seq(Event)
    /\ send \in [Client -> Seq(Event)]
    /\ Increasing(broadcast) /\ AmongFirst(broadcast, sent)
    /\ \A c \in Client :
          /\ Increasing(send[c]) /\ ForUser(send[c], Owner[c])
          /\ AmongFirst(send[c], sent) /\ Precedes(send[c], broadcast)

LEMMA EventsAreNumbered ==
    ASSUME NEW s \in Seq(Event), NEW i \in DOMAIN s
    PROVE  s[i] \in Event /\ s[i].n \in Nat
<1>1. s[i] \in Event
    OBVIOUS
<1>2. MaxEvents \in Nat
    BY HubAssumption
<1>3. \A e \in Event : e.n \in 1..MaxEvents
    BY DEF Event
<1>4. QED BY <1>1, <1>2, <1>3

\* Appending an event sent later than all of s keeps s in order.
LEMMA AppendKeepsOrder ==
    ASSUME NEW s \in Seq(Event), NEW m \in Event,
           Increasing(s), \A i \in DOMAIN s : s[i].n < m.n
    PROVE  Append(s, m) \in Seq(Event) /\ Increasing(Append(s, m))
<1>1. /\ Append(s, m) \in Seq(Event)
      /\ DOMAIN Append(s, m) = 1..(Len(s) + 1)
      /\ \A i \in DOMAIN s : Append(s, m)[i] = s[i]
      /\ Append(s, m)[Len(s) + 1] = m
      /\ DOMAIN s = 1..Len(s) /\ Len(s) \in Nat
    OBVIOUS
<1>2. \A i \in DOMAIN s : s[i].n \in Nat
    BY EventsAreNumbered
<1>3. \A i, j \in DOMAIN Append(s, m) : i < j => Append(s, m)[i].n < Append(s, m)[j].n
    <2> SUFFICES ASSUME NEW i \in 1..(Len(s) + 1), NEW j \in 1..(Len(s) + 1), i < j
                 PROVE Append(s, m)[i].n < Append(s, m)[j].n
        BY <1>1
    <2>1. i \in DOMAIN s
        BY <1>1
    <2>2. CASE j = Len(s) + 1
        BY <1>1, <2>1, <2>2
    <2>3. CASE j # Len(s) + 1
        BY <1>1, <2>1, <2>3 DEF Increasing
    <2>4. QED BY <2>2, <2>3
<1>4. QED BY <1>1, <1>3 DEF Increasing

\* The tail of a sequence has its elements, one place earlier.
LEMMA TailShifts ==
    ASSUME NEW s \in Seq(Event), s # <<>>
    PROVE  /\ Tail(s) \in Seq(Event)
           /\ Head(s) = s[1] /\ 1 \in DOMAIN s /\ Head(s) \in Event
           /\ \A i \in DOMAIN Tail(s) : /\ i \in Nat \ {0}
                                       /\ i + 1 \in DOMAIN s
                                       /\ Tail(s)[i] = s[i + 1]
OBVIOUS

LEMMA TailKeepsOrder ==
    ASSUME NEW s \in Seq(Event), s # <<>>, Increasing(s)
    PROVE  Increasing(Tail(s)) /\ \A i \in DOMAIN Tail(s) : Head(s).n < Tail(s)[i].n
BY TailShifts DEF Increasing

LEMMA InitRouted == Init => Routed
BY HubAssumption DEF Init, Routed, Increasing, AmongFirst, Precedes, ForUser

\* An event that enters the buffer is the last one sent.
LEMMA SendRouted ==
    ASSUME Routed, NEW u \in User, Send(u)
    PROVE  Routed'
<1> DEFINE m == [user |-> u, n |-> sent + 1]
<1>1. sent < MaxEvents /\ sent' = sent + 1 /\ send' = send /\ broadcast' = Buffered(m)
    BY DEF Send, chanVars
<1>2. m \in Event /\ sent \in Nat /\ sent' \in 0..MaxEvents /\ m.n = sent + 1
    BY <1>1, HubAssumption DEF Routed, Event
<1>3. \A c \in Client : AmongFirst(send[c], sent') /\ \A i \in DOMAIN send[c] : send[c][i].n < m.n
    <2> SUFFICES ASSUME NEW c \in Client, NEW i \in DOMAIN send[c]
                 PROVE send[c][i].n <= sent' /\ send[c][i].n < m.n
        BY DEF AmongFirst
    <2>1. send[c] \in Seq(Event) /\ send[c][i].n <= sent
        BY DEF Routed, AmongFirst
    <2>2. send[c][i].n \in Nat
        BY <2>1, EventsAreNumbered
    <2>3. QED BY <1>1, <1>2, <2>1, <2>2
<1>4. AmongFirst(broadcast, sent') /\ \A i \in DOMAIN broadcast : broadcast[i].n < m.n
    <2> SUFFICES ASSUME NEW i \in DOMAIN broadcast
                 PROVE broadcast[i].n <= sent' /\ broadcast[i].n < m.n
        BY DEF AmongFirst
    <2>1. broadcast \in Seq(Event) /\ broadcast[i].n <= sent
        BY DEF Routed, AmongFirst
    <2>2. broadcast[i].n \in Nat
        BY <2>1, EventsAreNumbered
    <2>3. QED BY <1>1, <1>2, <2>1, <2>2
<1>5. CASE broadcast' = broadcast
    BY <1>1, <1>2, <1>3, <1>4, <1>5 DEF Routed
<1>6. CASE broadcast' = Append(broadcast, m)
    <2>1. Append(broadcast, m) \in Seq(Event) /\ Increasing(Append(broadcast, m))
        BY <1>2, <1>4, AppendKeepsOrder DEF Routed
    <2>2. \A i \in DOMAIN Append(broadcast, m) :
             Append(broadcast, m)[i] = m
               \/ (i \in DOMAIN broadcast /\ Append(broadcast, m)[i] = broadcast[i])
        BY <1>2 DEF Routed
    <2>3. AmongFirst(Append(broadcast, m), sent')
        BY <1>1, <1>2, <1>4, <2>2 DEF AmongFirst
    <2>4. \A c \in Client : Precedes(send[c], Append(broadcast, m))
        BY <1>3, <2>2 DEF Routed, Precedes
    <2>5. QED BY <1>1, <1>2, <1>3, <1>6, <2>1, <2>3, <2>4 DEF Routed
<1>7. QED BY <1>1, <1>5, <1>6 DEF Buffered

\* An event that leaves the buffer was sent after all its recipients hold.
LEMMA BroadcastRouted ==
    ASSUME Routed, HubBroadcasts
    PROVE  Routed'
<1> DEFINE m == Head(broadcast)
<1>1. /\ broadcast # <<>> /\ broadcast' = Tail(broadcast) /\ sent' = sent
      /\ send' = [c \in Client |-> IF c \in Recipients(m) /\ HasRoom(c)
                                  THEN Append(send[c], m) ELSE send[c]]
    BY DEF HubBroadcasts
<1>2. /\ Tail(broadcast) \in Seq(Event) /\ m \in Event
      /\ m = broadcast[1] /\ 1 \in DOMAIN broadcast
      /\ \A i \in DOMAIN Tail(broadcast) : /\ i + 1 \in DOMAIN broadcast
                                          /\ Tail(broadcast)[i] = broadcast[i + 1]
    BY <1>1, TailShifts DEF Routed
<1>3. Increasing(Tail(broadcast)) /\ \A i \in DOMAIN Tail(broadcast) : m.n < Tail(broadcast)[i].n
    BY <1>1, TailKeepsOrder DEF Routed
<1>4. AmongFirst(Tail(broadcast), sent) /\ m.n <= sent
    BY <1>2 DEF Routed, AmongFirst
<1>5. ASSUME NEW c \in Client
      PROVE  /\ send'[c] \in Seq(Event) /\ Increasing(send'[c])
             /\ ForUser(send'[c], Owner[c]) /\ AmongFirst(send'[c], sent)
             /\ Precedes(send'[c], Tail(broadcast))
    <2>0. /\ send[c] \in Seq(Event) /\ Increasing(send[c]) /\ ForUser(send[c], Owner[c])
          /\ AmongFirst(send[c], sent) /\ Precedes(send[c], broadcast)
        BY DEF Routed
    <2>1. Precedes(send[c], Tail(broadcast))
        BY <1>2, <2>0 DEF Precedes
    <2>2. CASE c \in Recipients(m) /\ HasRoom(c)
        <3>1. send'[c] = Append(send[c], m) /\ m.user = Owner[c]
            BY <1>1, <2>2 DEF Recipients
        <3>2. \A i \in DOMAIN send[c] : send[c][i].n < m.n
            BY <1>2, <2>0 DEF Precedes
        <3>3. send'[c] \in Seq(Event) /\ Increasing(send'[c])
            BY <1>2, <2>0, <3>1, <3>2, AppendKeepsOrder
        <3>4. \A i \in DOMAIN send'[c] :
                 send'[c][i] = m \/ (i \in DOMAIN send[c] /\ send'[c][i] = send[c][i])
            BY <1>2, <2>0, <3>1
        <3>5. ForUser(send'[c], Owner[c]) /\ AmongFirst(send'[c], sent)
            BY <1>4, <2>0, <3>1, <3>4 DEF ForUser, AmongFirst
        <3>6. Precedes(send'[c], Tail(broadcast))
            BY <1>3, <2>1, <3>4 DEF Precedes
        <3>7. QED BY <3>3, <3>5, <3>6
    <2>3. CASE ~(c \in Recipients(m) /\ HasRoom(c))
        <3>1. send'[c] = send[c]
            BY <1>1, <2>3
        <3>2. QED BY <2>0, <2>1, <3>1
    <2>4. QED BY <2>2, <2>3
<1>6. send' \in [Client -> Seq(Event)]
    <2>1. \A c \in Client : send'[c] \in Seq(Event)
        BY <1>5
    <2>2. QED BY <1>1, <2>1
<1>7. QED BY <1>1, <1>2, <1>3, <1>4, <1>5, <1>6 DEF Routed

\* Taking an event from a channel leaves the rest as it was.
LEMMA TakeRouted ==
    ASSUME Routed, NEW c \in Client, PumpTakes(c)
    PROVE  Routed'
<1>1. broadcast' = broadcast /\ sent' = sent
    BY DEF PumpTakes, hubVars
<1>2. CASE send' = send
    BY <1>1, <1>2 DEF Routed
<1>3. CASE send[c] # <<>> /\ send' = [send EXCEPT ![c] = Tail(@)]
    <2>1. /\ send' \in [Client -> Seq(Event)] /\ send'[c] = Tail(send[c])
          /\ \A d \in Client \ {c} : send'[d] = send[d]
        BY <1>3, TailShifts DEF Routed
    <2>2. \A i \in DOMAIN Tail(send[c]) : /\ i + 1 \in DOMAIN send[c]
                                          /\ Tail(send[c])[i] = send[c][i + 1]
        BY <1>3, TailShifts DEF Routed
    <2>3. Increasing(Tail(send[c]))
        BY <1>3, TailKeepsOrder DEF Routed
    <2>4. /\ ForUser(Tail(send[c]), Owner[c]) /\ AmongFirst(Tail(send[c]), sent)
          /\ Precedes(Tail(send[c]), broadcast)
        BY <2>2 DEF Routed, ForUser, AmongFirst, Precedes
    <2>5. \A d \in Client : /\ Increasing(send'[d]) /\ ForUser(send'[d], Owner[d])
                            /\ AmongFirst(send'[d], sent) /\ Precedes(send'[d], broadcast)
        BY <2>1, <2>3, <2>4 DEF Routed
    <2>6. QED BY <1>1, <2>1, <2>5 DEF Routed
<1>4. QED BY <1>2, <1>3 DEF PumpTakes

LEMMA NextRouted == Routed /\ [Next]_vars => Routed'
<1> SUFFICES ASSUME Routed, [Next]_vars PROVE Routed'
    OBVIOUS
<1>1. ASSUME UNCHANGED <<sent, broadcast, send>> PROVE Routed'
    BY <1>1 DEF Routed
<1>2. ASSUME NEW c \in Client, NEW w \in Wrapper, Connect(c, w) PROVE Routed'
    BY <1>1, <1>2 DEF Connect, hubVars, chanVars
<1>3. ASSUME NEW c \in Client, Handler(c) \/ PeerCloses(c) PROVE Routed'
    BY <1>1, <1>3 DEF Handler, Register, ReadFails, Unregister, Release, PeerCloses, hubVars, chanVars
<1>4. ASSUME NEW c \in Client, Pump(c) PROVE Routed'
    <2>1. CASE PumpTakes(c)
        BY <2>1, TakeRouted
    <2>2. CASE PumpWrites(c) \/ PingFails(c) \/ PumpCloses(c) \/ PumpPanics(c)
        BY <1>1, <2>2 DEF PumpWrites, PingFails, PumpCloses, PumpPanics, hubVars, chanVars
    <2>3. QED BY <1>4, <2>1, <2>2 DEF Pump
<1>5. ASSUME NEW u \in User, Send(u) PROVE Routed'
    BY <1>5, SendRouted
<1>6. CASE HubBroadcasts
    BY <1>6, BroadcastRouted
<1>7. CASE HubRegisters \/ HubUnregisters \/ Stop
    BY <1>1, <1>7 DEF HubRegisters, HubUnregisters, Stop, chanVars
<1>8. CASE UNCHANGED vars
    BY <1>1, <1>8 DEF vars, hubVars, chanVars
<1>9. QED BY <1>2, <1>3, <1>4, <1>5, <1>6, <1>7, <1>8 DEF Next

-----------------------------------------------------------------------------
(* What a write pump holds. *)

\* e was sent before every event of s.
Before(e, s) == \A i \in DOMAIN s : e.n < s[i].n

\* An event in a pump's hand was sent before what the client's channel and the
\* hub's buffer hold.
InHand(c) ==
    /\ hand[c] \in Event /\ hand[c].user = Owner[c] /\ hand[c].n <= sent
    /\ Before(hand[c], send[c]) /\ Before(hand[c], broadcast)

Handed ==
    /\ hand \in [Client -> Event \cup {Closing, None}]
    /\ \A c \in Client : hand[c] \notin {None, Closing} => InHand(c)

\* An event put before later ones keeps a sequence in order.
LEMMA PrependKeepsOrder ==
    ASSUME NEW s \in Seq(Event), NEW e \in Event, Increasing(s), Before(e, s)
    PROVE  /\ Increasing(<<e>> \o s)
           /\ \A i \in DOMAIN (<<e>> \o s) :
                 (<<e>> \o s)[i] = e \/ \E k \in DOMAIN s : (<<e>> \o s)[i] = s[k]
<1>1. /\ DOMAIN (<<e>> \o s) = 1..(Len(s) + 1) /\ Len(s) \in Nat /\ DOMAIN s = 1..Len(s)
      /\ (<<e>> \o s)[1] = e
      /\ \A i \in 2..(Len(s) + 1) : (<<e>> \o s)[i] = s[i - 1]
    OBVIOUS
<1>2. \A i \in 2..(Len(s) + 1) : i - 1 \in DOMAIN s
    BY <1>1
<1>3. \A i, j \in DOMAIN (<<e>> \o s) : i < j => (<<e>> \o s)[i].n < (<<e>> \o s)[j].n
    <2> SUFFICES ASSUME NEW i \in 1..(Len(s) + 1), NEW j \in 2..(Len(s) + 1), i < j
                 PROVE (<<e>> \o s)[i].n < (<<e>> \o s)[j].n
        BY <1>1
    <2>1. CASE i = 1
        BY <1>1, <1>2, <2>1 DEF Before
    <2>2. CASE i # 1
        <3>1. i \in 2..(Len(s) + 1) /\ i - 1 < j - 1
            BY <2>2
        <3>2. QED BY <1>1, <1>2, <3>1 DEF Increasing
    <2>3. QED BY <2>1, <2>2
<1>4. \A i \in DOMAIN (<<e>> \o s) :
          (<<e>> \o s)[i] = e \/ \E k \in DOMAIN s : (<<e>> \o s)[i] = s[k]
    BY <1>1, <1>2
<1>5. QED BY <1>3, <1>4 DEF Increasing

LEMMA InitHanded == Init => Handed
BY DEF Init, Handed

\* What a new event or a delivery appends was sent after what a pump holds.
LEMMA SendHanded ==
    ASSUME Routed, Handed, NEW u \in User, Send(u)
    PROVE  Handed'
<1> DEFINE m == [user |-> u, n |-> sent + 1]
<1>1. /\ sent' = sent + 1 /\ send' = send /\ hand' = hand
      /\ broadcast' \in {broadcast, Append(broadcast, m)}
    BY DEF Send, Buffered, chanVars, pumpVars
<1>2. sent \in Nat /\ broadcast \in Seq(Event) /\ MaxEvents \in Nat
    BY HubAssumption DEF Routed
<1>3. ASSUME NEW c \in Client, hand[c] \notin {None, Closing} PROVE InHand(c)'
    <2>1. InHand(c) /\ hand[c].n \in Nat
        BY <1>2, <1>3 DEF Handed, InHand, Event
    <2>2. hand[c].n <= sent' /\ hand[c].n < m.n
        BY <1>1, <1>2, <2>1 DEF InHand
    <2>3. \A i \in DOMAIN Append(broadcast, m) :
             Append(broadcast, m)[i] = m
               \/ (i \in DOMAIN broadcast /\ Append(broadcast, m)[i] = broadcast[i])
        BY <1>2
    <2>4. Before(hand[c], broadcast')
        BY <1>1, <2>1, <2>2, <2>3 DEF InHand, Before
    <2>5. QED BY <1>1, <2>1, <2>2, <2>4 DEF InHand
<1>4. QED BY <1>1, <1>3 DEF Handed

LEMMA BroadcastHanded ==
    ASSUME Routed, Handed, HubBroadcasts
    PROVE  Handed'
<1> DEFINE m == Head(broadcast)
<1>1. /\ broadcast # <<>> /\ broadcast' = Tail(broadcast) /\ sent' = sent /\ hand' = hand
      /\ \A c \in Client : send'[c] \in {send[c], Append(send[c], m)}
    BY DEF HubBroadcasts, pumpVars
<1>2. /\ m = broadcast[1] /\ 1 \in DOMAIN broadcast /\ m \in Event
      /\ \A i \in DOMAIN Tail(broadcast) : /\ i + 1 \in DOMAIN broadcast
                                          /\ Tail(broadcast)[i] = broadcast[i + 1]
    BY <1>1, TailShifts DEF Routed
<1>3. ASSUME NEW c \in Client, hand[c] \notin {None, Closing} PROVE InHand(c)'
    <2>1. InHand(c) /\ send[c] \in Seq(Event)
        BY <1>3 DEF Handed, Routed
    <2>2. Before(hand[c], broadcast') /\ hand[c].n < m.n
        BY <1>1, <1>2, <2>1 DEF InHand, Before
    <2>3. \A i \in DOMAIN Append(send[c], m) :
             Append(send[c], m)[i] = m
               \/ (i \in DOMAIN send[c] /\ Append(send[c], m)[i] = send[c][i])
        BY <1>2, <2>1
    <2>4. Before(hand[c], send'[c])
        BY <1>1, <2>1, <2>2, <2>3 DEF InHand, Before
    <2>5. QED BY <1>1, <2>1, <2>2, <2>4 DEF InHand
<1>4. QED BY <1>1, <1>3 DEF Handed

\* A pump takes the oldest event of its channel.
LEMMA TakeHanded ==
    ASSUME Routed, Handed, NEW c \in Client, PumpTakes(c)
    PROVE  Handed'
<1>1. broadcast' = broadcast /\ sent' = sent
    BY DEF PumpTakes, hubVars
<1>2. CASE send[c] # <<>> /\ Holds(c, Head(send[c])) /\ send' = [send EXCEPT ![c] = Tail(@)]
    <2>1. /\ send[c] \in Seq(Event) /\ Increasing(send[c]) /\ ForUser(send[c], Owner[c])
          /\ AmongFirst(send[c], sent) /\ Precedes(send[c], broadcast)
        BY DEF Routed
    <2>2. Head(send[c]) = send[c][1] /\ 1 \in DOMAIN send[c] /\ Head(send[c]) \in Event
        BY <1>2, <2>1, TailShifts
    <2>3. /\ hand' = [hand EXCEPT ![c] = Head(send[c])] /\ hand'[c] = Head(send[c])
          /\ send'[c] = Tail(send[c])
          /\ \A d \in Client \ {c} : hand'[d] = hand[d] /\ send'[d] = send[d]
        BY <1>2 DEF Holds, Handed, Routed
    <2>4. InHand(c)'
        <3>1. Before(Head(send[c]), Tail(send[c]))
            BY <1>2, <2>1, TailKeepsOrder DEF Before
        <3>2. Before(Head(send[c]), broadcast)
            BY <2>1, <2>2 DEF Precedes, Before
        <3>3. Head(send[c]).user = Owner[c] /\ Head(send[c]).n <= sent
            BY <2>1, <2>2 DEF ForUser, AmongFirst
        <3>4. QED BY <1>1, <2>2, <2>3, <3>1, <3>2, <3>3 DEF InHand
    <2>5. ASSUME NEW d \in Client \ {c}, hand'[d] \notin {None, Closing} PROVE InHand(d)'
        BY <1>1, <2>3, <2>5 DEF Handed, InHand
    <2>6. hand' \in [Client -> Event \cup {Closing, None}]
        BY <2>2, <2>3 DEF Handed
    <2>7. QED BY <2>4, <2>5, <2>6 DEF Handed
<1>3. CASE Holds(c, Closing) /\ send' = send
    BY <1>1, <1>3 DEF Handed, InHand, Holds
<1>4. QED BY <1>2, <1>3 DEF PumpTakes

LEMMA NextHanded == Routed /\ Handed /\ [Next]_vars => Handed'
<1> SUFFICES ASSUME Routed, Handed, [Next]_vars PROVE Handed'
    OBVIOUS
<1>1. ASSUME UNCHANGED <<sent, broadcast, send, hand>> PROVE Handed'
    BY <1>1 DEF Handed, InHand
<1>2. ASSUME NEW c \in Client, NEW w \in Wrapper, Connect(c, w) PROVE Handed'
    BY <1>1, <1>2 DEF Connect, hubVars, chanVars, pumpVars
<1>3. ASSUME NEW c \in Client, Handler(c) \/ PeerCloses(c) PROVE Handed'
    BY <1>1, <1>3 DEF Handler, Register, ReadFails, Unregister, Release, PeerCloses,
                      hubVars, chanVars, pumpVars
<1>4. ASSUME NEW c \in Client, Pump(c) PROVE Handed'
    <2>1. CASE PumpTakes(c)
        BY <2>1, TakeHanded
    <2>2. CASE PumpWrites(c)
        BY <2>2 DEF PumpWrites, Holds, Handed, InHand, hubVars, chanVars
    <2>3. CASE PingFails(c) \/ PumpCloses(c) \/ PumpPanics(c)
        BY <1>1, <2>3 DEF PingFails, PumpCloses, PumpPanics, hubVars, chanVars, pumpVars
    <2>4. QED BY <1>4, <2>1, <2>2, <2>3 DEF Pump
<1>5. ASSUME NEW u \in User, Send(u) PROVE Handed'
    BY <1>5, SendHanded
<1>6. CASE HubBroadcasts
    BY <1>6, BroadcastHanded
<1>7. CASE HubRegisters \/ HubUnregisters \/ Stop
    BY <1>1, <1>7 DEF HubRegisters, HubUnregisters, Stop, chanVars, pumpVars
<1>8. CASE UNCHANGED vars
    BY <1>1, <1>8 DEF vars, hubVars, chanVars, pumpVars
<1>9. QED BY <1>2, <1>3, <1>4, <1>5, <1>6, <1>7, <1>8 DEF Next

\* Whatever is dropped at the two buffers, from the hub's buffer through a
\* client's channel to the hand of its write pump go events of its own user only,
\* each once and in the order they were sent (hub.go:65-75, client.go:43-55).
THEOREM EventsRouted == Spec => []RoutedInOrder
<1>1. Routed /\ Handed => RoutedInOrder
    <2> SUFFICES ASSUME Routed, Handed, NEW c \in Client
                 PROVE /\ Increasing(Unwritten(c))
                       /\ \A i \in DOMAIN Unwritten(c) :
                             /\ Unwritten(c)[i].user = Owner[c]
                             /\ \A j \in DOMAIN broadcast : Unwritten(c)[i].n < broadcast[j].n
        BY DEF RoutedInOrder
    <2>1. /\ send[c] \in Seq(Event) /\ Increasing(send[c])
          /\ ForUser(send[c], Owner[c]) /\ Precedes(send[c], broadcast)
        BY DEF Routed
    <2>2. CASE hand[c] \in {None, Closing}
        BY <2>1, <2>2 DEF Unwritten, ForUser, Precedes
    <2>3. CASE hand[c] \notin {None, Closing}
        <3>1. InHand(c) /\ Unwritten(c) = <<hand[c]>> \o send[c]
            BY <2>3 DEF Handed, Unwritten
        <3>2. /\ Increasing(Unwritten(c))
              /\ \A i \in DOMAIN Unwritten(c) :
                    Unwritten(c)[i] = hand[c] \/ \E k \in DOMAIN send[c] : Unwritten(c)[i] = send[c][k]
            BY <2>1, <3>1, PrependKeepsOrder DEF InHand
        <3>3. QED BY <2>1, <3>1, <3>2 DEF InHand, Before, ForUser, Precedes
    <2>4. QED BY <2>2, <2>3
<1>2. QED BY <1>1, InitRouted, NextRouted, InitHanded, NextHanded, PTL DEF Spec

-----------------------------------------------------------------------------
(* Types, and the bounds of the buffers. *)

\* A buffer that has room keeps its bound when something is put into it, and
\* when something is taken out.
LEMMA BufferBounds ==
    ASSUME NEW S, NEW s \in Seq(S), NEW size \in Nat, Len(s) <= size
    PROVE  /\ \A x \in S : Len(s) < size =>
                 Append(s, x) \in Seq(S) /\ Len(Append(s, x)) <= size
           /\ s # <<>> => /\ Head(s) \in S
                          /\ Tail(s) \in Seq(S) /\ Len(Tail(s)) <= size
OBVIOUS

LEMMA Sizes ==
    /\ ControlSize \in Nat /\ BroadcastSize \in Nat /\ SendSize \in Nat
    /\ MaxEvents \in Nat
BY HubAssumption

LEMMA InitTypes == Init => TypeOK
BY HubAssumption DEF Init, TypeOK, ReaderState, WriterState

LEMMA HandlerTypes ==
    ASSUME TypeOK, NEW c \in Client,
           (\E w \in Wrapper : Connect(c, w)) \/ Handler(c) \/ PeerCloses(c)
    PROVE  TypeOK'
<1> USE DEF ReaderState, WriterState
<1>1. CASE \E w \in Wrapper : Connect(c, w)
    BY <1>1 DEF TypeOK, Connect, ReaderGoes, hubVars, chanVars, pumpVars
<1>2. CASE Register(c)
    <2>1. register' \in Seq(Client) /\ Len(register') <= ControlSize
        BY <1>2, Sizes, BufferBounds DEF TypeOK, Register
    <2>2. QED BY <1>2, <2>1 DEF TypeOK, Register, ReaderGoes, chanVars
<1>3. CASE Unregister(c)
    <2>1. unregister' \in Seq(Client) /\ Len(unregister') <= ControlSize
        BY <1>3, Sizes, BufferBounds DEF TypeOK, Unregister
    <2>2. QED BY <1>3, <2>1 DEF TypeOK, Unregister, ReaderGoes, chanVars, pumpVars
<1>4. CASE ReadFails(c) \/ Release(c) \/ PeerCloses(c)
    BY <1>4 DEF TypeOK, ReadFails, Release, PeerCloses, ReaderGoes, hubVars, chanVars, pumpVars
<1>5. QED BY <1>1, <1>2, <1>3, <1>4 DEF Handler

LEMMA PumpTypes ==
    ASSUME TypeOK, NEW c \in Client, Pump(c)
    PROVE  TypeOK'
<1> USE DEF WriterState
<1>1. CASE PumpTakes(c)
    <2>1. send' \in [Client -> Seq(Event)] /\ \A d \in Client : Len(send'[d]) <= SendSize
        <3>1. CASE send' = send
            BY <3>1 DEF TypeOK
        <3>2. CASE send[c] # <<>> /\ send' = [send EXCEPT ![c] = Tail(@)]
            <4>1. Tail(send[c]) \in Seq(Event) /\ Len(Tail(send[c])) <= SendSize
                BY <3>2, Sizes, BufferBounds DEF TypeOK
            <4>2. QED BY <3>2, <4>1 DEF TypeOK
        <3>3. QED BY <1>1, <3>1, <3>2 DEF PumpTakes
    <2>2. hand' \in [Client -> Event \cup {Closing, None}]
        <3>1. send[c] # <<>> => Head(send[c]) \in Event
            BY Sizes, BufferBounds DEF TypeOK
        <3>2. QED BY <1>1, <3>1 DEF TypeOK, PumpTakes, Holds
    <2>3. QED BY <1>1, <2>1, <2>2 DEF TypeOK, PumpTakes, WriterGoes, hubVars, connVars
<1>2. CASE PumpWrites(c)
    BY <1>2 DEF TypeOK, PumpWrites, WriterGoes, Holds, hubVars, chanVars, connVars
<1>3. CASE PingFails(c)
    BY <1>3 DEF TypeOK, PingFails, WriterGoes, hubVars, chanVars, connVars
<1>4. CASE PumpCloses(c)
    BY <1>4 DEF TypeOK, PumpCloses, WriterGoes, hubVars, chanVars
<1>5. CASE PumpPanics(c)
    BY <1>5 DEF TypeOK, PumpPanics, hubVars, chanVars, connVars, pumpVars
<1>6. QED BY <1>1, <1>2, <1>3, <1>4, <1>5 DEF Pump

LEMMA HubServesTypes ==
    ASSUME TypeOK, HubRegisters \/ HubUnregisters \/ HubBroadcasts \/ Stop
    PROVE  TypeOK'
<1>1. CASE HubRegisters
    <2>1. /\ Head(register) \in Client
          /\ register' \in Seq(Client) /\ Len(register') <= ControlSize
        BY <1>1, Sizes, BufferBounds DEF TypeOK, HubRegisters
    <2>2. QED BY <1>1, <2>1 DEF TypeOK, HubRegisters, chanVars, connVars, pumpVars
<1>2. CASE HubUnregisters
    <2>1. /\ Head(unregister) \in Client
          /\ unregister' \in Seq(Client) /\ Len(unregister') <= ControlSize
        BY <1>2, Sizes, BufferBounds DEF TypeOK, HubUnregisters
    <2>2. QED BY <1>2, <2>1 DEF TypeOK, HubUnregisters, Closes, connVars, pumpVars
<1>3. CASE HubBroadcasts
    <2>1. /\ Head(broadcast) \in Event
          /\ broadcast' \in Seq(Event) /\ Len(broadcast') <= BroadcastSize
        BY <1>3, Sizes, BufferBounds DEF TypeOK, HubBroadcasts
    <2>2. \A c \in Client : send'[c] \in Seq(Event) /\ Len(send'[c]) <= SendSize
        <3> SUFFICES ASSUME NEW c \in Client
                     PROVE send'[c] \in Seq(Event) /\ Len(send'[c]) <= SendSize
            OBVIOUS
        <3>1. HasRoom(c) => /\ Append(send[c], Head(broadcast)) \in Seq(Event)
                            /\ Len(Append(send[c], Head(broadcast))) <= SendSize
            BY <2>1, Sizes, BufferBounds DEF TypeOK, HasRoom
        <3>2. QED BY <1>3, <3>1 DEF TypeOK, HubBroadcasts
    <2>3. send' \in [Client -> Seq(Event)]
        BY <1>3, <2>2 DEF HubBroadcasts
    <2>4. QED BY <1>3, <2>1, <2>2, <2>3 DEF TypeOK, HubBroadcasts, connVars, pumpVars
<1>4. CASE Stop
    BY <1>4 DEF TypeOK, Stop, chanVars, connVars, pumpVars
<1>5. QED BY <1>1, <1>2, <1>3, <1>4

LEMMA SendTypes ==
    ASSUME TypeOK, NEW u \in User, Send(u)
    PROVE  TypeOK'
<1> DEFINE m == [user |-> u, n |-> sent + 1]
<1>1. m \in Event /\ sent' \in 0..MaxEvents
    BY Sizes DEF TypeOK, Send, Event
<1>2. broadcast' \in Seq(Event) /\ Len(broadcast') <= BroadcastSize
    BY <1>1, Sizes, BufferBounds DEF TypeOK, Send, Buffered
<1>3. QED BY <1>1, <1>2 DEF TypeOK, Send, chanVars, connVars, pumpVars

\* Every variable of the hub keeps its type, and no channel holds more than its
\* capacity: what has no room waits or is dropped (hub.go:32-34, 70-74, 85-91).
THEOREM HubTypes == Spec => []TypeOK
<1>1. ASSUME TypeOK, [Next]_vars PROVE TypeOK'
    <2>1. CASE UNCHANGED vars
        BY <1>1, <2>1 DEF TypeOK, vars, hubVars, chanVars, connVars, pumpVars
    <2>2. QED
        BY <1>1, <2>1, HandlerTypes, PumpTypes, HubServesTypes, SendTypes DEF Next
<1>2. QED BY <1>1, InitTypes, PTL DEF Spec

-----------------------------------------------------------------------------
(* When the hub panics. Register and unregister are two channels, and select *)
(* may take the end of a client before its beginning.                       *)

Awaits(c) == \E i \in DOMAIN register : register[i] = c

\* No client is unregistered while its registration is in the buffer.
InTurn == HubUnregisters => ~ Awaits(Head(unregister))

\* The hub neither sends on a closed channel nor closes one twice.
HubSurvives == HubUnregisters \/ HubBroadcasts => alive'

\* A client in the map, or on its way there, has an open channel; until then it
\* is in neither.
KnownAreOpen ==
    /\ register \in Seq(Client) /\ clients \subseteq Client
    /\ \A i \in DOMAIN register : register[i] \notin shut /\ reader[register[i]] \notin {"none", "register"}
    /\ clients \cap shut = {}
    /\ \A c \in clients : reader[c] \notin {"none", "register"}

LEMMA InitKnown == Init => KnownAreOpen
BY DEF Init, KnownAreOpen

LEMMA NextKnown == AskedOnce /\ KnownAreOpen /\ [Next]_vars /\ [InTurn]_vars => KnownAreOpen'
<1> SUFFICES ASSUME AskedOnce, KnownAreOpen, [Next]_vars, [InTurn]_vars PROVE KnownAreOpen'
    OBVIOUS
<1> USE DEF KnownAreOpen
<1>0. reader \in [Client -> ReaderState] /\ \A c \in Client : reader[c] \in Unasked => c \notin shut
    BY DEF AskedOnce
<1>1. ASSUME NEW c \in Client, NEW w \in Wrapper, Connect(c, w) PROVE KnownAreOpen'
    BY <1>0, <1>1 DEF Connect, ReaderGoes, hubVars, chanVars
<1>2. ASSUME NEW c \in Client, Handler(c) PROVE KnownAreOpen'
    <2>1. CASE Register(c)
        <3>1. /\ register' = Append(register, c) /\ clients' = clients /\ shut' = shut
              /\ reader' = [reader EXCEPT ![c] = "reading"] /\ reader[c] = "register"
            BY <2>1 DEF Register, ReaderGoes, chanVars
        <3>2. c \notin shut
            BY <1>0, <3>1 DEF Unasked
        <3>3. QED BY <1>0, <3>1, <3>2
    <2>2. CASE ReadFails(c) \/ Unregister(c) \/ Release(c)
        BY <1>0, <2>2 DEF ReadFails, Unregister, Release, ReaderGoes, hubVars, chanVars
    <2>3. QED BY <1>2, <2>1, <2>2 DEF Handler
<1>3. ASSUME NEW c \in Client, PeerCloses(c) \/ Pump(c) PROVE KnownAreOpen'
    BY <1>3 DEF PeerCloses, Pump, PumpTakes, PumpWrites, PingFails, PumpCloses, PumpPanics,
                hubVars, chanVars, connVars
<1>4. ASSUME NEW u \in User, Send(u) PROVE KnownAreOpen'
    BY <1>4 DEF Send, chanVars, connVars
<1>5. CASE HubRegisters
    <2>1. /\ register # <<>> /\ register' = Tail(register)
          /\ clients' = clients \cup {Head(register)} /\ shut' = shut /\ reader' = reader
        BY <1>5 DEF HubRegisters, chanVars, connVars
    <2>2. /\ register' \in Seq(Client)
          /\ \A i \in DOMAIN register' : i + 1 \in DOMAIN register
                                          /\ register'[i] = register[i + 1]
          /\ Head(register) = register[1] /\ 1 \in DOMAIN register
        BY <2>1
    <2>3. QED BY <2>1, <2>2
<1>6. CASE HubUnregisters
    <2>1. /\ register' = register /\ reader' = reader
          /\ clients' = clients \ {Head(unregister)} /\ shut' = shut \cup {Head(unregister)}
        BY <1>6 DEF HubUnregisters, Closes, connVars
    <2>2. unregister' # unregister
        BY <1>6 DEF HubUnregisters, AskedOnce
    <2>3. ~ Awaits(Head(unregister))
        BY <1>6, <2>2 DEF InTurn, vars, hubVars
    <2>4. QED BY <2>1, <2>3 DEF Awaits
<1>7. CASE HubBroadcasts \/ Stop
    BY <1>7 DEF HubBroadcasts, Stop, chanVars, connVars
<1>8. CASE UNCHANGED vars
    BY <1>8 DEF vars, hubVars, chanVars, connVars
<1>9. QED BY <1>1, <1>2, <1>3, <1>4, <1>5, <1>6, <1>7, <1>8 DEF Next

\* The hub's goroutine panics in one way only: a client's unregistration overtook
\* its registration (hub.go:46-77).
THEOREM HubPanicsOutOfTurn == Spec /\ [][InTurn]_vars => [][HubSurvives]_vars
<1>1. AskedOnce /\ KnownAreOpen => [HubSurvives]_vars
    <2> SUFFICES ASSUME AskedOnce, KnownAreOpen, HubUnregisters \/ HubBroadcasts PROVE alive'
        BY DEF HubSurvives
    <2>1. CASE HubUnregisters
        <3>1. alive' = ({Head(unregister)} \cap shut = {}) /\ unregister # <<>>
            BY <2>1 DEF HubUnregisters, Closes
        <3>2. Head(unregister) \notin shut
            BY <3>1 DEF AskedOnce
        <3>3. QED BY <3>1, <3>2
    <2>2. CASE HubBroadcasts
        <3>1. alive' = (Recipients(Head(broadcast)) \cap shut = {})
            BY <2>2 DEF HubBroadcasts
        <3>2. Recipients(Head(broadcast)) \cap shut = {}
            BY DEF Recipients, KnownAreOpen
        <3>3. QED BY <3>1, <3>2
    <2>3. QED BY <2>1, <2>2
<1>2. QED BY <1>1, InitAsked, NextAsked, InitKnown, NextKnown, PTL DEF Spec
=============================================================================
