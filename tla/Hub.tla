--------------------------------- MODULE Hub ---------------------------------
(***************************************************************************)
(* The WebSocket side (internal/notification/ws): the hub's single          *)
(* goroutine over its four channels (hub.go), and per connection the        *)
(* handler, which ends as the read pump, and the write pump (client.go,     *)
(* handler.go).                                                             *)
(*                                                                          *)
(* A Client does not hold its socket but a pointer to a websocket.Conn of   *)
(* gofiber/contrib, which wraps the socket and comes from a sync.Pool: when *)
(* the handler returns, the library clears the wrapper and puts it back,    *)
(* and the next connection may get the same one, while the write pump of    *)
(* the old client may still run and still holds the pointer.                *)
(***************************************************************************)
EXTENDS Naturals, Sequences, FiniteSets

CONSTANTS User,            \* user ids
          Client,          \* connections, each made at most once
          Owner,           \* Owner[c]: the user in the token of connection c
          Wrapper,         \* the websocket.Conn objects of the pool
          ControlSize,     \* capacity of register and of unregister (64)
          BroadcastSize,   \* capacity of broadcast (4096)
          SendSize,        \* capacity of a client's send channel (256)
          MaxEvents,       \* bound: events sent in all
          Closing,         \* what a receive from a closed send channel yields
          None

ASSUME HubAssumption ==
    /\ Owner \in [Client -> User]
    /\ {ControlSize, BroadcastSize, SendSize, MaxEvents} \subseteq Nat \ {0}
    /\ None \notin Client \cup Wrapper

Event == [user : User, n : 1..MaxEvents]

VARIABLES clients,     \* the clients in the hub's map
          register, unregister, broadcast,   \* the buffers of the hub's channels
          hub,         \* the hub's goroutine: running, stopped
          send,        \* send[c]: the buffer of c.send
          shut,        \* the clients whose send channel is closed
          conn,        \* conn[w]: the connection whose socket wrapper w holds
          wrapper,     \* wrapper[c]: the wrapper the client points to
          socket,      \* socket[c]: none, open, closed
          reader,      \* reader[c]: the handler and read pump of c
          writer,      \* writer[c]: the write pump of c
          hand,        \* hand[c]: what the write pump of c is about to write
          sent,        \* the number of events handed to Hub.Send
          alive        \* no goroutine has panicked without a recover

hubVars == <<clients, register, unregister, broadcast, hub>>
chanVars == <<send, shut>>
connVars == <<conn, wrapper, socket, reader>>
pumpVars == <<writer, hand>>
vars == <<hubVars, chanVars, connVars, pumpVars, sent, alive>>

ReaderState == {"none", "register", "reading", "leaving", "returning", "gone"}
WriterState == {"none", "waiting", "writing", "closing", "gone"}

Init ==
    /\ clients = {}
    /\ register = <<>> /\ unregister = <<>> /\ broadcast = <<>>
    /\ hub = "running"
    /\ send = [c \in Client |-> <<>>] /\ shut = {}
    /\ conn = [w \in Wrapper |-> None]
    /\ wrapper = [c \in Client |-> None]
    /\ socket = [c \in Client |-> "none"]
    /\ reader = [c \in Client |-> "none"]
    /\ writer = [c \in Client |-> "none"]
    /\ hand = [c \in Client |-> None]
    /\ sent = 0
    /\ alive = TRUE

-----------------------------------------------------------------------------
(* The handler of one connection. *)

ReaderGoes(c, s) == reader' = [reader EXCEPT ![c] = s]

\* Upgrade with a wrapper from the pool; the token is valid.
Connect(c, w) ==
    /\ alive
    /\ reader[c] = "none" /\ conn[w] = None
    /\ conn' = [conn EXCEPT ![w] = c]
    /\ wrapper' = [wrapper EXCEPT ![c] = w]
    /\ socket' = [socket EXCEPT ![c] = "open"]
    /\ ReaderGoes(c, "register")
    /\ UNCHANGED <<hubVars, chanVars, pumpVars, sent, alive>>

\* Register blocks while the buffer is full; then the write pump starts and
\* the handler becomes the read pump.
Register(c) ==
    /\ alive
    /\ reader[c] = "register"
    /\ Len(register) < ControlSize
    /\ register' = Append(register, c)
    /\ ReaderGoes(c, "reading")
    /\ writer' = [writer EXCEPT ![c] = "waiting"]
    /\ UNCHANGED <<clients, unregister, broadcast, hub, chanVars, conn, wrapper, socket,
                   hand, sent, alive>>

\* The peer goes away, or misses the pong deadline.
PeerCloses(c) ==
    /\ alive
    /\ socket[c] = "open"
    /\ socket' = [socket EXCEPT ![c] = "closed"]
    /\ UNCHANGED <<hubVars, chanVars, conn, wrapper, reader, pumpVars, sent, alive>>

ReadFails(c) ==
    /\ alive
    /\ reader[c] = "reading"
    /\ socket[c] = "closed"
    /\ ReaderGoes(c, "leaving")
    /\ UNCHANGED <<hubVars, chanVars, conn, wrapper, socket, pumpVars, sent, alive>>

\* The deferred Unregister of the read pump.
Unregister(c) ==
    /\ alive
    /\ reader[c] = "leaving"
    /\ Len(unregister) < ControlSize
    /\ unregister' = Append(unregister, c)
    /\ ReaderGoes(c, "returning")
    /\ UNCHANGED <<clients, register, broadcast, hub, chanVars, conn, wrapper, socket,
                   pumpVars, sent, alive>>

\* The handler returns: the wrapper is cleared and back in the pool.
Release(c) ==
    /\ alive
    /\ reader[c] = "returning"
    /\ conn' = [conn EXCEPT ![wrapper[c]] = None]
    /\ ReaderGoes(c, "gone")
    /\ UNCHANGED <<hubVars, chanVars, wrapper, socket, pumpVars, sent, alive>>

-----------------------------------------------------------------------------
(* The hub. *)

HasRoom(c) == Len(send[c]) < SendSize

\* Slip: a send without a buffer and without a default, for which the hub's
\* goroutine waits until the client's pump takes it.
HubRunsUnlessSending ==
    /\ hub = "running"
    /\ broadcast # <<>> =>
          \A c \in clients : Owner[c] = Head(broadcast).user => writer[c] = "waiting"

\* The hub's goroutine is at its select.
HubRuns == hub = "running"

\* Slip: a report that is never dropped.
BufferedAlways(m) == Append(broadcast, m)

\* A full buffer drops the message.
Buffered(m) ==
    IF Len(broadcast) < BroadcastSize THEN Append(broadcast, m) ELSE broadcast

\* A processor reports an outcome.
Send(u) ==
    /\ alive
    /\ sent < MaxEvents
    /\ sent' = sent + 1
    /\ broadcast' = Buffered([user |-> u, n |-> sent + 1])
    /\ UNCHANGED <<clients, register, unregister, hub, chanVars, connVars, pumpVars, alive>>

HubRegisters ==
    /\ alive /\ HubRuns
    /\ register # <<>>
    /\ clients' = clients \cup {Head(register)}
    /\ register' = Tail(register)
    /\ UNCHANGED <<unregister, broadcast, hub, chanVars, connVars, pumpVars, sent, alive>>

\* Slip: close the channel only of a client the map knows.
ClosesKnown(c) == {c} \cap clients

\* The clients whose channel the unregistration of c closes.
Closes(c) == {c}

\* Closing a channel twice panics.
HubUnregisters ==
    /\ alive /\ HubRuns
    /\ unregister # <<>>
    /\ LET c == Head(unregister) IN
          /\ clients' = clients \ {c}
          /\ shut' = shut \cup Closes(c)
          /\ alive' = (Closes(c) \cap shut = {})
    /\ unregister' = Tail(unregister)
    /\ UNCHANGED <<register, broadcast, hub, send, connVars, pumpVars, sent>>

\* Slip: every client gets every message.
Everybody(m) == clients

Recipients(m) == {c \in clients : Owner[c] = m.user}

\* Hand a message to every recipient that has room; the others miss it. The
\* sends go to different channels, so nobody can tell them from one step. A send
\* on a closed channel panics.
HubBroadcasts ==
    /\ alive /\ HubRuns
    /\ broadcast # <<>>
    /\ LET m == Head(broadcast) IN
          /\ send' = [c \in Client |->
                        IF c \in Recipients(m) /\ HasRoom(c) THEN Append(send[c], m)
                        ELSE send[c]]
          /\ alive' = (Recipients(m) \cap shut = {})
    /\ broadcast' = Tail(broadcast)
    /\ UNCHANGED <<clients, register, unregister, hub, shut, connVars, pumpVars, sent>>

\* Stop closes h.stop. Its select may take other cases before it: that is a
\* later Stop.
Stop ==
    /\ alive /\ HubRuns
    /\ hub' = "stopped"
    /\ UNCHANGED <<clients, register, unregister, broadcast, chanVars, connVars, pumpVars,
                   sent, alive>>

-----------------------------------------------------------------------------
(* The write pump of one client. *)

WriterGoes(c, s) == writer' = [writer EXCEPT ![c] = s]
Holds(c, x) == hand' = [hand EXCEPT ![c] = x]

\* The connection that whatever the pump of c writes now goes to.
Peer(c) == conn[wrapper[c]]

\* A cleared wrapper holds a nil pointer: the next ping, write or Close panics,
\* and the pump's goroutine recovers nothing.
PumpPanics(c) ==
    /\ alive
    /\ writer[c] \in {"waiting", "writing", "closing"}
    /\ Peer(c) = None
    /\ alive' = FALSE
    /\ UNCHANGED <<hubVars, chanVars, connVars, pumpVars, sent>>

PumpTakes(c) ==
    /\ alive
    /\ writer[c] = "waiting"
    /\ \/ /\ send[c] # <<>>
          /\ Holds(c, Head(send[c]))
          /\ send' = [send EXCEPT ![c] = Tail(@)]
       \/ /\ send[c] = <<>> /\ c \in shut
          /\ Holds(c, Closing)
          /\ send' = send
    /\ WriterGoes(c, "writing")
    /\ UNCHANGED <<hubVars, shut, connVars, sent, alive>>

\* Slip: an event that is not written goes back to the hub, for another try.
PumpHandsBack(c) ==
    /\ alive
    /\ writer[c] = "writing"
    /\ Peer(c) # None
    /\ \/ hand[c] # Closing /\ WriterGoes(c, "waiting") /\ UNCHANGED broadcast
       \/ hand[c] = Closing /\ WriterGoes(c, "closing") /\ UNCHANGED broadcast
       \/ hand[c] # Closing /\ WriterGoes(c, "closing") /\ broadcast' = Buffered(hand[c])
    /\ Holds(c, None)
    /\ UNCHANGED <<clients, register, unregister, hub, chanVars, connVars, sent, alive>>

\* The close frame ends the pump. So does an event that is not written, because
\* the peer has left or does not read before the write deadline.
PumpWrites(c) ==
    /\ alive
    /\ writer[c] = "writing"
    /\ Peer(c) # None
    /\ \/ hand[c] # Closing /\ WriterGoes(c, "waiting")
       \/ hand[c] = Closing /\ WriterGoes(c, "closing")
       \/ hand[c] # Closing /\ WriterGoes(c, "closing")
    /\ Holds(c, None)
    /\ UNCHANGED <<hubVars, chanVars, connVars, sent, alive>>

\* The ping of the ticker finds out the same.
PingFails(c) ==
    /\ alive
    /\ writer[c] = "waiting"
    /\ Peer(c) # None
    /\ WriterGoes(c, "closing")
    /\ UNCHANGED <<hubVars, chanVars, connVars, hand, sent, alive>>

\* Slip: the write pump unregisters as well, as many chat servers do.
PumpUnregisters(c) ==
    /\ alive
    /\ writer[c] = "closing"
    /\ Peer(c) # None
    /\ Len(unregister) < ControlSize
    /\ unregister' = Append(unregister, c)
    /\ socket' = [socket EXCEPT ![Peer(c)] = "closed"]
    /\ WriterGoes(c, "gone")
    /\ UNCHANGED <<clients, register, broadcast, hub, chanVars, conn, wrapper, reader,
                   hand, sent, alive>>

\* Slip: the write pump gives the wrapper back as well.
PumpReleases(c) ==
    /\ alive
    /\ writer[c] = "closing"
    /\ Peer(c) # None
    /\ socket' = [socket EXCEPT ![Peer(c)] = "closed"]
    /\ conn' = [conn EXCEPT ![wrapper[c]] = None]
    /\ WriterGoes(c, "gone")
    /\ UNCHANGED <<hubVars, chanVars, wrapper, reader, hand, sent, alive>>

\* The deferred Close.
PumpCloses(c) ==
    /\ alive
    /\ writer[c] = "closing"
    /\ Peer(c) # None
    /\ socket' = [socket EXCEPT ![Peer(c)] = "closed"]
    /\ WriterGoes(c, "gone")
    /\ UNCHANGED <<hubVars, chanVars, conn, wrapper, reader, hand, sent, alive>>

-----------------------------------------------------------------------------
Handler(c) == Register(c) \/ ReadFails(c) \/ Unregister(c) \/ Release(c)

Pump(c) ==
    \/ PumpTakes(c)
    \/ PumpWrites(c)
    \/ PingFails(c)
    \/ PumpCloses(c)
    \/ PumpPanics(c)

Next ==
    \/ \E c \in Client :
          \/ \E w \in Wrapper : Connect(c, w)
          \/ Handler(c)
          \/ PeerCloses(c)
          \/ Pump(c)
    \/ \E u \in User : Send(u)
    \/ HubRegisters
    \/ HubUnregisters
    \/ HubBroadcasts
    \/ Stop

Spec == Init /\ [][Next]_vars

\* Goroutines are scheduled; a select picks at random among the ready cases, so
\* none that stays ready is passed over for ever. A write ends by its deadline.
\* The ticker fires, and writes to a closed socket do not succeed for ever. The
\* handlers and the registrations owe nothing: no property waits for them.
Fairness ==
    /\ WF_vars(HubUnregisters)
    /\ WF_vars(HubBroadcasts)
    /\ \A c \in Client :
          /\ WF_vars(PumpTakes(c) \/ PumpWrites(c) \/ PumpCloses(c) \/ PumpPanics(c))
          /\ WF_vars(PingFails(c) /\ socket[Peer(c)] = "closed")

LiveSpec == Spec /\ Fairness

-----------------------------------------------------------------------------
(* Properties. *)

Increasing(s) == \A i, j \in DOMAIN s : i < j => s[i].n < s[j].n

TypeOK ==
    /\ clients \subseteq Client
    /\ register \in Seq(Client) /\ Len(register) <= ControlSize
    /\ unregister \in Seq(Client) /\ Len(unregister) <= ControlSize
    /\ broadcast \in Seq(Event) /\ Len(broadcast) <= BroadcastSize
    /\ hub \in {"running", "stopped"}
    /\ send \in [Client -> Seq(Event)]
    /\ \A c \in Client : Len(send[c]) <= SendSize
    /\ shut \subseteq Client
    /\ conn \in [Wrapper -> Client \cup {None}]
    /\ wrapper \in [Client -> Wrapper \cup {None}]
    /\ socket \in [Client -> {"none", "open", "closed"}]
    /\ reader \in [Client -> ReaderState]
    /\ writer \in [Client -> WriterState]
    /\ hand \in [Client -> Event \cup {Closing, None}]
    /\ sent \in 0..MaxEvents
    /\ alive \in BOOLEAN

\* The events the pump of c still has to write: the one in its hand, then those
\* in its channel.
Unwritten(c) ==
    IF hand[c] \in {None, Closing} THEN send[c] ELSE <<hand[c]>> \o send[c]

\* On the way from the hub's buffer to a connection, through the client's channel
\* and the hand of its pump, are events of its own user only, each once and in
\* the order they were sent, whatever was dropped (hub.go:65-75, client.go:43-55).
RoutedInOrder ==
    \A c \in Client :
        /\ Increasing(Unwritten(c))
        /\ \A i \in DOMAIN Unwritten(c) :
              /\ Unwritten(c)[i].user = Owner[c]
              /\ \A j \in DOMAIN broadcast : Unwritten(c)[i].n < broadcast[j].n

\* A client is unregistered at most once, so its channel is never closed twice:
\* of its two pumps only the read pump asks for it (client.go:69-71).
UnregisteredOnce ==
    \A c \in Client :
        Cardinality({i \in DOMAIN unregister : unregister[i] = c})
            + Cardinality({c} \cap shut) <= 1

\* Until its handler returns, a connection has its wrapper for itself: no other
\* connection gets it, however late old write pumps end.
ReaderOwnsWrapper ==
    \A c \in Client :
        reader[c] \in {"register", "reading", "leaving", "returning"} =>
            conn[wrapper[c]] = c

Full == Len(broadcast) = BroadcastSize
HubServes == alive /\ hub = "running"

\* The hub waits for no client: a full buffer gets room again even when every
\* write pump is stuck or gone, so events are not dropped for ever
\* (hub.go:70-74).
FullBufferGetsRoom == []<>(HubServes => ~ Full)

\* No write pump outlives its connection for good: again and again there is none
\* that does, and a connection that is gone stays gone (hub.go:53-63,
\* client.go:36-62).
PumpsEnd ==
    []<>(HubServes => \A c \in Client : reader[c] = "gone" => writer[c] = "gone")

-----------------------------------------------------------------------------
(* What the documents say and the code does not do. *)

\* You only receive events for your own files (GUIDE.md:424): whatever a write
\* pump is about to write goes to a connection of the user it is meant for.
EventsReachTheirOwner ==
    \A c \in Client :
        writer[c] = "writing" /\ hand[c] # Closing /\ Peer(c) # None =>
            Owner[Peer(c)] = hand[c].user
=============================================================================
