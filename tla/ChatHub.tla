------------------------------ MODULE ChatHub ------------------------------
(***************************************************************************)
(* The WebSocket hub: the connections of the users, the queue of each, and *)
(* the two goroutines per connection.  The read loop takes a frame from    *)
(* its client, stores it, and puts the result on the queues of others      *)
(* through the hub; the write loop empties the connection's own queue.     *)
(*                                                                         *)
(* Membership of the hub changes under its lock and Send holds the same    *)
(* lock for reading, but a read loop that ends closes its queue without it *)
(* and before it leaves the hub.  In Go, a send on a closed channel panics *)
(* (also inside a select with a default): the panic unwinds the read loop  *)
(* of the SENDER, whose deferred calls run, and the Recoverer middleware   *)
(* of the router keeps the process alive.                                  *)
(*                                                                         *)
(* Every frame names one conversation and touches the queues of its two    *)
(* participants only, so one conversation is the general case.  A message  *)
(* is its position in the messages table; its content does not matter.     *)
(***************************************************************************)
EXTENDS Naturals, FiniteSets, Sequences

CONSTANTS
    Users,         \* everyone who can open a connection
    Participants,  \* the two of them the conversation belongs to
    Clients,       \* identities of connections, each opened once
    Owner,         \* Owner[c]: the user that connection c authenticates
    Capacity,      \* size of an outbound queue (64 in the code)
    MaxMessages,   \* bound on the messages stored
    MaxOpened,     \* bound on the connections opened
    Readers,       \* the connections that send read receipts
    MaxReceipts,   \* bound on the read receipts of one of them
    Failures       \* whether a database statement or a socket write may fail

ASSUME ChatHubAssumption ==
    /\ \E u, v \in Users : u # v /\ Participants = {u, v}
    /\ Owner \in [Clients -> Users]
    /\ Capacity \in Nat \ {0}
    /\ MaxMessages \in Nat
    /\ MaxOpened \in Nat
    /\ Readers \subseteq Clients
    /\ MaxReceipts \in Nat
    /\ Failures \in BOOLEAN

VARIABLES
    hub,       \* Hub.clients: the connections that are registered
    reader,    \* the read loop of each connection
    writer,    \* the write loop of each connection
    outbound,  \* the queue of each connection
    closed,    \* the connections whose queue has been closed
    messages,  \* the messages rows of the conversation, in commit order
    received,  \* what has been written to the socket of each connection
    pushed     \* the messages for which pushNotify was started

vars == <<hub, reader, writer, outbound, closed, messages, received, pushed>>

-----------------------------------------------------------------------------
(* State.                                                                  *)

\* A stored message, or the receipt that a user has read the conversation.
MessageFrames == [type : {"message"}, id : 1 .. MaxMessages]
ReadFrames == [type : {"read"}, by : Users]
Frames == MessageFrames \cup ReadFrames

MessageFrame(n) == [type |-> "message", id |-> n]
ReadFrame(u) == [type |-> "read", by |-> u]

\* reading -> storing -> echoing -> routing -> sending -> routed -> reading
\* for a message; reading -> marking -> routing -> sending -> reading for a
\* receipt; -> closing -> leaving -> gone when the loop ends.
Phases == {"off", "reading", "storing", "echoing", "marking", "routing", "sending",
           "routed", "closing", "leaving", "gone"}

\* frame: what is being sent.  rest: the connections Send has yet to visit.
Reader == [pc : Phases, frame : Frames, rest : SUBSET Clients,
           receipts : 0 .. MaxReceipts]

Message == [from : Clients, read : BOOLEAN]

Recipient(c) == CHOOSE u \in Participants : u # Owner[c]
Connections(u) == {c \in hub : Owner[c] = u}

TypeOK ==
    /\ hub \subseteq Clients
    /\ reader \in [Clients -> Reader]
    /\ writer \in [Clients -> {"off", "running", "stopped"}]
    /\ outbound \in [Clients -> Seq(Frames)]
    /\ \A c \in Clients : Len(outbound[c]) <= Capacity
    /\ closed \subseteq Clients
    /\ messages \in Seq(Message) /\ Len(messages) <= MaxMessages
    /\ received \in [Clients -> Seq(Frames)]
    /\ pushed \subseteq 1 .. Len(messages)

Init ==
    /\ hub = {} /\ closed = {} /\ pushed = {} /\ messages = <<>>
    /\ reader = [c \in Clients |-> [pc |-> "off", frame |-> ReadFrame(Owner[c]),
                                    rest |-> {}, receipts |-> 0]]
    /\ writer = [c \in Clients |-> "off"]
    /\ outbound = [c \in Clients |-> <<>>]
    /\ received = [c \in Clients |-> <<>>]

At(c, phase) == reader[c].pc = phase
Goto(c, phase) == reader' = [reader EXCEPT ![c].pc = phase]

\* Hub.mu is held for reading while Send runs; writers wait.
HubFree == \A c \in Clients : ~At(c, "sending")

IsMessage(f) == f.type = "message"

-----------------------------------------------------------------------------
(* Variants with a defect, for the sensitivity of the properties.          *)

\* enqueue throws away the oldest frame and puts the new one first.
OfferFirst(d, f) ==
    outbound' = [outbound EXCEPT ![d] = IF Len(@) < Capacity THEN <<f>> \o @ ELSE @]

\* No check of the conversation's participants.
TakeMessageOfAnyone(c) ==
    /\ At(c, "reading") /\ Len(messages) < MaxMessages
    /\ Goto(c, "storing")
    /\ UNCHANGED <<hub, writer, outbound, closed, messages, received, pushed>>

\* The queue of a connection that ends is never closed.
CloseNothing(c) ==
    /\ At(c, "closing")
    /\ Goto(c, "leaving")
    /\ UNCHANGED <<hub, writer, outbound, closed, messages, received, pushed>>

\* A receipt marks the latest message only.
MarkLatest(c) ==
    /\ At(c, "marking")
    /\ messages' = [n \in DOMAIN messages |->
                      IF Owner[messages[n].from] # Owner[c] /\ n = Len(messages)
                      THEN [messages[n] EXCEPT !.read = TRUE] ELSE messages[n]]
    /\ reader' = [reader EXCEPT ![c] = [@ EXCEPT !.pc = "routing", !.frame = ReadFrame(Owner[c])]]
    /\ UNCHANGED <<hub, writer, outbound, closed, received, pushed>>

-----------------------------------------------------------------------------
\* Client.enqueue: never blocks, drops what does not fit.
Offer(d, f) ==
    outbound' = [outbound EXCEPT ![d] = IF Len(@) < Capacity THEN Append(@, f) ELSE @]

(* Client.Run: Register, then the write loop, then the read loop.          *)

Connect(c) ==
    /\ At(c, "off") /\ HubFree
    /\ Cardinality({d \in Clients : ~At(d, "off")}) < MaxOpened
    /\ hub' = hub \cup {c}
    /\ writer' = [writer EXCEPT ![c] = "running"]
    /\ Goto(c, "reading")
    /\ UNCHANGED <<outbound, closed, messages, received, pushed>>

(* Client.readLoop.  A frame of somebody who is not a participant, or that *)
(* does not parse, or whose conversation is not found, changes nothing.    *)

IsParticipant(c) == Owner[c] \in Participants

TakeMessage(c) ==
    /\ At(c, "reading") /\ Len(messages) < MaxMessages
    /\ IsParticipant(c)
    /\ Goto(c, "storing")
    /\ UNCHANGED <<hub, writer, outbound, closed, messages, received, pushed>>

\* PersistMessage.
Store(c) ==
    /\ At(c, "storing") /\ Len(messages) < MaxMessages
    /\ messages' = Append(messages, [from |-> c, read |-> FALSE])
    /\ reader' = [reader EXCEPT ![c] = [@ EXCEPT !.pc = "echoing",
                                !.frame = MessageFrame(Len(messages) + 1)]]
    /\ UNCHANGED <<hub, writer, outbound, closed, received, pushed>>

StoreFails(c) ==
    /\ Failures /\ At(c, "storing")
    /\ Goto(c, "reading")
    /\ UNCHANGED <<hub, writer, outbound, closed, messages, received, pushed>>

\* The sender's own connection gets the stored message back.
Echo(c) ==
    /\ At(c, "echoing")
    /\ Offer(c, reader[c].frame)
    /\ Goto(c, "routing")
    /\ UNCHANGED <<hub, writer, closed, messages, received, pushed>>

TakeReceipt(c) ==
    /\ At(c, "reading") /\ c \in Readers /\ reader[c].receipts < MaxReceipts
    /\ IsParticipant(c)
    /\ reader' = [reader EXCEPT ![c].pc = "marking", ![c].receipts = @ + 1]
    /\ UNCHANGED <<hub, writer, outbound, closed, messages, received, pushed>>

\* MarkRead: every unread message of the conversation that others have sent.
MarkRead(c) ==
    /\ At(c, "marking")
    /\ messages' = [n \in DOMAIN messages |->
                      IF Owner[messages[n].from] # Owner[c]
                      THEN [messages[n] EXCEPT !.read = TRUE] ELSE messages[n]]
    /\ reader' = [reader EXCEPT ![c] = [@ EXCEPT !.pc = "routing", !.frame = ReadFrame(Owner[c])]]
    /\ UNCHANGED <<hub, writer, outbound, closed, received, pushed>>

MarkReadFails(c) ==
    /\ Failures /\ At(c, "marking")
    /\ Goto(c, "reading")
    /\ UNCHANGED <<hub, writer, outbound, closed, messages, received, pushed>>

(* Hub.Send to the other participant: over the connections registered when *)
(* the lock was taken, in the order of the map, which is any.              *)

StartSend(c) ==
    /\ At(c, "routing")
    /\ reader' = [reader EXCEPT ![c] = [@ EXCEPT !.pc = "sending",
                                        !.rest = Connections(Recipient(c))]]
    /\ UNCHANGED <<hub, writer, outbound, closed, messages, received, pushed>>

SendTo(c, d) ==
    /\ At(c, "sending") /\ d \in reader[c].rest \ closed
    /\ Offer(d, reader[c].frame)
    /\ reader' = [reader EXCEPT ![c].rest = @ \ {d}]
    /\ UNCHANGED <<hub, writer, closed, messages, received, pushed>>

\* The queue is closed already: the sender's read loop panics.
Panic(c, d) ==
    /\ At(c, "sending") /\ d \in reader[c].rest \cap closed
    /\ Goto(c, "closing")
    /\ UNCHANGED <<hub, writer, outbound, closed, messages, received, pushed>>

EndSend(c) ==
    /\ At(c, "sending") /\ reader[c].rest = {}
    /\ Goto(c, IF IsMessage(reader[c].frame) THEN "routed" ELSE "reading")
    /\ UNCHANGED <<hub, writer, outbound, closed, messages, received, pushed>>

\* Hub.IsOnline, a second look at the hub; pushNotify in a goroutine.
PushIfOffline(c) ==
    /\ At(c, "routed")
    /\ pushed' = IF Connections(Recipient(c)) = {} THEN pushed \cup {reader[c].frame.id}
                                                   ELSE pushed
    /\ Goto(c, "reading")
    /\ UNCHANGED <<hub, writer, outbound, closed, messages, received>>

(* The end of a connection.  conn.Read fails; close(outbound), the write   *)
(* loop's context is cancelled, Unregister.                                *)

Disconnect(c) ==
    /\ At(c, "reading")
    /\ Goto(c, "closing")
    /\ UNCHANGED <<hub, writer, outbound, closed, messages, received, pushed>>

CloseQueue(c) ==
    /\ At(c, "closing")
    /\ closed' = closed \cup {c}
    /\ Goto(c, "leaving")
    /\ UNCHANGED <<hub, writer, outbound, messages, received, pushed>>

Unregister(c) ==
    /\ At(c, "leaving") /\ HubFree
    /\ hub' = hub \ {c}
    /\ Goto(c, "gone")
    /\ UNCHANGED <<writer, outbound, closed, messages, received, pushed>>

(* Client.writeLoop.                                                       *)

Write(c) ==
    /\ writer[c] = "running" /\ outbound[c] # <<>>
    /\ received' = [received EXCEPT ![c] = Append(@, Head(outbound[c]))]
    /\ outbound' = [outbound EXCEPT ![c] = Tail(@)]
    /\ UNCHANGED <<hub, reader, writer, closed, messages, pushed>>

\* The socket is broken, or the context cancelled: the loop ends and the queue
\* is emptied by nobody.
WriteFails(c) ==
    /\ Failures \/ reader[c].pc \in {"leaving", "gone"}
    /\ writer[c] = "running" /\ outbound[c] # <<>>
    /\ outbound' = [outbound EXCEPT ![c] = Tail(@)]
    /\ writer' = [writer EXCEPT ![c] = "stopped"]
    /\ UNCHANGED <<hub, reader, closed, messages, received, pushed>>

StopWriter(c) ==
    /\ writer[c] = "running" /\ outbound[c] = <<>> /\ c \in closed
    /\ writer' = [writer EXCEPT ![c] = "stopped"]
    /\ UNCHANGED <<hub, reader, outbound, closed, messages, received, pushed>>

-----------------------------------------------------------------------------
\* What a read loop does once it has a frame, or has ended.
Handle(c) ==
    \/ Store(c) \/ Echo(c) \/ MarkRead(c)
    \/ StartSend(c) \/ (\E d \in Clients : SendTo(c, d) \/ Panic(c, d)) \/ EndSend(c)
    \/ PushIfOffline(c)
    \/ CloseQueue(c) \/ Unregister(c)

Pump(c) == Write(c) \/ StopWriter(c)

Next ==
    \E c \in Clients :
        \/ Connect(c) \/ TakeMessage(c) \/ TakeReceipt(c) \/ Disconnect(c)
        \/ Handle(c) \/ StoreFails(c) \/ MarkReadFails(c)
        \/ Pump(c) \/ WriteFails(c)

Spec == Init /\ [][Next]_vars

\* Some goroutine that can run does.  Messages and receipts being bounded, so is
\* what the goroutines have to do, and nobody is kept waiting for ever.
FairSpec == Spec /\ WF_vars(\E c \in Clients : Handle(c) \/ Pump(c))

-----------------------------------------------------------------------------
(* Properties.                                                             *)

\* The frames of one connection reach every other connection in the order in
\* which they were stored, each at most once: neither the queues, nor drops,
\* nor the end of a connection reorder or repeat them.
FifoPerSender ==
    \A c \in Clients :
        LET got == received[c] \o outbound[c]
        IN  \A i, j \in DOMAIN got :
                (/\ i < j /\ IsMessage(got[i]) /\ IsMessage(got[j])
                 /\ messages[got[i].id].from = messages[got[j].id].from)
                    => got[i].id < got[j].id

\* Nothing is put on a queue that is not stored, and nothing about the
\* conversation reaches anybody but its participants.
OnlyTheConversation ==
    \A c \in Clients : received[c] \o outbound[c] # <<>> =>
        /\ Owner[c] \in Participants
        /\ \A i \in DOMAIN (received[c] \o outbound[c]) :
              LET f == (received[c] \o outbound[c])[i]
              IN  IsMessage(f) => f.id \in DOMAIN messages

\* What a user has read of the other's messages is a beginning of them: a
\* message does not stay unread behind one that was read, however receipts and
\* messages of several connections overlap.
ReadIsPrefix ==
    \A m, n \in DOMAIN messages :
        m < n /\ Owner[messages[m].from] = Owner[messages[n].from] /\ messages[n].read
            => messages[m].read

\* Send delivers to all connections of the user (hub.go:40): it never leaves
\* off before it has visited every one.
SendReachesAll ==
    [][\A c \in Clients : At(c, "sending") /\ reader'[c].pc # "sending"
                              => reader[c].rest = {}]_vars

\* A connection that ends leaves the hub and stops its write loop: neither the
\* registration nor the goroutine leaks, panics of others included.
EndedConnectionsAreReleased ==
    []<>(\A c \in Clients :
            reader[c].pc \in {"closing", "leaving", "gone"} =>
                At(c, "gone") /\ writer[c] = "stopped")

=============================================================================
