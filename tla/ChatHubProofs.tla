--------------------------- MODULE ChatHubProofs ----------------------------
(***************************************************************************)
(* What holds of the hub for any number of users, connections, messages    *)
(* and receipts: its types, that a conversation stays between its two      *)
(* participants, that what is read is a beginning of what was sent, and    *)
(* that everybody gets the messages of a connection in their order.        *)
(* Nothing is assumed of when connections end or statements fail.          *)
(***************************************************************************)
EXTENDS ChatHub, TLAPS

\* What a read loop is about to send is stored.
Stored(f) == IsMessage(f) => f.id \in DOMAIN messages

\* The phases in which a read loop has a frame of the conversation in hand.
Handling == {"storing", "echoing", "marking", "routing", "sending", "routed"}

FramesStored == \A c \in Clients : Stored(reader[c].frame)
RoutedIsMessage == \A c \in Clients : At(c, "routed") => IsMessage(reader[c].frame)

\* Types are not inductive by themselves: PushIfOffline adds the number of the
\* frame in hand to pushed, which must be that of a stored message.
TypeInv == TypeOK /\ FramesStored /\ RoutedIsMessage

\* What is on the way was put there by participants, for participants.
HandlersTakePart == \A c \in Clients : reader[c].pc \in Handling => IsParticipant(c)
TargetsTakePart == \A c \in Clients : \A d \in reader[c].rest : IsParticipant(d)
QueuesTakePart ==
    \A c \in Clients : outbound[c] # <<>> \/ received[c] # <<>> => IsParticipant(c)
QueuesStored ==
    \A c \in Clients : /\ \A i \in DOMAIN outbound[c] : Stored(outbound[c][i])
                       /\ \A i \in DOMAIN received[c] : Stored(received[c][i])

ConversationInv ==
    TypeInv /\ HandlersTakePart /\ TargetsTakePart /\ QueuesTakePart /\ QueuesStored

-----------------------------------------------------------------------------
(* Frames and participants.                                                *)

\* The other participant is one (handler of the frame: ws/client.go:143-149).
LEMMA RecipientTakesPart ==
    ASSUME NEW c \in Clients
    PROVE  Recipient(c) \in Participants
<1>1. PICK u, v \in Users : u # v /\ Participants = {u, v}
  BY ChatHubAssumption
<1>2. \E w \in Participants : w # Owner[c]
  BY <1>1
<1> QED
  BY <1>2 DEF Recipient

\* A receipt is not a message, and both are frames.
LEMMA FrameKinds ==
    /\ \A u \in Users : ReadFrame(u) \in Frames /\ ~IsMessage(ReadFrame(u))
    /\ \A n \in 1 .. MaxMessages :
          MessageFrame(n) \in Frames /\ IsMessage(MessageFrame(n)) /\ MessageFrame(n).id = n
BY DEF ReadFrame, MessageFrame, Frames, ReadFrames, MessageFrames, IsMessage

\* What enqueue leaves on a queue is a frame that was there or the new one, and
\* no more of them than fit.
LEMMA OfferedQueue ==
    ASSUME NEW S, NEW q \in Seq(S), NEW f \in S, Len(q) <= Capacity,
           NEW r, r = IF Len(q) < Capacity THEN Append(q, f) ELSE q
    PROVE  /\ r \in Seq(S) /\ Len(r) <= Capacity
           /\ \A i \in DOMAIN r : r[i] = f \/ (i \in DOMAIN q /\ r[i] = q[i])
<1>1. Capacity \in Nat
  BY ChatHubAssumption
<1>2. CASE Len(q) < Capacity
  BY <1>1, <1>2
<1>3. CASE ~(Len(q) < Capacity)
  BY <1>3
<1> QED
  BY <1>2, <1>3

\* A frame of what was received and what is queued is in one of the two.
LEMMA Concatenated ==
    ASSUME NEW S, NEW s \in Seq(S), NEW t \in Seq(S), NEW i \in DOMAIN (s \o t)
    PROVE  \/ i \in DOMAIN s /\ (s \o t)[i] = s[i]
           \/ i - Len(s) \in DOMAIN t /\ (s \o t)[i] = t[i - Len(s)]
<1>1. Len(s) \in Nat /\ Len(t) \in Nat /\ i \in 1 .. Len(s) + Len(t)
  OBVIOUS
<1>2. CASE i <= Len(s)
  BY <1>1, <1>2
<1>3. CASE ~(i <= Len(s))
  <2>1. i - Len(s) \in 1 .. Len(t)
    BY <1>1, <1>3
  <2>2. DOMAIN t = 1 .. Len(t)
    OBVIOUS
  <2>3. (s \o t)[i] = t[i - Len(s)]
    BY <1>1, <1>3
  <2> QED
    BY <2>1, <2>2, <2>3
<1> QED
  BY <1>2, <1>3

-----------------------------------------------------------------------------
(* Types.                                                                  *)

\* A read loop that goes on with the frame it has.
LEMMA GoingOn ==
    ASSUME TypeInv, NEW c \in Clients, NEW phase \in Phases, Goto(c, phase),
           phase = "routed" => IsMessage(reader[c].frame), UNCHANGED messages
    PROVE  reader' \in [Clients -> Reader] /\ FramesStored' /\ RoutedIsMessage'
<1>1. reader \in [Clients -> Reader]
  BY DEF TypeInv, TypeOK
<1>2. reader'[c] = [reader[c] EXCEPT !.pc = phase]
  BY <1>1 DEF Goto
<1>3. \A d \in Clients \ {c} : reader'[d] = reader[d]
  BY <1>1 DEF Goto
<1>4. reader' \in [Clients -> Reader]
  BY <1>1 DEF Goto, Reader
<1>5. reader'[c].frame = reader[c].frame /\ reader'[c].pc = phase
  BY <1>1, <1>2 DEF Reader
<1> QED
  BY <1>3, <1>4, <1>5 DEF TypeInv, FramesStored, RoutedIsMessage, Stored, At

\* The phases that the steps go to.
LEMMA PhasesNamed ==
    /\ \A p \in {"reading", "storing", "echoing", "marking", "routing", "sending",
                 "closing", "leaving", "gone"} : p \in Phases /\ p # "routed"
    /\ "routed" \in Phases
BY DEF Phases

\* The other read loops stay as they are.
LEMMA OneReader ==
    ASSUME reader \in [Clients -> Reader], NEW c \in Clients, NEW r \in Reader,
           reader' = [reader EXCEPT ![c] = r]
    PROVE  /\ reader' \in [Clients -> Reader] /\ reader'[c] = r
           /\ \A d \in Clients \ {c} : reader'[d] = reader[d]
OBVIOUS

\* Messages are marked one by one; there are as many as before, of the same senders.
LEMMA Marked ==
    ASSUME messages \in Seq(Message), NEW S,
           messages' = [n \in DOMAIN messages |->
                          IF n \in S THEN [messages[n] EXCEPT !.read = TRUE] ELSE messages[n]]
    PROVE  /\ messages' \in Seq(Message) /\ Len(messages') = Len(messages)
           /\ DOMAIN messages' = DOMAIN messages
           /\ \A n \in DOMAIN messages :
                 /\ messages'[n].from = messages[n].from
                 /\ messages'[n].read = IF n \in S THEN TRUE ELSE messages[n].read
<1>1. \A n \in DOMAIN messages : messages[n] \in Message
  OBVIOUS
<1>2. \A n \in DOMAIN messages :
         /\ messages'[n] \in Message /\ messages'[n].from = messages[n].from
         /\ messages'[n].read = IF n \in S THEN TRUE ELSE messages[n].read
  BY <1>1 DEF Message
<1>3. messages' \in [1 .. Len(messages) -> Message] /\ Len(messages) \in Nat
  BY <1>2
<1>4. messages' \in Seq(Message) /\ Len(messages') = Len(messages)
  BY <1>3
<1> QED
  BY <1>2, <1>4

\* Handling a frame, up to what Send does.
LEMMA TypeHandle ==
    ASSUME TypeInv, NEW c \in Clients, Store(c) \/ Echo(c) \/ MarkRead(c) \/ StartSend(c)
    PROVE  TypeInv'
<1> USE DEF TypeInv
<1>1. CASE Store(c)
  <2>1. messages' \in Seq(Message) /\ Len(messages') = Len(messages) + 1
        /\ Len(messages') <= MaxMessages
    BY <1>1, ChatHubAssumption DEF Store, TypeOK, Message
  <2>2. DOMAIN messages \subseteq DOMAIN messages' /\ Len(messages) + 1 \in DOMAIN messages'
        /\ 1 .. Len(messages) \subseteq 1 .. Len(messages')
    BY <2>1, <1>1 DEF TypeOK
  <2>3. /\ MessageFrame(Len(messages) + 1) \in Frames
        /\ IsMessage(MessageFrame(Len(messages) + 1))
        /\ MessageFrame(Len(messages) + 1).id = Len(messages) + 1
    BY <2>1, FrameKinds, ChatHubAssumption DEF TypeOK
  <2> DEFINE r == [reader[c] EXCEPT !.pc = "echoing", !.frame = MessageFrame(Len(messages) + 1)]
  <2>4. r \in Reader /\ r.pc = "echoing" /\ r.frame = MessageFrame(Len(messages) + 1)
    <3>1. reader[c] \in Reader /\ "echoing" \in Phases
      BY PhasesNamed DEF TypeOK
    <3> QED
      BY <2>3, <3>1 DEF Reader
  <2>5. /\ reader' \in [Clients -> Reader] /\ reader'[c] = r
        /\ \A d \in Clients \ {c} : reader'[d] = reader[d]
    <3>1. reader' = [reader EXCEPT ![c] = r] /\ reader \in [Clients -> Reader]
      BY <1>1 DEF Store, TypeOK
    <3> HIDE DEF r
    <3> QED
      BY <3>1, <2>4, OneReader
  <2>6. TypeOK'
    BY <1>1, <2>1, <2>2, <2>5 DEF Store, TypeOK
  <2>7. FramesStored' /\ RoutedIsMessage'
    BY <2>2, <2>3, <2>4, <2>5 DEF FramesStored, RoutedIsMessage, Stored, At
  <2> QED
    BY <2>6, <2>7
<1>2. CASE Echo(c)
  <2>1. reader' \in [Clients -> Reader] /\ FramesStored' /\ RoutedIsMessage'
    BY <1>2, GoingOn, PhasesNamed DEF Echo
  <2>2. reader[c].frame \in Frames
    BY FrameKinds DEF TypeOK, Reader
  <2>3. outbound' \in [Clients -> Seq(Frames)] /\ \A d \in Clients : Len(outbound'[d]) <= Capacity
    BY <1>2, <2>2, OfferedQueue DEF Echo, Offer, TypeOK
  <2> QED
    BY <1>2, <2>1, <2>3 DEF Echo, TypeOK
<1>3. CASE MarkRead(c)
  <2> DEFINE S == {n \in DOMAIN messages : Owner[messages[n].from] # Owner[c]}
             r == [reader[c] EXCEPT !.pc = "routing", !.frame = ReadFrame(Owner[c])]
  <2>1. messages' \in Seq(Message) /\ Len(messages') = Len(messages)
        /\ DOMAIN messages' = DOMAIN messages
    <3>1. /\ messages' = [n \in DOMAIN messages |->
                            IF n \in S THEN [messages[n] EXCEPT !.read = TRUE] ELSE messages[n]]
          /\ messages \in Seq(Message)
      BY <1>3 DEF MarkRead, TypeOK
    <3> HIDE DEF S
    <3> QED
      BY <3>1, Marked
  <2>2. Owner[c] \in Users
    BY ChatHubAssumption
  <2>3. r \in Reader /\ r.pc = "routing" /\ r.frame = ReadFrame(Owner[c])
    <3>1. reader[c] \in Reader /\ "routing" \in Phases /\ ReadFrame(Owner[c]) \in Frames
      BY <2>2, FrameKinds, PhasesNamed DEF TypeOK
    <3> QED
      BY <3>1 DEF Reader
  <2>4. /\ reader' \in [Clients -> Reader] /\ reader'[c] = r
        /\ \A d \in Clients \ {c} : reader'[d] = reader[d]
    <3>1. reader' = [reader EXCEPT ![c] = r] /\ reader \in [Clients -> Reader]
      BY <1>3 DEF MarkRead, TypeOK
    <3> HIDE DEF r
    <3> QED
      BY <3>1, <2>3, OneReader
  <2>5. FramesStored' /\ RoutedIsMessage'
    <3> HIDE DEF r
    <3>1. ~IsMessage(r.frame)
      BY <2>2, <2>3, FrameKinds
    <3> QED
      BY <2>1, <2>3, <2>4, <3>1 DEF FramesStored, RoutedIsMessage, Stored, At
  <2> QED
    BY <1>3, <2>1, <2>4, <2>5 DEF MarkRead, TypeOK
<1>4. CASE StartSend(c)
  <2>1. Connections(Recipient(c)) \subseteq Clients
    BY DEF Connections, TypeOK
  <2> DEFINE r == [reader[c] EXCEPT !.pc = "sending", !.rest = Connections(Recipient(c))]
  <2>2. r \in Reader /\ r.pc = "sending" /\ r.frame = reader[c].frame
    <3>1. reader[c] \in Reader /\ "sending" \in Phases
      BY PhasesNamed DEF TypeOK
    <3> QED
      BY <2>1, <3>1 DEF Reader
  <2>3. /\ reader' \in [Clients -> Reader] /\ reader'[c] = r
        /\ \A d \in Clients \ {c} : reader'[d] = reader[d]
    <3>1. reader' = [reader EXCEPT ![c] = r] /\ reader \in [Clients -> Reader]
      BY <1>4 DEF StartSend, TypeOK
    <3> HIDE DEF r
    <3> QED
      BY <3>1, <2>2, OneReader
  <2>4. FramesStored' /\ RoutedIsMessage'
    BY <1>4, <2>2, <2>3 DEF StartSend, FramesStored, RoutedIsMessage, Stored, At
  <2> QED
    BY <1>4, <2>3, <2>4 DEF StartSend, TypeOK
<1> QED
  BY <1>1, <1>2, <1>3, <1>4

\* The rest of what a read loop does once it has a frame, or has ended.
LEMMA TypeRoute ==
    ASSUME TypeInv, NEW c \in Clients,
           \/ \E d \in Clients : SendTo(c, d) \/ Panic(c, d)
           \/ EndSend(c) \/ PushIfOffline(c) \/ CloseQueue(c) \/ Unregister(c)
    PROVE  TypeInv'
<1> USE DEF TypeInv
<1>1. ASSUME NEW d \in Clients, SendTo(c, d)
      PROVE  TypeInv'
  <2> DEFINE r == [reader[c] EXCEPT !.rest = @ \ {d}]
  <2>1. r \in Reader /\ r.pc = reader[c].pc /\ r.frame = reader[c].frame
    <3>1. reader[c] \in Reader
      BY DEF TypeOK
    <3> QED
      BY <3>1 DEF Reader
  <2>2. /\ reader' \in [Clients -> Reader] /\ reader'[c] = r
        /\ \A e \in Clients \ {c} : reader'[e] = reader[e]
    <3>1. reader' = [reader EXCEPT ![c] = r] /\ reader \in [Clients -> Reader]
      BY <1>1 DEF SendTo, TypeOK
    <3> HIDE DEF r
    <3> QED
      BY <3>1, <2>1, OneReader
  <2>3. reader[c].frame \in Frames
    BY DEF TypeOK, Reader
  <2>4. outbound' \in [Clients -> Seq(Frames)] /\ \A e \in Clients : Len(outbound'[e]) <= Capacity
    BY <1>1, <2>3, OfferedQueue DEF SendTo, Offer, TypeOK
  <2>5. FramesStored' /\ RoutedIsMessage'
    <3> HIDE DEF r
    <3> QED
      BY <1>1, <2>1, <2>2 DEF SendTo, FramesStored, RoutedIsMessage, Stored, At
  <2> QED
    BY <1>1, <2>2, <2>4, <2>5 DEF SendTo, TypeOK
<1>2. ASSUME NEW d \in Clients, Panic(c, d)
      PROVE  TypeInv'
  <2>1. reader' \in [Clients -> Reader] /\ FramesStored' /\ RoutedIsMessage'
    BY <1>2, GoingOn, PhasesNamed DEF Panic
  <2> QED
    BY <1>2, <2>1 DEF Panic, TypeOK
<1>3. CASE EndSend(c)
  <2>1. CASE IsMessage(reader[c].frame)
    <3>1. reader' \in [Clients -> Reader] /\ FramesStored' /\ RoutedIsMessage'
      BY <1>3, <2>1, GoingOn, PhasesNamed DEF EndSend
    <3> QED
      BY <1>3, <3>1 DEF EndSend, TypeOK
  <2>2. CASE ~IsMessage(reader[c].frame)
    <3>1. reader' \in [Clients -> Reader] /\ FramesStored' /\ RoutedIsMessage'
      BY <1>3, <2>2, GoingOn, PhasesNamed DEF EndSend
    <3> QED
      BY <1>3, <3>1 DEF EndSend, TypeOK
  <2> QED
    BY <2>1, <2>2
<1>4. CASE PushIfOffline(c)
  <2>1. reader' \in [Clients -> Reader] /\ FramesStored' /\ RoutedIsMessage'
    BY <1>4, GoingOn, PhasesNamed DEF PushIfOffline
  <2>2. reader[c].frame.id \in 1 .. Len(messages)
    BY <1>4 DEF PushIfOffline, FramesStored, RoutedIsMessage, Stored, TypeOK
  <2> QED
    BY <1>4, <2>1, <2>2 DEF PushIfOffline, TypeOK
<1>5. CASE CloseQueue(c)
  <2>1. reader' \in [Clients -> Reader] /\ FramesStored' /\ RoutedIsMessage'
    BY <1>5, GoingOn, PhasesNamed DEF CloseQueue
  <2> QED
    BY <1>5, <2>1 DEF CloseQueue, TypeOK
<1>6. CASE Unregister(c)
  <2>1. reader' \in [Clients -> Reader] /\ FramesStored' /\ RoutedIsMessage'
    BY <1>6, GoingOn, PhasesNamed DEF Unregister
  <2> QED
    BY <1>6, <2>1 DEF Unregister, TypeOK
<1> QED
  BY <1>1, <1>2, <1>3, <1>4, <1>5, <1>6

\* What comes from outside: clients, failures, disconnections.
LEMMA TypeOutside ==
    ASSUME TypeInv, NEW c \in Clients,
           \/ Connect(c) \/ TakeMessage(c) \/ TakeReceipt(c) \/ Disconnect(c)
           \/ StoreFails(c) \/ MarkReadFails(c)
    PROVE  TypeInv'
<1> USE DEF TypeInv
<1>1. CASE Connect(c)
  <2>1. reader' \in [Clients -> Reader] /\ FramesStored' /\ RoutedIsMessage'
    BY <1>1, GoingOn, PhasesNamed DEF Connect
  <2> QED
    BY <1>1, <2>1 DEF Connect, TypeOK
<1>2. CASE TakeReceipt(c)
  <2> DEFINE r == [reader[c] EXCEPT !.pc = "marking", !.receipts = @ + 1]
  <2>1. r \in Reader /\ r.pc = "marking" /\ r.frame = reader[c].frame
    <3>1. reader[c] \in Reader /\ "marking" \in Phases
      BY PhasesNamed DEF TypeOK
    <3>2. reader[c].receipts + 1 \in 0 .. MaxReceipts
      <4>1. reader[c].receipts \in 0 .. MaxReceipts /\ reader[c].receipts < MaxReceipts
        BY <1>2, <3>1 DEF TakeReceipt, Reader
      <4> QED
        BY <4>1, ChatHubAssumption
    <3> DEFINE n == reader[c].receipts + 1
    <3>3. n \in 0 .. MaxReceipts /\ r = [reader[c] EXCEPT !.pc = "marking", !.receipts = n]
      BY <3>2
    <3> HIDE DEF n, r
    <3> QED
      BY <3>1, <3>3 DEF Reader
  <2>2. /\ reader' \in [Clients -> Reader] /\ reader'[c] = r
        /\ \A e \in Clients \ {c} : reader'[e] = reader[e]
    <3>1. reader' = [reader EXCEPT ![c] = r] /\ reader \in [Clients -> Reader]
      BY <1>2 DEF TakeReceipt, TypeOK
    <3> HIDE DEF r
    <3> QED
      BY <3>1, <2>1, OneReader
  <2>3. FramesStored' /\ RoutedIsMessage'
    <3> HIDE DEF r
    <3> QED
      BY <1>2, <2>1, <2>2 DEF TakeReceipt, FramesStored, RoutedIsMessage, Stored, At
  <2> QED
    BY <1>2, <2>2, <2>3 DEF TakeReceipt, TypeOK
<1>3. CASE TakeMessage(c) \/ Disconnect(c) \/ StoreFails(c) \/ MarkReadFails(c)
  <2>1. UNCHANGED <<hub, writer, outbound, closed, messages, received, pushed>>
    BY <1>3 DEF TakeMessage, Disconnect, StoreFails, MarkReadFails
  <2>2. PICK p \in {"storing", "closing", "reading"} : Goto(c, p)
    BY <1>3 DEF TakeMessage, Disconnect, StoreFails, MarkReadFails
  <2>3. reader' \in [Clients -> Reader] /\ FramesStored' /\ RoutedIsMessage'
    BY <2>1, <2>2, GoingOn, PhasesNamed
  <2> QED
    BY <2>1, <2>3 DEF TypeOK
<1> QED
  BY <1>1, <1>2, <1>3

\* The write loop.
LEMMA TypeWriter ==
    ASSUME TypeInv, NEW c \in Clients, Pump(c) \/ WriteFails(c)
    PROVE  TypeInv'
<1> USE DEF TypeInv
<1>1. UNCHANGED <<hub, reader, closed, messages, pushed>>
  BY DEF Pump, Write, StopWriter, WriteFails
<1>2. FramesStored' /\ RoutedIsMessage'
  BY <1>1 DEF FramesStored, RoutedIsMessage, Stored, At
<1>3. CASE Write(c) \/ WriteFails(c)
  <2>1. outbound[c] \in Seq(Frames) /\ outbound[c] # <<>> /\ Len(outbound[c]) <= Capacity
    BY <1>3 DEF Write, WriteFails, TypeOK
  <2>2. /\ Head(outbound[c]) \in Frames /\ Tail(outbound[c]) \in Seq(Frames)
        /\ Len(Tail(outbound[c])) <= Capacity
    BY <2>1, ChatHubAssumption
  <2>3. outbound' \in [Clients -> Seq(Frames)] /\ \A d \in Clients : Len(outbound'[d]) <= Capacity
    <3>1. outbound' = [outbound EXCEPT ![c] = Tail(outbound[c])]
      BY <1>3 DEF Write, WriteFails
    <3> QED
      BY <2>2, <3>1 DEF TypeOK
  <2>4. received' \in [Clients -> Seq(Frames)]
    <3>1. \/ received' = received
          \/ received' = [received EXCEPT ![c] = Append(received[c], Head(outbound[c]))]
      BY <1>3 DEF Write, WriteFails
    <3>2. received \in [Clients -> Seq(Frames)] /\ Append(received[c], Head(outbound[c])) \in Seq(Frames)
      BY <2>2 DEF TypeOK
    <3> QED
      BY <3>1, <3>2
  <2>5. writer' \in [Clients -> {"off", "running", "stopped"}]
    BY <1>3 DEF Write, WriteFails, TypeOK
  <2> QED
    BY <1>1, <1>2, <2>3, <2>4, <2>5 DEF TypeOK
<1>4. CASE StopWriter(c)
  BY <1>1, <1>2, <1>4 DEF StopWriter, TypeOK
<1> QED
  BY <1>3, <1>4 DEF Pump

\* Every step keeps the types.
LEMMA TypeStep == TypeInv /\ [Next]_vars => TypeInv'
<1> SUFFICES ASSUME TypeInv, [Next]_vars PROVE TypeInv'
  OBVIOUS
<1>1. CASE UNCHANGED vars
  BY <1>1 DEF vars, TypeInv, TypeOK, FramesStored, RoutedIsMessage, Stored, At
<1>2. CASE Next
  BY <1>2, TypeHandle, TypeRoute, TypeOutside, TypeWriter DEF Next, Handle
<1> QED
  BY <1>1, <1>2

\* The types at the start.
LEMMA TypeInit == Init => TypeInv
<1> SUFFICES ASSUME Init PROVE TypeInv
  OBVIOUS
<1>1. \A c \in Clients : /\ reader[c] \in Reader /\ reader[c].pc = "off"
                         /\ reader[c].frame = ReadFrame(Owner[c])
  <2> SUFFICES ASSUME NEW c \in Clients
               PROVE  [pc |-> "off", frame |-> ReadFrame(Owner[c]), rest |-> {}, receipts |-> 0]
                         \in Reader
    BY DEF Init
  <2>1. ReadFrame(Owner[c]) \in Frames /\ "off" \in Phases
    BY FrameKinds, ChatHubAssumption DEF Phases
  <2> QED
    BY <2>1, ChatHubAssumption DEF Reader
<1>2. reader \in [Clients -> Reader]
  BY <1>1 DEF Init
<1>3. FramesStored /\ RoutedIsMessage
  BY <1>1, FrameKinds, ChatHubAssumption DEF FramesStored, RoutedIsMessage, Stored, At
<1> QED
  BY <1>2, <1>3, ChatHubAssumption DEF Init, TypeInv, TypeOK

\* Every variable keeps its type: no queue exceeds its capacity, and a push is
\* sent for stored messages only.
THEOREM TypeCorrect == Spec => []TypeOK
<1>1. TypeInv => TypeOK
  BY DEF TypeInv
<1> QED
  BY <1>1, TypeInit, TypeStep, PTL DEF Spec

-----------------------------------------------------------------------------
(* What is read is a beginning of what was sent.                           *)

\* Only Store and MarkRead touch the messages: one adds an unread message, the
\* other marks all that are of others than the reader.
LEMMA MessagesMove ==
    ASSUME TypeInv, [Next]_vars
    PROVE  \/ UNCHANGED messages
           \/ \E c \in Clients : messages' = Append(messages, [from |-> c, read |-> FALSE])
           \/ \E c \in Clients :
                 LET S == {n \in DOMAIN messages : Owner[messages[n].from] # Owner[c]}
                 IN  messages' = [n \in DOMAIN messages |->
                                    IF n \in S THEN [messages[n] EXCEPT !.read = TRUE]
                                               ELSE messages[n]]
<1>1. CASE UNCHANGED vars
  BY <1>1 DEF vars
<1>2. ASSUME NEW c \in Clients, Store(c) \/ MarkRead(c)
      PROVE  \/ messages' = Append(messages, [from |-> c, read |-> FALSE])
             \/ LET S == {n \in DOMAIN messages : Owner[messages[n].from] # Owner[c]}
                IN  messages' = [n \in DOMAIN messages |->
                                   IF n \in S THEN [messages[n] EXCEPT !.read = TRUE]
                                              ELSE messages[n]]
  BY <1>2 DEF Store, MarkRead
<1>3. ASSUME NEW c \in Clients,
             \/ Connect(c) \/ TakeMessage(c) \/ TakeReceipt(c) \/ Disconnect(c)
             \/ StoreFails(c) \/ MarkReadFails(c) \/ Pump(c) \/ WriteFails(c)
             \/ Echo(c) \/ StartSend(c) \/ (\E d \in Clients : SendTo(c, d) \/ Panic(c, d))
             \/ EndSend(c) \/ PushIfOffline(c) \/ CloseQueue(c) \/ Unregister(c)
      PROVE  UNCHANGED messages
  BY <1>3 DEF Connect, TakeMessage, TakeReceipt, Disconnect, StoreFails, MarkReadFails,
              Pump, Write, StopWriter, WriteFails, Echo, StartSend, SendTo, Panic, EndSend,
              PushIfOffline, CloseQueue, Unregister
<1> QED
  BY <1>1, <1>2, <1>3 DEF Next, Handle

\* A message never goes away, and keeps its number.
LEMMA MessagesStay ==
    ASSUME TypeInv, [Next]_vars
    PROVE  DOMAIN messages \subseteq DOMAIN messages'
<1>1. messages \in Seq(Message)
  BY DEF TypeInv, TypeOK
<1>2. ASSUME NEW c \in Clients, messages' = Append(messages, [from |-> c, read |-> FALSE])
      PROVE  DOMAIN messages \subseteq DOMAIN messages'
  BY <1>1, <1>2
<1> QED
  BY <1>1, <1>2, MessagesMove, Marked

\* What is marked is marked up to the end, and what is added is unread.
LEMMA PrefixStep == TypeInv /\ ReadIsPrefix /\ [Next]_vars => ReadIsPrefix'
<1> SUFFICES ASSUME TypeInv, ReadIsPrefix, [Next]_vars,
                    NEW m \in DOMAIN messages', NEW n \in DOMAIN messages', m < n,
                    Owner[messages'[m].from] = Owner[messages'[n].from], messages'[n].read
             PROVE  messages'[m].read
  BY DEF ReadIsPrefix
<1>1. messages \in Seq(Message)
  BY DEF TypeInv, TypeOK
<1>2. CASE UNCHANGED messages
  BY <1>2 DEF ReadIsPrefix
<1>3. ASSUME NEW c \in Clients, messages' = Append(messages, [from |-> c, read |-> FALSE])
      PROVE  messages'[m].read
  <2>1. \A i \in DOMAIN messages' : i \in DOMAIN messages \/ i = Len(messages) + 1
    BY <1>1, <1>3
  <2>2. /\ \A i \in DOMAIN messages : messages'[i] = messages[i] /\ i <= Len(messages)
        /\ ~messages'[Len(messages) + 1].read
    BY <1>1, <1>3
  <2>3. n \in DOMAIN messages
    BY <2>1, <2>2
  <2>4. m \in DOMAIN messages
    BY <1>1, <2>1, <2>2, <2>3
  <2> QED
    BY <2>2, <2>3, <2>4 DEF ReadIsPrefix
<1>4. ASSUME NEW c \in Clients, NEW S,
             S = {i \in DOMAIN messages : Owner[messages[i].from] # Owner[c]},
             messages' = [i \in DOMAIN messages |->
                            IF i \in S THEN [messages[i] EXCEPT !.read = TRUE] ELSE messages[i]]
      PROVE  messages'[m].read
  <2>1. /\ DOMAIN messages' = DOMAIN messages
        /\ \A i \in DOMAIN messages :
              /\ messages'[i].from = messages[i].from
              /\ messages'[i].read = IF i \in S THEN TRUE ELSE messages[i].read
    BY <1>1, <1>4, Marked
  <2>2. m \in S <=> n \in S
    BY <2>1, <1>4
  <2>3. CASE n \in S
    BY <2>1, <2>2, <2>3
  <2>4. CASE n \notin S
    BY <2>1, <2>2, <2>4 DEF ReadIsPrefix
  <2> QED
    BY <2>3, <2>4
<1> QED
  BY <1>2, <1>3, <1>4, MessagesMove

\* However receipts and messages of any number of connections overlap, nothing
\* stays unread behind a message that was read (service/chat.go:155-162).
THEOREM ReadInOrder == Spec => []ReadIsPrefix
<1>1. Init => ReadIsPrefix
  BY DEF Init, ReadIsPrefix
<1> QED
  BY <1>1, TypeInit, TypeStep, PrefixStep, PTL DEF Spec

-----------------------------------------------------------------------------
(* The conversation stays between its participants.                        *)

\* A read loop that goes on aims at whom it aimed before.
LEMMA GoingOnMoves ==
    ASSUME TypeInv, NEW c \in Clients, NEW phase, Goto(c, phase)
    PROVE  /\ reader'[c].pc = phase /\ reader'[c].rest = reader[c].rest
           /\ \A d \in Clients \ {c} : reader'[d] = reader[d]
<1>1. reader \in [Clients -> Reader] /\ reader[c] \in Reader
  BY DEF TypeInv, TypeOK
<1>2. /\ reader'[c] = [reader[c] EXCEPT !.pc = phase]
      /\ \A d \in Clients \ {c} : reader'[d] = reader[d]
  BY <1>1 DEF Goto
<1> QED
  BY <1>1, <1>2 DEF Reader

\* Who takes a frame is a participant, and so is everybody Send aims at.
LEMMA HandlersStep ==
    ASSUME ConversationInv, [Next]_vars
    PROVE  HandlersTakePart' /\ TargetsTakePart'
<1> USE DEF ConversationInv
<1> DEFINE Fine(c) == /\ reader'[c].pc \in Handling => IsParticipant(c)
                      /\ \A d \in reader'[c].rest : IsParticipant(d)
                      /\ \A d \in Clients \ {c} : reader'[d] = reader[d]
<1>1. CASE UNCHANGED reader
  BY <1>1 DEF HandlersTakePart, TargetsTakePart, IsParticipant
<1>2. ASSUME NEW c \in Clients, Fine(c)
      PROVE  HandlersTakePart' /\ TargetsTakePart'
  BY <1>2 DEF HandlersTakePart, TargetsTakePart, IsParticipant
<1>3. ASSUME NEW c \in Clients
      PROVE  /\ reader[c] \in Reader /\ reader \in [Clients -> Reader]
             /\ reader[c].pc \in Handling => IsParticipant(c)
             /\ \A d \in reader[c].rest : IsParticipant(d)
  BY DEF TypeInv, TypeOK, HandlersTakePart, TargetsTakePart
<1>4. ASSUME NEW c \in Clients, NEW p, Goto(c, p), p \in Handling => IsParticipant(c)
      PROVE  Fine(c)
  BY <1>3, <1>4, GoingOnMoves
<1>5. ASSUME NEW c \in Clients, TakeMessage(c) \/ Echo(c) \/ EndSend(c)
      PROVE  Fine(c)
  <2>1. IsParticipant(c)
    BY <1>3, <1>5 DEF TakeMessage, Echo, EndSend, At, Handling
  <2>2. \E p : Goto(c, p)
    BY <1>5 DEF TakeMessage, Echo, EndSend
  <2> QED
    BY <1>4, <2>1, <2>2
<1>6. ASSUME NEW c \in Clients,
             \/ Connect(c) \/ Disconnect(c) \/ StoreFails(c) \/ MarkReadFails(c)
             \/ PushIfOffline(c) \/ CloseQueue(c) \/ Unregister(c)
             \/ \E d \in Clients : Panic(c, d)
      PROVE  Fine(c)
  <2>1. PICK p \in {"reading", "closing", "leaving", "gone"} : Goto(c, p)
    BY <1>6 DEF Connect, Disconnect, StoreFails, MarkReadFails, PushIfOffline, CloseQueue,
                Unregister, Panic
  <2>2. p \notin Handling
    BY DEF Handling
  <2> QED
    BY <1>4, <2>1, <2>2
<1>7. ASSUME NEW c \in Clients, Store(c) \/ MarkRead(c) \/ TakeReceipt(c)
      PROVE  Fine(c)
  <2>1. IsParticipant(c)
    BY <1>3, <1>7 DEF Store, MarkRead, TakeReceipt, At, Handling
  <2>2. reader'[c].rest = reader[c].rest /\ \A d \in Clients \ {c} : reader'[d] = reader[d]
    BY <1>3, <1>7 DEF Store, MarkRead, TakeReceipt, Reader
  <2> QED
    BY <1>3, <2>1, <2>2
<1>8. ASSUME NEW c \in Clients, StartSend(c)
      PROVE  Fine(c)
  <2>1. IsParticipant(c)
    BY <1>3, <1>8 DEF StartSend, At, Handling
  <2>2. /\ reader'[c].rest = Connections(Recipient(c))
        /\ \A d \in Clients \ {c} : reader'[d] = reader[d]
    BY <1>3, <1>8 DEF StartSend, Reader
  <2>3. \A d \in Connections(Recipient(c)) : IsParticipant(d)
    BY RecipientTakesPart DEF Connections, IsParticipant
  <2> QED
    BY <2>1, <2>2, <2>3
<1>9. ASSUME NEW c \in Clients, NEW d \in Clients, SendTo(c, d)
      PROVE  Fine(c)
  <2>1. IsParticipant(c)
    BY <1>3, <1>9 DEF SendTo, At, Handling
  <2>2. /\ reader'[c].rest = reader[c].rest \ {d}
        /\ \A e \in Clients \ {c} : reader'[e] = reader[e]
    BY <1>3, <1>9 DEF SendTo, Reader
  <2> QED
    BY <1>3, <2>1, <2>2
<1>10. ASSUME NEW c \in Clients, Pump(c) \/ WriteFails(c)
       PROVE  UNCHANGED reader
  BY <1>10 DEF Pump, Write, StopWriter, WriteFails
<1>11. CASE UNCHANGED vars
  BY <1>1, <1>11 DEF vars
<1> HIDE DEF Fine
<1> QED
  BY <1>1, <1>2, <1>5, <1>6, <1>7, <1>8, <1>9, <1>10, <1>11 DEF Next, Handle

\* A frame comes to a queue from a read loop that has it in hand, and to a
\* socket from the queue.
LEMMA QueuesStep ==
    ASSUME ConversationInv, [Next]_vars
    PROVE  QueuesTakePart' /\ QueuesStored'
<1> USE DEF ConversationInv
<1> DEFINE Fine(d) ==
             /\ outbound'[d] # <<>> \/ received'[d] # <<>> => IsParticipant(d)
             /\ \A i \in DOMAIN outbound'[d] : Stored(outbound'[d][i])
             /\ \A i \in DOMAIN received'[d] : Stored(received'[d][i])
<1>1. DOMAIN messages \subseteq DOMAIN messages'
  BY MessagesStay
<1>2. ASSUME \A d \in Clients : Fine(d)
      PROVE  QueuesTakePart' /\ QueuesStored'
  BY <1>1, <1>2 DEF QueuesTakePart, QueuesStored, Stored, IsParticipant
<1>3. \A d \in Clients :
         /\ outbound[d] # <<>> \/ received[d] # <<>> => IsParticipant(d)
         /\ \A i \in DOMAIN outbound[d] : Stored(outbound[d][i])
         /\ \A i \in DOMAIN received[d] : Stored(received[d][i])
  BY DEF QueuesTakePart, QueuesStored
<1>4. outbound \in [Clients -> Seq(Frames)] /\ received \in [Clients -> Seq(Frames)]
      /\ \A d \in Clients : Len(outbound[d]) <= Capacity
  BY DEF TypeInv, TypeOK
<1>5. ASSUME UNCHANGED <<outbound, received>>
      PROVE  \A d \in Clients : Fine(d)
  BY <1>3, <1>5
<1>6. ASSUME NEW c \in Clients, NEW d \in Clients, Offer(d, reader[c].frame),
             IsParticipant(d), UNCHANGED received
      PROVE  \A e \in Clients : Fine(e)
  <2>1. Stored(reader[c].frame) /\ reader[c].frame \in Frames
    BY DEF TypeInv, TypeOK, FramesStored, Reader
  <2>2. /\ \A e \in Clients \ {d} : outbound'[e] = outbound[e]
        /\ \A i \in DOMAIN outbound'[d] :
              outbound'[d][i] = reader[c].frame
                 \/ (i \in DOMAIN outbound[d] /\ outbound'[d][i] = outbound[d][i])
    BY <1>4, <1>6, <2>1, OfferedQueue DEF Offer
  <2> QED
    BY <1>3, <1>6, <2>1, <2>2
<1>7. ASSUME NEW c \in Clients, Write(c) \/ WriteFails(c)
      PROVE  \A d \in Clients : Fine(d)
  <2>1. /\ outbound[c] \in Seq(Frames) /\ outbound[c] # <<>> /\ received[c] \in Seq(Frames)
        /\ outbound' = [outbound EXCEPT ![c] = Tail(outbound[c])]
        /\ \/ received' = received
           \/ received' = [received EXCEPT ![c] = Append(received[c], Head(outbound[c]))]
    BY <1>4, <1>7 DEF Write, WriteFails
  <2>2. Stored(Head(outbound[c])) /\ IsParticipant(c)
    <3>1. 1 \in DOMAIN outbound[c] /\ Head(outbound[c]) = outbound[c][1]
      BY <2>1
    <3> QED
      BY <1>3, <2>1, <3>1
  <2>3. \A i \in DOMAIN Tail(outbound[c]) : Stored(Tail(outbound[c])[i])
    BY <1>3, <2>1
  <2>4. \A i \in DOMAIN Append(received[c], Head(outbound[c])) :
           Stored(Append(received[c], Head(outbound[c]))[i])
    BY <1>3, <2>1, <2>2
  <2>5. Fine(c)
    BY <1>3, <1>4, <2>1, <2>2, <2>3, <2>4
  <2>6. \A d \in Clients \ {c} : outbound'[d] = outbound[d] /\ received'[d] = received[d]
    BY <1>4, <2>1
  <2> QED
    BY <1>3, <2>5, <2>6
<1>8. ASSUME NEW c \in Clients, Echo(c) \/ \E d \in Clients : SendTo(c, d)
      PROVE  \A d \in Clients : Fine(d)
  <2>1. \A d \in reader[c].rest : IsParticipant(d)
    BY DEF TargetsTakePart
  <2>2. reader[c].pc \in Handling => IsParticipant(c)
    BY DEF HandlersTakePart
  <2>3. CASE Echo(c)
    <3>1. IsParticipant(c)
      BY <2>2, <2>3 DEF Echo, At, Handling
    <3> QED
      BY <1>6, <2>3, <3>1 DEF Echo
  <2>4. ASSUME NEW d \in Clients, SendTo(c, d)
        PROVE  \A e \in Clients : Fine(e)
    <3>1. IsParticipant(d)
      BY <2>1, <2>4 DEF SendTo
    <3> QED
      BY <1>6, <2>4, <3>1 DEF SendTo
  <2> QED
    BY <1>8, <2>3, <2>4
<1>9. ASSUME NEW c \in Clients,
             \/ Connect(c) \/ TakeMessage(c) \/ TakeReceipt(c) \/ Disconnect(c)
             \/ StoreFails(c) \/ MarkReadFails(c) \/ StopWriter(c)
             \/ Store(c) \/ MarkRead(c) \/ StartSend(c) \/ (\E d \in Clients : Panic(c, d))
             \/ EndSend(c) \/ PushIfOffline(c) \/ CloseQueue(c) \/ Unregister(c)
      PROVE  UNCHANGED <<outbound, received>>
  BY <1>9 DEF Connect, TakeMessage, TakeReceipt, Disconnect, StoreFails, MarkReadFails,
              StopWriter, Store, MarkRead, StartSend, Panic, EndSend, PushIfOffline,
              CloseQueue, Unregister
<1>10. CASE UNCHANGED vars
  <2>1. UNCHANGED <<outbound, received>>
    BY <1>10 DEF vars
  <2> QED
    BY <1>2, <1>5, <2>1
<1> HIDE DEF Fine
<1>11. CASE Next
  BY <1>2, <1>5, <1>7, <1>8, <1>9, <1>11 DEF Next, Handle, Pump
<1> QED
  BY <1>10, <1>11

\* At the start nothing is on the way.
LEMMA ConversationInit == Init => ConversationInv
<1> SUFFICES ASSUME Init PROVE ConversationInv
  OBVIOUS
<1>1. \A c \in Clients : /\ reader[c].pc = "off" /\ reader[c].rest = {}
                         /\ outbound[c] = <<>> /\ received[c] = <<>>
  BY DEF Init
<1>2. HandlersTakePart /\ TargetsTakePart /\ QueuesTakePart /\ QueuesStored
  BY <1>1 DEF HandlersTakePart, TargetsTakePart, QueuesTakePart, QueuesStored, Handling
<1> QED
  BY <1>2, TypeInit DEF ConversationInv

\* Types, aims and queues together are kept by every step.
LEMMA ConversationStep == ConversationInv /\ [Next]_vars => ConversationInv'
  BY TypeStep, HandlersStep, QueuesStep DEF ConversationInv

\* Nothing about a conversation reaches anybody else, and nothing is sent that
\* was not stored (ws/client.go:117-151), whatever fails and whoever leaves.
THEOREM Confidential == Spec => []OnlyTheConversation
<1>1. ConversationInv => OnlyTheConversation
  <2> SUFFICES ASSUME ConversationInv, NEW c \in Clients, received[c] \o outbound[c] # <<>>
               PROVE  /\ Owner[c] \in Participants
                      /\ \A i \in DOMAIN (received[c] \o outbound[c]) :
                            Stored((received[c] \o outbound[c])[i])
    BY DEF OnlyTheConversation, Stored
  <2>1. received[c] \in Seq(Frames) /\ outbound[c] \in Seq(Frames)
    BY DEF ConversationInv, TypeInv, TypeOK
  <2>2. outbound[c] # <<>> \/ received[c] # <<>>
    BY <2>1
  <2>3. Owner[c] \in Participants
    BY <2>2 DEF ConversationInv, QueuesTakePart, IsParticipant
  <2>4. /\ \A i \in DOMAIN outbound[c] : Stored(outbound[c][i])
        /\ \A i \in DOMAIN received[c] : Stored(received[c][i])
    BY DEF ConversationInv, QueuesStored
  <2>5. ASSUME NEW i \in DOMAIN (received[c] \o outbound[c])
        PROVE  \/ /\ i \in DOMAIN received[c]
                  /\ (received[c] \o outbound[c])[i] = received[c][i]
               \/ /\ i - Len(received[c]) \in DOMAIN outbound[c]
                  /\ (received[c] \o outbound[c])[i] = outbound[c][i - Len(received[c])]
    BY <2>1, Concatenated
  <2> QED
    BY <2>3, <2>4, <2>5
<1> QED
  BY <1>1, ConversationInit, ConversationStep, PTL DEF Spec

-----------------------------------------------------------------------------
(* Each connection gets the messages of another in their order.            *)

\* What has been written to the socket of a connection, and what is to be.
Delivery(d) == received[d] \o outbound[d]

\* The message of a frame is by c.
FrameOf(f, rows, c) == IsMessage(f) /\ rows[f.id].from = c

\* Of each sender, the messages of s come in their order.
InOrder(s, rows) ==
    \A i, j \in DOMAIN s : \A c \in Clients :
        (i < j /\ FrameOf(s[i], rows, c) /\ FrameOf(s[j], rows, c)) => s[i].id < s[j].id

\* What s has of the messages of c comes before number n.
Before(s, rows, c, n) == \A i \in DOMAIN s : FrameOf(s[i], rows, c) => s[i].id < n

\* What a read loop has in hand is its latest message, and is not delivered yet
\* where it is to go: to itself when it echoes, and then to connections of others.
Latest(c) ==
    /\ At(c, "echoing") =>
          /\ FrameOf(reader[c].frame, messages, c)
          /\ \A d \in Clients : Before(Delivery(d), messages, c, reader[c].frame.id)
    /\ At(c, "routing") /\ IsMessage(reader[c].frame) =>
          /\ FrameOf(reader[c].frame, messages, c)
          /\ \A d \in Clients :
                Owner[d] # Owner[c] => Before(Delivery(d), messages, c, reader[c].frame.id)
    /\ At(c, "sending") /\ IsMessage(reader[c].frame) =>
          /\ FrameOf(reader[c].frame, messages, c)
          /\ \A d \in reader[c].rest :
                d \in Clients /\ Owner[d] # Owner[c]
                  /\ Before(Delivery(d), messages, c, reader[c].frame.id)

FifoInv ==
    /\ \A d \in Clients : InOrder(Delivery(d), messages)
    /\ \A c \in Clients : Latest(c)

\* t has nothing but what s has, in the order of s.
Thinner(s, t) ==
    /\ \A i \in DOMAIN t : \E a \in DOMAIN s : t[i] = s[a]
    /\ \A i, j \in DOMAIN t : i < j => \E a, b \in DOMAIN s : a < b /\ t[i] = s[a] /\ t[j] = s[b]

\* What is taken away puts nothing out of order.
LEMMA ThinnerIsInOrder ==
    ASSUME NEW s, NEW t, NEW rows, Thinner(s, t)
    PROVE  /\ InOrder(s, rows) => InOrder(t, rows)
           /\ \A c, n : Before(s, rows, c, n) => Before(t, rows, c, n)
  BY DEF Thinner, InOrder, Before

\* What is added at the end is in order when it is later than what is there.
LEMMA AppendIsInOrder ==
    ASSUME NEW s \in Seq(Frames), NEW f \in Frames, NEW rows, InOrder(s, rows),
           \A c \in Clients : FrameOf(f, rows, c) => Before(s, rows, c, f.id)
    PROVE  InOrder(Append(s, f), rows)
<1>1. /\ DOMAIN Append(s, f) = 1 .. Len(s) + 1 /\ DOMAIN s = 1 .. Len(s) /\ Len(s) \in Nat
      /\ \A i \in DOMAIN s : Append(s, f)[i] = s[i]
      /\ Append(s, f)[Len(s) + 1] = f
  OBVIOUS
<1>2. PICK t : t = Append(s, f)
  OBVIOUS
<1>3. ASSUME NEW i \in DOMAIN t, NEW j \in DOMAIN t, i < j, NEW c \in Clients,
             FrameOf(t[i], rows, c), FrameOf(t[j], rows, c)
      PROVE  t[i].id < t[j].id
  <2>1. i \in DOMAIN s /\ t[i] = s[i]
    BY <1>1, <1>2, <1>3
  <2>2. (j \in DOMAIN s /\ t[j] = s[j]) \/ t[j] = f
    BY <1>1, <1>2
  <2>3. CASE j \in DOMAIN s /\ t[j] = s[j]
    BY <1>3, <2>1, <2>3 DEF InOrder
  <2>4. CASE t[j] = f
    BY <1>3, <2>1, <2>4 DEF Before
  <2> QED
    BY <2>2, <2>3, <2>4
<1> QED
  BY <1>2, <1>3 DEF InOrder

\* What is added at the end comes before n when it does.
LEMMA AppendIsBefore ==
    ASSUME NEW s \in Seq(Frames), NEW f \in Frames, NEW rows, NEW c, NEW n,
           Before(s, rows, c, n), FrameOf(f, rows, c) => f.id < n
    PROVE  Before(Append(s, f), rows, c, n)
<1>1. /\ DOMAIN Append(s, f) = 1 .. Len(s) + 1 /\ DOMAIN s = 1 .. Len(s) /\ Len(s) \in Nat
      /\ \A i \in DOMAIN s : Append(s, f)[i] = s[i]
      /\ Append(s, f)[Len(s) + 1] = f
  OBVIOUS
<1>2. PICK t : t = Append(s, f)
  OBVIOUS
<1>3. \A i \in DOMAIN t : (i \in DOMAIN s /\ t[i] = s[i]) \/ t[i] = f
  BY <1>1, <1>2
<1> QED
  BY <1>2, <1>3 DEF Before

\* What is written to the socket was the first on the queue.
LEMMA WrittenIsDelivered ==
    ASSUME NEW S, NEW s \in Seq(S), NEW t \in Seq(S), t # <<>>
    PROVE  Append(s, Head(t)) \o Tail(t) = s \o t
<1>1. PICK a, b : a = Append(s, Head(t)) \o Tail(t) /\ b = s \o t
  OBVIOUS
<1>2. /\ Len(t) \in Nat /\ Len(t) > 0 /\ Len(s) \in Nat /\ Head(t) \in S /\ Tail(t) \in Seq(S)
      /\ Len(Tail(t)) = Len(t) - 1 /\ Append(s, Head(t)) \in Seq(S) /\ Len(Append(s, Head(t))) = Len(s) + 1
  OBVIOUS
<1>3. a \in Seq(S) /\ b \in Seq(S) /\ Len(a) = Len(s) + Len(t) /\ Len(b) = Len(s) + Len(t)
  BY <1>1, <1>2
<1>4. ASSUME NEW i \in 1 .. Len(s) + Len(t) PROVE a[i] = b[i]
  <2>1. CASE i <= Len(s)
    BY <1>1, <1>2, <2>1
  <2>2. CASE i = Len(s) + 1
    BY <1>1, <1>2, <2>2
  <2>3. CASE i > Len(s) + 1
    <3>1. a[i] = Tail(t)[i - (Len(s) + 1)]
      BY <1>1, <1>2, <2>3
    <3>2. i - (Len(s) + 1) \in 1 .. Len(t) - 1
      BY <1>2, <2>3
    <3>3. Tail(t)[i - (Len(s) + 1)] = t[i - (Len(s) + 1) + 1]
      BY <1>2, <3>2
    <3>4. b[i] = t[i - Len(s)]
      BY <1>1, <1>2, <2>3
    <3>5. i - (Len(s) + 1) + 1 = i - Len(s)
      BY <1>2
    <3> QED
      BY <3>1, <3>3, <3>4, <3>5
  <2> QED
    BY <1>2, <2>1, <2>2, <2>3
<1>5. DOMAIN a = 1 .. Len(s) + Len(t) /\ DOMAIN b = 1 .. Len(s) + Len(t)
  BY <1>3
<1>6. a = [i \in 1 .. Len(s) + Len(t) |-> a[i]] /\ b = [i \in 1 .. Len(s) + Len(t) |-> b[i]]
  BY <1>3
<1> QED
  BY <1>1, <1>4, <1>6

\* What is not written is the first on the queue.
LEMMA DroppedIsThinner ==
    ASSUME NEW S, NEW s \in Seq(S), NEW t \in Seq(S), t # <<>>
    PROVE  Thinner(s \o t, s \o Tail(t))
<1>1. PICK a, b : a = s \o Tail(t) /\ b = s \o t
  OBVIOUS
<1>2. /\ Len(t) \in Nat /\ Len(t) > 0 /\ Len(s) \in Nat /\ Tail(t) \in Seq(S)
      /\ Len(Tail(t)) = Len(t) - 1
  OBVIOUS
<1>3. DOMAIN a = 1 .. Len(s) + Len(t) - 1 /\ DOMAIN b = 1 .. Len(s) + Len(t)
  BY <1>1, <1>2
<1>4. ASSUME NEW i \in DOMAIN a
      PROVE  \/ i <= Len(s) /\ i \in DOMAIN b /\ a[i] = b[i]
             \/ i > Len(s) /\ i + 1 \in DOMAIN b /\ a[i] = b[i + 1]
  <2>1. CASE i <= Len(s)
    BY <1>1, <1>2, <1>3, <2>1
  <2>2. CASE i > Len(s)
    <3>1. a[i] = Tail(t)[i - Len(s)]
      BY <1>1, <1>2, <1>3, <2>2
    <3>2. i - Len(s) \in 1 .. Len(t) - 1
      BY <1>2, <1>3, <2>2
    <3>3. Tail(t)[i - Len(s)] = t[i - Len(s) + 1]
      BY <1>2, <3>2
    <3>4. b[i + 1] = t[i + 1 - Len(s)]
      BY <1>1, <1>2, <1>3, <2>2
    <3> QED
      BY <1>2, <1>3, <2>2, <3>1, <3>3, <3>4
  <2> QED
    BY <1>2, <1>3, <2>1, <2>2
<1>5. ASSUME NEW i \in DOMAIN a, NEW j \in DOMAIN a, i < j
      PROVE  \E k, l \in DOMAIN b : k < l /\ a[i] = b[k] /\ a[j] = b[l]
  <2>1. i \in Nat /\ j \in Nat
    BY <1>2, <1>3
  <2>2. PICK k, l : /\ k = IF i <= Len(s) THEN i ELSE i + 1
                    /\ l = IF j <= Len(s) THEN j ELSE j + 1
    OBVIOUS
  <2>3. k < l
    BY <1>2, <1>5, <2>1, <2>2
  <2>4. k \in DOMAIN b /\ a[i] = b[k] /\ l \in DOMAIN b /\ a[j] = b[l]
    BY <1>2, <1>4, <2>1, <2>2
  <2> QED
    BY <2>3, <2>4
<1>6. \A i \in DOMAIN a : \E k \in DOMAIN b : a[i] = b[k]
  BY <1>4
<1>7. Thinner(b, a)
  BY <1>5, <1>6 DEF Thinner
<1> QED
  BY <1>1, <1>7

\* Whoever sent a message sent it, whatever is stored or marked since.
LEMMA SendersStand ==
    ASSUME ConversationInv, [Next]_vars
    PROVE  \A n \in DOMAIN messages : n \in DOMAIN messages' /\ messages'[n].from = messages[n].from
<1>0. messages \in Seq(Message) /\ TypeInv
  BY DEF ConversationInv, TypeInv, TypeOK
<1>1. ASSUME NEW c \in Clients, messages' = Append(messages, [from |-> c, read |-> FALSE])
      PROVE  \A n \in DOMAIN messages : n \in DOMAIN messages' /\ messages'[n].from = messages[n].from
  BY <1>0, <1>1
<1>2. ASSUME NEW S, messages' = [n \in DOMAIN messages |->
                                   IF n \in S THEN [messages[n] EXCEPT !.read = TRUE] ELSE messages[n]]
      PROVE  \A n \in DOMAIN messages : n \in DOMAIN messages' /\ messages'[n].from = messages[n].from
  BY <1>0, <1>2, Marked
<1> QED
  BY <1>0, <1>1, <1>2, MessagesMove

\* Deliveries are of stored frames.
LEMMA DeliveriesStored ==
    ASSUME ConversationInv, NEW d \in Clients
    PROVE  /\ Delivery(d) \in Seq(Frames) /\ received[d] \in Seq(Frames) /\ outbound[d] \in Seq(Frames)
           /\ \A i \in DOMAIN Delivery(d) : Stored(Delivery(d)[i])
<1>1. received[d] \in Seq(Frames) /\ outbound[d] \in Seq(Frames)
  BY DEF ConversationInv, TypeInv, TypeOK
<1>2. /\ \A i \in DOMAIN outbound[d] : Stored(outbound[d][i])
      /\ \A i \in DOMAIN received[d] : Stored(received[d][i])
  BY DEF ConversationInv, QueuesStored
<1>3. ASSUME NEW i \in DOMAIN (received[d] \o outbound[d]) PROVE Stored((received[d] \o outbound[d])[i])
  <2>1. \/ /\ i \in DOMAIN received[d]
           /\ (received[d] \o outbound[d])[i] = received[d][i]
        \/ /\ i - Len(received[d]) \in DOMAIN outbound[d]
           /\ (received[d] \o outbound[d])[i] = outbound[d][i - Len(received[d])]
    BY <1>1, Concatenated
  <2> QED
    BY <1>2, <2>1
<1>4. received[d] \o outbound[d] \in Seq(Frames)
  BY <1>1
<1> QED
  BY <1>1, <1>3, <1>4 DEF Delivery

\* So what is true of their order stays true of what is left of them.
LEMMA LeftInOrder ==
    ASSUME ConversationInv, FifoInv, [Next]_vars, \A d \in Clients : Thinner(Delivery(d), Delivery(d)')
    PROVE  /\ \A d \in Clients : InOrder(Delivery(d)', messages')
           /\ \A d \in Clients : \A c, n :
                 Before(Delivery(d), messages, c, n) => Before(Delivery(d)', messages', c, n)
           /\ \A c \in Clients : FrameOf(reader[c].frame, messages, c) => FrameOf(reader[c].frame, messages', c)
<1>1. \A f, c : Stored(f) => (FrameOf(f, messages', c) <=> FrameOf(f, messages, c))
  BY SendersStand DEF FrameOf, Stored
<1>2. \A d \in Clients : /\ InOrder(Delivery(d), messages')
                         /\ \A c, n : Before(Delivery(d), messages, c, n) => Before(Delivery(d), messages', c, n)
  BY <1>1, DeliveriesStored DEF FifoInv, InOrder, Before
<1>3. \A c \in Clients : Stored(reader[c].frame)
  BY DEF ConversationInv, TypeInv, FramesStored
<1> QED
  BY <1>1, <1>2, <1>3, ThinnerIsInOrder

\* A read loop that stays as it is, or has nothing to deliver.
LEMMA LatestStays ==
    ASSUME ConversationInv, FifoInv, [Next]_vars, \A d \in Clients : Thinner(Delivery(d), Delivery(d)'),
           NEW c \in Clients,
           reader'[c] = reader[c] \/ reader'[c].pc \notin {"echoing", "routing", "sending"}
    PROVE  Latest(c)'
<1>1. CASE reader'[c].pc \notin {"echoing", "routing", "sending"}
  BY <1>1 DEF Latest, At
<1>2. CASE reader'[c] = reader[c]
  BY <1>2, LeftInOrder DEF Latest, At, FifoInv
<1> QED
  BY <1>1, <1>2

\* Nothing taken away is a case of it.
LEMMA SameIsThinner == ASSUME NEW s PROVE Thinner(s, s)
  BY DEF Thinner

\* The steps that put nothing on a queue.
LEMMA FifoAside ==
    ASSUME ConversationInv, FifoInv, [Next]_vars, UNCHANGED <<received, outbound>>, NEW c \in Clients,
           \A d \in Clients \ {c} : reader'[d] = reader[d],
           Latest(c)' \/ reader'[c] = reader[c] \/ reader'[c].pc \notin {"echoing", "routing", "sending"}
    PROVE  FifoInv'
<1>1. \A d \in Clients : Thinner(Delivery(d), Delivery(d)')
  BY SameIsThinner DEF Delivery
<1> QED
  BY <1>1, LeftInOrder, LatestStays DEF FifoInv

\* A message that is stored is the latest, and delivered nowhere.
LEMMA FifoStore ==
    ASSUME ConversationInv, FifoInv, [Next]_vars, NEW c \in Clients, Store(c) PROVE FifoInv'
<1>0. /\ messages \in Seq(Message) /\ Len(messages) \in Nat /\ reader \in [Clients -> Reader]
      /\ UNCHANGED <<received, outbound>>
  BY DEF ConversationInv, TypeInv, TypeOK, Store
<1>1. PICK n : n = Len(messages) + 1
  OBVIOUS
<1>2. /\ reader'[c].pc = "echoing" /\ reader'[c].frame = MessageFrame(n)
      /\ \A d \in Clients \ {c} : reader'[d] = reader[d]
  BY <1>0, <1>1 DEF Store, Reader
<1>3. n \in DOMAIN messages' /\ messages'[n].from = c /\ DOMAIN messages = 1 .. Len(messages)
  BY <1>0, <1>1 DEF Store
<1>4. FrameOf(MessageFrame(n), messages', c) /\ MessageFrame(n).id = n
  BY <1>3 DEF FrameOf, MessageFrame, IsMessage
<1>5. ASSUME NEW d \in Clients PROVE Before(Delivery(d)', messages', c, n)
  <2>1. Delivery(d)' = Delivery(d)
    BY <1>0 DEF Delivery
  <2>2. \A i \in DOMAIN Delivery(d) : IsMessage(Delivery(d)[i]) => Delivery(d)[i].id \in 1 .. Len(messages)
    BY <1>3, DeliveriesStored DEF Stored
  <2> QED
    BY <1>0, <1>1, <2>1, <2>2 DEF Before, FrameOf
<1>6. Latest(c)'
  BY <1>2, <1>4, <1>5 DEF Latest, At
<1> QED
  BY <1>0, <1>2, <1>6, FifoAside

\* A receipt is no message: nothing is claimed of what is in hand.
LEMMA FifoMark ==
    ASSUME ConversationInv, FifoInv, [Next]_vars, NEW c \in Clients, MarkRead(c) PROVE FifoInv'
<1>0. reader \in [Clients -> Reader] /\ UNCHANGED <<received, outbound>> /\ Owner[c] \in Users
  BY ChatHubAssumption DEF ConversationInv, TypeInv, TypeOK, MarkRead
<1>1. /\ reader'[c].pc = "routing" /\ reader'[c].frame = ReadFrame(Owner[c])
      /\ \A d \in Clients \ {c} : reader'[d] = reader[d]
  BY <1>0 DEF MarkRead, Reader
<1>2. Latest(c)'
  BY <1>0, <1>1, FrameKinds DEF Latest, At
<1> QED
  BY <1>0, <1>1, <1>2, FifoAside

\* Send aims at connections of the other user, where the frame is not yet.
LEMMA FifoStart ==
    ASSUME ConversationInv, FifoInv, [Next]_vars, NEW c \in Clients, StartSend(c) PROVE FifoInv'
<1>0. /\ reader \in [Clients -> Reader] /\ UNCHANGED <<received, outbound, messages>>
      /\ hub \subseteq Clients /\ At(c, "routing")
  BY DEF ConversationInv, TypeInv, TypeOK, StartSend
<1>1. /\ reader'[c].pc = "sending" /\ reader'[c].frame = reader[c].frame
      /\ reader'[c].rest = Connections(Recipient(c))
      /\ \A d \in Clients \ {c} : reader'[d] = reader[d]
  BY <1>0 DEF StartSend, Reader
<1>2. Recipient(c) # Owner[c]
  <2>1. PICK u, v \in Users : u # v /\ Participants = {u, v}
    BY ChatHubAssumption
  <2>2. \E w \in Participants : w # Owner[c]
    BY <2>1
  <2> QED
    BY <2>2 DEF Recipient
<1>3. \A d \in Connections(Recipient(c)) : d \in Clients /\ Owner[d] # Owner[c]
  BY <1>0, <1>2 DEF Connections
<1>4. \A d \in Clients : Delivery(d)' = Delivery(d)
  BY <1>0 DEF Delivery
<1>5. Latest(c)
  BY DEF FifoInv
<1>6. Latest(c)'
  BY <1>0, <1>1, <1>3, <1>4, <1>5 DEF Latest, At
<1> QED
  BY <1>0, <1>1, <1>6, FifoAside

\* What is added to a queue is added to the end of what is delivered.
LEMMA AppendedDelivery ==
    ASSUME NEW S, NEW s \in Seq(S), NEW t \in Seq(S), NEW f \in S
    PROVE  s \o Append(t, f) = Append(s \o t, f)
<1>1. PICK a, b : a = s \o Append(t, f) /\ b = Append(s \o t, f)
  OBVIOUS
<1>2. /\ Len(s) \in Nat /\ Len(t) \in Nat /\ s \o t \in Seq(S) /\ Append(t, f) \in Seq(S)
      /\ Len(s \o t) = Len(s) + Len(t) /\ Len(Append(t, f)) = Len(t) + 1
  OBVIOUS
<1>3. a \in Seq(S) /\ b \in Seq(S) /\ Len(a) = Len(s) + Len(t) + 1 /\ Len(b) = Len(s) + Len(t) + 1
  BY <1>1, <1>2
<1>4. ASSUME NEW i \in 1 .. Len(s) + Len(t) + 1 PROVE a[i] = b[i]
  <2>1. CASE i <= Len(s)
    BY <1>1, <1>2, <2>1
  <2>2. CASE i > Len(s)
    <3>1. a[i] = Append(t, f)[i - Len(s)]
      BY <1>1, <1>2, <2>2
    <3>2. CASE i = Len(s) + Len(t) + 1
      <4>1. i - Len(s) = Len(t) + 1
        BY <1>2, <3>2
      <4>2. a[i] = f
        BY <1>2, <3>1, <4>1
      <4>3. b[i] = f
        BY <1>1, <1>2, <3>2
      <4> QED
        BY <4>2, <4>3
    <3>3. CASE i <= Len(s) + Len(t)
      <4>1. i - Len(s) \in 1 .. Len(t)
        BY <1>2, <2>2, <3>3
      <4>2. a[i] = t[i - Len(s)]
        BY <1>2, <3>1, <4>1
      <4>3. b[i] = (s \o t)[i]
        BY <1>1, <1>2, <3>3
      <4>4. (s \o t)[i] = t[i - Len(s)]
        BY <1>2, <2>2, <3>3
      <4> QED
        BY <4>2, <4>3, <4>4
    <3> QED
      BY <1>2, <3>2, <3>3
  <2> QED
    BY <1>2, <2>1, <2>2
<1>5. /\ a = [i \in 1 .. Len(s) + Len(t) + 1 |-> a[i]]
      /\ b = [i \in 1 .. Len(s) + Len(t) + 1 |-> b[i]]
  BY <1>3
<1> QED
  BY <1>1, <1>4, <1>5

\* Offer(d, f) adds f to the end of what goes to d, or drops it.
LEMMA OfferedDelivery ==
    ASSUME ConversationInv, UNCHANGED received, NEW d \in Clients, NEW f \in Frames, Offer(d, f)
    PROVE  /\ \A e \in Clients \ {d} : Delivery(e)' = Delivery(e)
           /\ Delivery(d)' = Delivery(d) \/ Delivery(d)' = Append(Delivery(d), f)
<1>1. /\ outbound \in [Clients -> Seq(Frames)]
      /\ received[d] \in Seq(Frames) /\ outbound[d] \in Seq(Frames)
  BY DeliveriesStored DEF ConversationInv, TypeInv, TypeOK
<1>2. /\ \A e \in Clients \ {d} : outbound'[e] = outbound[e]
      /\ outbound'[d] = outbound[d] \/ outbound'[d] = Append(outbound[d], f)
  BY <1>1 DEF Offer
<1>3. received[d] \o Append(outbound[d], f) = Append(received[d] \o outbound[d], f)
  <2>1. \A s, t \in Seq(Frames) : s \o Append(t, f) = Append(s \o t, f)
    BY AppendedDelivery
  <2> QED
    BY <1>1, <2>1
<1> QED
  BY <1>2, <1>3 DEF Delivery

\* The frame that a connection c has in hand may go to d: c is the only one
\* whose frame is by c, so that nobody else is overtaken.
LEMMA FifoOffer ==
    ASSUME ConversationInv, FifoInv, UNCHANGED <<received, messages>>,
           NEW c \in Clients, NEW d \in Clients, Offer(d, reader[c].frame),
           \A e \in Clients \ {c} : reader'[e] = reader[e], Latest(c)',
           \A b \in Clients : FrameOf(reader[c].frame, messages, b) =>
               b = c /\ Before(Delivery(d), messages, c, reader[c].frame.id)
    PROVE  FifoInv'
<1>1. PICK f \in Frames : f = reader[c].frame
  BY DEF ConversationInv, TypeInv, TypeOK, Reader
<1>2. /\ \A e \in Clients \ {d} : Delivery(e)' = Delivery(e)
      /\ Delivery(d)' = Delivery(d) \/ Delivery(d)' = Append(Delivery(d), f)
  BY <1>1, OfferedDelivery
<1>3. Delivery(d) \in Seq(Frames)
  BY DeliveriesStored
<1>4. InOrder(Append(Delivery(d), f), messages)
  <2>1. \A b \in Clients : FrameOf(f, messages, b) => Before(Delivery(d), messages, b, f.id)
    BY <1>1
  <2> QED
    BY <1>3, <2>1, AppendIsInOrder DEF FifoInv
<1>5. \A e \in Clients : InOrder(Delivery(e)', messages')
  BY <1>2, <1>4 DEF FifoInv
<1>6. ASSUME NEW b \in Clients \ {c} PROVE Latest(b)'
  <2>1. reader'[b] = reader[b] /\ ~FrameOf(f, messages, b)
    BY <1>1, <1>6
  <2>2. \A n : Before(Delivery(d), messages, b, n) => Before(Append(Delivery(d), f), messages, b, n)
    BY <1>3, <2>1, AppendIsBefore
  <2>3. \A e \in Clients : \A n : Before(Delivery(e), messages, b, n) => Before(Delivery(e)', messages', b, n)
    BY <1>2, <2>2
  <2>4. Latest(b)
    BY DEF FifoInv
  <2> QED
    BY <2>1, <2>3, <2>4 DEF Latest, At
<1> QED
  BY <1>5, <1>6 DEF FifoInv

\* The sender's own connection gets the message, the others have yet to.
LEMMA FifoEcho ==
    ASSUME ConversationInv, FifoInv, NEW c \in Clients, Echo(c) PROVE FifoInv'
<1>1. /\ reader \in [Clients -> Reader] /\ UNCHANGED <<received, messages>>
      /\ At(c, "echoing") /\ Offer(c, reader[c].frame) /\ reader[c].frame \in Frames
  BY DEF ConversationInv, TypeInv, TypeOK, Echo, Reader
<1>2. /\ reader'[c].pc = "routing" /\ reader'[c].frame = reader[c].frame
      /\ \A e \in Clients \ {c} : reader'[e] = reader[e]
  BY <1>1 DEF Echo, Goto, Reader
<1>3. /\ FrameOf(reader[c].frame, messages, c)
      /\ \A e \in Clients : Before(Delivery(e), messages, c, reader[c].frame.id)
  BY <1>1 DEF FifoInv, Latest
<1>4. \A e \in Clients : Owner[e] # Owner[c] => Delivery(e)' = Delivery(e)
  BY <1>1, OfferedDelivery
<1>5. Latest(c)'
  BY <1>1, <1>2, <1>3, <1>4 DEF Latest, At
<1>6. \A b \in Clients : FrameOf(reader[c].frame, messages, b) => b = c
  BY <1>3 DEF FrameOf
<1> QED
  BY <1>1, <1>2, <1>3, <1>5, <1>6, FifoOffer

\* A connection is visited once: it is out of rest when it has the frame.
LEMMA FifoSend ==
    ASSUME ConversationInv, FifoInv, NEW c \in Clients, NEW d \in Clients, SendTo(c, d) PROVE FifoInv'
<1>1. /\ reader \in [Clients -> Reader] /\ UNCHANGED <<received, messages>>
      /\ At(c, "sending") /\ d \in reader[c].rest
      /\ Offer(d, reader[c].frame) /\ reader[c].frame \in Frames
  BY DEF ConversationInv, TypeInv, TypeOK, SendTo, Reader
<1>2. /\ reader'[c].pc = "sending" /\ reader'[c].frame = reader[c].frame
      /\ reader'[c].rest = reader[c].rest \ {d}
      /\ \A e \in Clients \ {c} : reader'[e] = reader[e]
  BY <1>1 DEF SendTo, At, Reader
<1>3. IsMessage(reader[c].frame) =>
         /\ FrameOf(reader[c].frame, messages, c)
         /\ \A e \in reader[c].rest : /\ e \in Clients /\ Owner[e] # Owner[c]
                                      /\ Before(Delivery(e), messages, c, reader[c].frame.id)
  BY <1>1 DEF FifoInv, Latest
<1>4. \A e \in Clients \ {d} : Delivery(e)' = Delivery(e)
  BY <1>1, OfferedDelivery
<1>5. Latest(c)'
  BY <1>1, <1>2, <1>3, <1>4 DEF Latest, At
<1>6. \A b \in Clients : FrameOf(reader[c].frame, messages, b) =>
         b = c /\ Before(Delivery(d), messages, c, reader[c].frame.id)
  BY <1>1, <1>3 DEF FrameOf
<1> QED
  BY <1>1, <1>2, <1>5, <1>6, FifoOffer

\* A write loop takes from the front.
LEMMA FifoPump ==
    ASSUME ConversationInv, FifoInv, [Next]_vars, NEW c \in Clients, Pump(c) \/ WriteFails(c)
    PROVE  FifoInv'
<1>1. /\ outbound \in [Clients -> Seq(Frames)] /\ received \in [Clients -> Seq(Frames)]
  BY DEF ConversationInv, TypeInv, TypeOK
<1>2. reader' = reader /\ \A d \in Clients \ {c} : Delivery(d)' = Delivery(d)
  BY <1>1 DEF Pump, Write, StopWriter, WriteFails, Delivery
<1>3. ASSUME Write(c) PROVE Thinner(Delivery(c), Delivery(c)')
  <2>1. /\ outbound[c] # <<>> /\ outbound'[c] = Tail(outbound[c])
        /\ received'[c] = Append(received[c], Head(outbound[c]))
    BY <1>1, <1>3 DEF Write
  <2>2. \A s, t \in Seq(Frames) : t # <<>> => Append(s, Head(t)) \o Tail(t) = s \o t
    BY WrittenIsDelivered
  <2> QED
    BY <1>1, <2>1, <2>2, SameIsThinner DEF Delivery
<1>4. ASSUME StopWriter(c) PROVE Thinner(Delivery(c), Delivery(c)')
  BY <1>4, SameIsThinner DEF StopWriter, Delivery
<1>5. ASSUME WriteFails(c) PROVE Thinner(Delivery(c), Delivery(c)')
  <2>1. outbound[c] # <<>> /\ outbound'[c] = Tail(outbound[c]) /\ received' = received
    BY <1>1, <1>5 DEF WriteFails
  <2>2. \A s, t \in Seq(Frames) : t # <<>> => Thinner(s \o t, s \o Tail(t))
    BY DroppedIsThinner
  <2> QED
    BY <1>1, <2>1, <2>2 DEF Delivery
<1>6. Thinner(Delivery(c), Delivery(c)')
  BY <1>3, <1>4, <1>5 DEF Pump
<1>7. \A d \in Clients : Thinner(Delivery(d), Delivery(d)')
  BY <1>2, <1>6, SameIsThinner
<1> QED
  BY <1>2, <1>7, LeftInOrder, LatestStays DEF FifoInv

\* The steps of a read loop that hand over nothing and take nothing in hand.
LEMMA FifoQuiet ==
    ASSUME ConversationInv, FifoInv, [Next]_vars, NEW c \in Clients,
           \/ Connect(c) \/ TakeMessage(c) \/ TakeReceipt(c) \/ Disconnect(c)
           \/ StoreFails(c) \/ MarkReadFails(c) \/ (\E d \in Clients : Panic(c, d))
           \/ EndSend(c) \/ PushIfOffline(c) \/ CloseQueue(c) \/ Unregister(c)
    PROVE  FifoInv'
<1>1. UNCHANGED <<received, outbound>>
  BY DEF Connect, TakeMessage, TakeReceipt, Disconnect, StoreFails, MarkReadFails, Panic,
         EndSend, PushIfOffline, CloseQueue, Unregister
<1>2. CASE TakeReceipt(c)
  <2>1. reader \in [Clients -> Reader]
    BY DEF ConversationInv, TypeInv, TypeOK
  <2>2. reader'[c].pc = "marking" /\ \A d \in Clients \ {c} : reader'[d] = reader[d]
    BY <1>2, <2>1 DEF TakeReceipt, Reader
  <2> QED
    BY <1>1, <2>2, FifoAside
<1>3. CASE ~TakeReceipt(c)
  <2>1. PICK p \in {"reading", "storing", "routed", "closing", "leaving", "gone"} : Goto(c, p)
    BY <1>3 DEF Connect, TakeMessage, Disconnect, StoreFails, MarkReadFails, Panic, EndSend,
                PushIfOffline, CloseQueue, Unregister
  <2>2. reader'[c].pc = p /\ \A d \in Clients \ {c} : reader'[d] = reader[d]
    BY <2>1, GoingOnMoves DEF ConversationInv
  <2> QED
    BY <1>1, <2>2, FifoAside
<1> QED
  BY <1>2, <1>3

\* Every step keeps the order.
LEMMA FifoStep == ConversationInv /\ FifoInv /\ [Next]_vars => FifoInv'
<1> SUFFICES ASSUME ConversationInv, FifoInv, [Next]_vars PROVE FifoInv'
  OBVIOUS
<1>1. CASE UNCHANGED vars
  <2>1. UNCHANGED <<reader, received, outbound, messages>>
    BY <1>1 DEF vars
  <2> QED
    BY <2>1 DEF FifoInv, Latest, At, Delivery
<1>2. CASE Next
  BY <1>2, FifoStore, FifoEcho, FifoMark, FifoStart, FifoSend, FifoPump, FifoQuiet
     DEF Next, Handle
<1> QED
  BY <1>1, <1>2

\* Nothing is delivered at the start.
LEMMA FifoInit == Init => FifoInv
<1> SUFFICES ASSUME Init PROVE FifoInv
  OBVIOUS
<1>1. \A c \in Clients : reader[c].pc = "off" /\ received[c] = <<>> /\ outbound[c] = <<>>
  BY DEF Init
<1>2. \A c \in Clients : Delivery(c) = <<>>
  BY <1>1 DEF Delivery
<1> QED
  BY <1>1, <1>2 DEF FifoInv, Latest, InOrder, At

\* Every connection gets the messages of another in the order in which they
\* were stored, and each at most once: not the queues that drop what does not
\* fit, nor Sends that overlap, nor loops that end reorder or repeat any
\* (ws/client.go:130-151, ws/hub.go:40-53).
THEOREM FifoAlways == Spec => []FifoPerSender
<1>1. ConversationInv /\ FifoInv => FifoPerSender
  <2> SUFFICES ASSUME ConversationInv, FifoInv, NEW d \in Clients,
                      NEW i \in DOMAIN Delivery(d), NEW j \in DOMAIN Delivery(d), i < j,
                      IsMessage(Delivery(d)[i]), IsMessage(Delivery(d)[j]),
                      messages[Delivery(d)[i].id].from = messages[Delivery(d)[j].id].from
               PROVE  Delivery(d)[i].id < Delivery(d)[j].id
    BY DEF FifoPerSender, Delivery
  <2>1. PICK c : c = messages[Delivery(d)[i].id].from
    OBVIOUS
  <2>2. c \in Clients
    <3>1. Delivery(d)[i].id \in DOMAIN messages /\ messages \in Seq(Message)
      BY DeliveriesStored DEF Stored, ConversationInv, TypeInv, TypeOK
    <3>2. \A n \in DOMAIN messages : messages[n] \in Message
      BY <3>1
    <3> QED
      BY <2>1, <3>1, <3>2 DEF Message
  <2> QED
    BY <2>1, <2>2 DEF FifoInv, InOrder, FrameOf
<1> QED
  BY <1>1, FifoInit, FifoStep, ConversationInit, ConversationStep, PTL DEF Spec


-----------------------------------------------------------------------------
(* The end of a connection.                                                *)

\* A connection that has not ended or has not left is registered, with its write
\* loop; one that is about to leave has closed its queue.
Registered == \A c \in Clients : c \in hub <=> reader[c].pc \notin {"off", "gone"}
WriterStarted == \A c \in Clients : ~At(c, "off") => writer[c] # "off"
QueueClosed == \A c \in Clients : c \in closed <=> reader[c].pc \in {"leaving", "gone"}
EndInv == Registered /\ WriterStarted /\ QueueClosed

\* A read loop that moves on within its life.
LEMMA EndPlain ==
    ASSUME TypeOK, EndInv, NEW c \in Clients, NEW r, reader' = [reader EXCEPT ![c] = r],
           reader[c].pc \notin {"off", "leaving", "gone"},
           r.pc \notin {"off", "leaving", "gone"}, UNCHANGED <<hub, writer, closed>>
    PROVE  EndInv'
<1>1. reader'[c] = r /\ \A d \in Clients \ {c} : reader'[d] = reader[d]
  BY DEF TypeOK
<1> QED
  BY <1>1 DEF EndInv, Registered, WriterStarted, QueueClosed, At

\* Every step keeps it.
LEMMA EndStep == TypeInv /\ EndInv /\ [Next]_vars => EndInv'
<1> SUFFICES ASSUME TypeInv, EndInv, [Next]_vars PROVE EndInv'
  OBVIOUS
<1>1. TypeOK /\ reader \in [Clients -> Reader]
  BY DEF TypeInv, TypeOK
<1> USE DEF At
<1>2. ASSUME NEW c \in Clients, NEW phase, Goto(c, phase),
             reader[c].pc \notin {"off", "leaving", "gone"},
             phase \notin {"off", "leaving", "gone"}, UNCHANGED <<hub, writer, closed>>
      PROVE  EndInv'
  <2> DEFINE r == [reader[c] EXCEPT !.pc = phase]
  <2>1. reader' = [reader EXCEPT ![c] = r] /\ r.pc = phase
    BY <1>1, <1>2 DEF Goto, Reader
  <2> HIDE DEF r
  <2> QED
    BY <1>1, <1>2, <2>1, EndPlain
<1>3. ASSUME NEW c \in Clients, NEW phase, Goto(c, phase)
      PROVE  reader'[c].pc = phase /\ \A d \in Clients \ {c} : reader'[d] = reader[d]
  BY <1>1, <1>3 DEF Goto, Reader
<1>4. ASSUME NEW c \in Clients, Connect(c) PROVE EndInv'
  <2>1. hub' = hub \cup {c} /\ writer' = [writer EXCEPT ![c] = "running"] /\ UNCHANGED closed
        /\ reader[c].pc = "off" /\ Goto(c, "reading")
    BY <1>4 DEF Connect
  <2>2. reader'[c].pc = "reading" /\ \A d \in Clients \ {c} : reader'[d] = reader[d]
    BY <1>3, <2>1
  <2>3. writer'[c] = "running" /\ \A d \in Clients \ {c} : writer'[d] = writer[d]
    BY <1>1, <2>1 DEF TypeOK
  <2>4. Registered'
    BY <2>1, <2>2 DEF EndInv, Registered
  <2>5. WriterStarted'
    BY <2>2, <2>3 DEF EndInv, WriterStarted
  <2>6. QueueClosed'
    BY <2>1, <2>2 DEF EndInv, QueueClosed
  <2> QED
    BY <2>4, <2>5, <2>6 DEF EndInv
<1>5. ASSUME NEW c \in Clients,
             TakeMessage(c) \/ Disconnect(c) \/ StoreFails(c) \/ MarkReadFails(c) \/ Echo(c)
             \/ PushIfOffline(c)
      PROVE  EndInv'
  <2>1. reader[c].pc \in {"reading", "storing", "marking", "echoing", "routed"}
        /\ UNCHANGED <<hub, writer, closed>>
    BY <1>5 DEF TakeMessage, Disconnect, StoreFails, MarkReadFails, Echo, PushIfOffline
  <2>2. PICK phase \in {"storing", "closing", "reading", "routing"} : Goto(c, phase)
    BY <1>5 DEF TakeMessage, Disconnect, StoreFails, MarkReadFails, Echo, PushIfOffline
  <2> QED
    BY <1>2, <2>1, <2>2
<1>6. ASSUME NEW c \in Clients, EndSend(c) \/ \E d \in Clients : Panic(c, d) PROVE EndInv'
  <2>1. reader[c].pc = "sending" /\ UNCHANGED <<hub, writer, closed>>
    BY <1>6 DEF EndSend, Panic
  <2>2. PICK phase \in {"routed", "closing", "reading"} : Goto(c, phase)
    BY <1>6 DEF EndSend, Panic
  <2> QED
    BY <1>2, <2>1, <2>2
<1>7. ASSUME NEW c \in Clients,
             Store(c) \/ MarkRead(c) \/ TakeReceipt(c) \/ StartSend(c)
             \/ \E d \in Clients : SendTo(c, d)
      PROVE  EndInv'
  <2>1. reader[c] \in Reader
    BY <1>1
  <2>2. reader[c].pc \in {"storing", "marking", "reading", "routing", "sending"}
        /\ UNCHANGED <<hub, writer, closed>>
    BY <1>7 DEF Store, MarkRead, TakeReceipt, StartSend, SendTo
  <2>3. \E r : /\ reader' = [reader EXCEPT ![c] = r]
               /\ r.pc \in {"echoing", "routing", "marking", "sending"}
    <3>1. CASE Store(c) \/ MarkRead(c)
      <4>1. PICK phase \in {"echoing", "routing"} :
               \E f : reader' = [reader EXCEPT ![c] = [reader[c] EXCEPT !.pc = phase, !.frame = f]]
        BY <3>1 DEF Store, MarkRead
      <4>2. PICK f : reader' = [reader EXCEPT ![c] = [reader[c] EXCEPT !.pc = phase, !.frame = f]]
        BY <4>1
      <4> DEFINE r == [reader[c] EXCEPT !.pc = phase, !.frame = f]
      <4>3. r.pc = phase
        BY <2>1 DEF Reader
      <4> QED
        BY <4>2, <4>3
    <3>2. CASE TakeReceipt(c)
      <4> DEFINE r == [reader[c] EXCEPT !.pc = "marking", !.receipts = @ + 1]
      <4>1. reader' = [reader EXCEPT ![c] = r] /\ r.pc = "marking"
        BY <1>1, <2>1, <3>2 DEF TakeReceipt, Reader
      <4> QED
        BY <4>1
    <3>3. CASE StartSend(c)
      <4> DEFINE r == [reader[c] EXCEPT !.pc = "sending", !.rest = Connections(Recipient(c))]
      <4>1. reader' = [reader EXCEPT ![c] = r] /\ r.pc = "sending"
        BY <2>1, <3>3 DEF StartSend, Reader
      <4> QED
        BY <4>1
    <3>4. ASSUME NEW d \in Clients, SendTo(c, d)
          PROVE  \E r : /\ reader' = [reader EXCEPT ![c] = r]
                        /\ r.pc \in {"echoing", "routing", "marking", "sending"}
      <4> DEFINE r == [reader[c] EXCEPT !.rest = @ \ {d}]
      <4>1. reader' = [reader EXCEPT ![c] = r] /\ r.pc = "sending"
        BY <1>1, <2>1, <3>4 DEF SendTo, Reader
      <4> QED
        BY <4>1
    <3> QED
      BY <1>7, <3>1, <3>2, <3>3, <3>4
  <2>4. PICK r : /\ reader' = [reader EXCEPT ![c] = r]
                 /\ r.pc \in {"echoing", "routing", "marking", "sending"}
    BY <2>3
  <2> QED
    BY <1>1, <2>2, <2>4, EndPlain
<1>8. ASSUME NEW c \in Clients, CloseQueue(c) PROVE EndInv'
  <2>1. closed' = closed \cup {c} /\ UNCHANGED <<hub, writer>>
        /\ reader[c].pc = "closing" /\ Goto(c, "leaving")
    BY <1>8 DEF CloseQueue
  <2> QED
    BY <1>3, <2>1 DEF EndInv, Registered, WriterStarted, QueueClosed
<1>9. ASSUME NEW c \in Clients, Unregister(c) PROVE EndInv'
  <2>1. hub' = hub \ {c} /\ UNCHANGED <<closed, writer>>
        /\ reader[c].pc = "leaving" /\ Goto(c, "gone")
    BY <1>9 DEF Unregister
  <2> QED
    BY <1>3, <2>1 DEF EndInv, Registered, WriterStarted, QueueClosed
<1>10. ASSUME NEW c \in Clients, Pump(c) \/ WriteFails(c) PROVE EndInv'
  <2>1. /\ UNCHANGED <<hub, reader, closed>>
        /\ writer' = writer \/ writer' = [writer EXCEPT ![c] = "stopped"]
    BY <1>10 DEF Pump, Write, StopWriter, WriteFails
  <2> QED
    BY <1>1, <2>1 DEF EndInv, Registered, WriterStarted, QueueClosed, TypeOK
<1>11. CASE UNCHANGED vars
  BY <1>11 DEF vars, EndInv, Registered, WriterStarted, QueueClosed
<1> QED
  BY <1>4, <1>5, <1>6, <1>7, <1>8, <1>9, <1>10, <1>11 DEF Next, Handle

\* The guards of what the read loop and the write loop of c do by themselves:
\* everything but waiting for a client, and for the lock of the hub.
Ready(c) ==
    \/ reader[c].pc \in {"echoing", "marking", "routing", "sending", "routed", "closing"}
    \/ At(c, "storing") /\ Len(messages) < MaxMessages
    \/ At(c, "leaving") /\ HubFree
    \/ writer[c] = "running" /\ (outbound[c] # <<>> \/ c \in closed)

\* A connection that has ended and still holds something: a place in the hub, or
\* the goroutine of its write loop.
Lingers(c) ==
    reader[c].pc \in {"closing", "leaving", "gone"} /\ (c \in hub \/ writer[c] # "stopped")

\* The hub cannot block: while a connection that has ended is not released some
\* goroutine can go on, however many connections end while however many Sends
\* are under way, and however full the queues are.  The lock of the hub is held
\* by Sends only, and enqueue waits for nobody (ws/hub.go:40, ws/client.go:48).
THEOREM NobodyBlocksTheHub ==
    Spec => []((\E c \in Clients : Lingers(c)) => \E c \in Clients : Ready(c))
<1>1. Init => EndInv
  BY DEF Init, EndInv, Registered, WriterStarted, QueueClosed, At
<1>2. ASSUME EndInv, TypeOK, NEW c \in Clients, Lingers(c) PROVE \E d \in Clients : Ready(d)
  <2>1. CASE At(c, "closing")
    BY <2>1 DEF Ready, At
  <2>2. CASE At(c, "leaving") /\ HubFree
    BY <2>2 DEF Ready
  <2>3. CASE At(c, "leaving") /\ ~HubFree
    <3>1. PICK d \in Clients : At(d, "sending")
      BY <2>3 DEF HubFree
    <3> QED
      BY <3>1 DEF Ready, At
  <2>4. CASE At(c, "gone")
    <3>1. c \notin hub /\ c \in closed /\ writer[c] = "running"
      BY <1>2, <2>4 DEF EndInv, Registered, WriterStarted, QueueClosed, Lingers, TypeOK, At
    <3> QED
      BY <3>1 DEF Ready
  <2> QED
    BY <1>2, <2>1, <2>2, <2>3, <2>4 DEF Lingers, At
<1>3. EndInv /\ TypeInv => ((\E c \in Clients : Lingers(c)) => \E c \in Clients : Ready(c))
  BY <1>2 DEF TypeInv
<1> QED
  BY <1>1, <1>3, TypeInit, TypeStep, EndStep, PTL DEF Spec
=============================================================================
