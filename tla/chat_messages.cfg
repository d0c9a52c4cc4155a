\* Connections of Ana, of Bia and of Caio, who is not a participant, two of them
\* opened: messages both ways, receipts, failures, connections that end.
CONSTANTS
    ana = ana
    bia = bia
    caio = caio
    a1 = a1
    b1 = b1
    b2 = b2
    c1 = c1
    Users = {ana, bia, caio}
    Participants = {ana, bia}
    Owner <- MCOwner
    Clients = {a1, b1, c1}
    Capacity = 2
    MaxMessages = 2
    MaxOpened = 2
    Readers = {b1}
    MaxReceipts = 2
    Failures = TRUE
SPECIFICATION FairSpec
INVARIANTS FifoPerSender ReadIsPrefix OnlyTheConversation
PROPERTY EndedConnectionsAreReleased
CHECK_DEADLOCK FALSE
