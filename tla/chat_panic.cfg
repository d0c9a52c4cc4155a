\* A message is sent to a user one of whose connections is ending.
CONSTANTS
    ana = ana
    bia = bia
    caio = caio
    a1 = a1
    b1 = b1
    b2 = b2
    c1 = c1
    Users = {ana, bia, caio}
    Participants = {ana, bia}
    Owner <- MCOwner
    Clients = {a1, b1, b2}
    Capacity = 2
    MaxMessages = 1
    MaxOpened = 3
    Readers = {}
    MaxReceipts = 0
    Failures = FALSE
SPECIFICATION Spec
PROPERTY SendReachesAll
CHECK_DEADLOCK FALSE
