\* Two messages, one restart of the channel and one of the host.
CONSTANTS
    Messages = {m1, m2}
    NoMessage = NoMessage
    Sockets = {s1, s2}
    NoSocket = NoSocket
    MaxReopens = 1
    MaxRestarts = 1
SPECIFICATION FairSpec
INVARIANTS TypeOK ConnectionsExact ConnectedIsOpen Accounted ReceivedOnce
PROPERTIES InOrder QueueEmpties
CHECK_DEADLOCK FALSE
