\* A stream whose client may stall for good, its queue full; a forwarded call.
SPECIFICATION Spec
CONSTANTS
    b = b
    b1 = b1
    b2 = b2
    p1 = p1
    p2 = p2
    Streams = {b}
    Posted = {b1, b2}
    Of <- MCOf
    Direct = {p1, p2}
    Proxied = {p1, p2}
    Plain = {b2}
    Nothing = nothing
    Ping = ping
    Capacity = 1
INVARIANTS TypeOK AcceptedAnswered
PROPERTIES Served
CHECK_DEADLOCK FALSE
