SPECIFICATION FairSpec
CONSTANTS
    p1 = p1
    p2 = p2
    c1 = c1
    c2 = c2
    Capacities = {0, 3}
    SpscData = {d1, d2}
    NoObject = NoObject
    MpmcCapacity = 2
    Teams = {{p1, p2, c1}, {p1, c1, c2}}
    Producers = {p1, p2}
    Consumers = {c1, c2}
    MaxTickets = 4
    NoElement = NoElement
    AqConfigs <- AqConfigsUsed
    Modulus = 8
    Nil = Nil
    Locks = {"system", "ticket"}
    RingSize = 2
    Lap = 4
    RingPushers = {p1}
    RingPoppers = {c1, c2}
    RingData = {d1, d2}
    Blank = Blank
    Writers = {p1, p2}
    Readers = {c1, c2}
    NoThread = NoThread
    MutexData = {d1, d2}
    NothingRead = NothingRead
    MaxLength = 3
INVARIANTS
    PopsItsTicket
    FailsOnlyWhenBusy
    TriesNeedNoLaterCall
PROPERTIES
    RingsImplementFifo
    AqImplementsPool
    MutexImplementsFifo
    WaitsEnd
CHECK_DEADLOCK FALSE
