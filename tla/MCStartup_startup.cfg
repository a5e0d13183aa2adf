\* Servers and clients that start in any order.
CONSTANTS
    one = one
    two = two
    three = three
    Proc = {one, two, three}
    NAddr = 2
    Jobs <- AllJobs
    Works <- SomeWorks
SPECIFICATION FairSpec
CHECK_DEADLOCK FALSE
INVARIANTS
    OneSocket
    OneServer
PROPERTIES
    Reaches
    Heard
