\* Two clients, two requests that are delivered twice, losses.
CONSTANTS
    a = a
    b = b
    Client = {a, b}
    NLine = 3
    NDup = 2
SPECIFICATION FairSpec
CHECK_DEADLOCK FALSE
INVARIANTS
    Echoed
    Behind
PROPERTY
    Answered
