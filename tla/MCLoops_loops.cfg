\* Sizes on both sides of what a small int holds.
CONSTANTS
    Size = {0, 1, 2, 3, 5, 7, 8, 11, 15, 16, 17, 19}
    IntMax = 7
    Running = Running
SPECIFICATION FairSpec
CHECK_DEADLOCK FALSE
PROPERTIES
    Promised
    Returns
