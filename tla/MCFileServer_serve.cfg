\* Two clients, the second of which may find no process left for a child.
CONSTANTS
    a = a
    b = b
    short = short
    long = long
    Client = {a, b}
    File = {short, long}
    Lines <- LinesOf
    Missing = Missing
    Nul = Nul
    Names <- NamesOf
    NReq <- NReqOf
SPECIFICATION Spec
CHECK_DEADLOCK FALSE
INVARIANTS
    OwnOnly
    SavedPrefix
PROPERTIES
    HungUp
    ChildEnds
