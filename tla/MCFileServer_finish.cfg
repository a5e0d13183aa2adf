\* One client that asks for one file.
CONSTANTS
    a = a
    b = b
    short = short
    long = long
    Client = {a}
    File = {short, long}
    Lines <- LinesOf
    Missing = Missing
    Nul = Nul
    Names <- NamesOf
    NReq <- NReqOf
SPECIFICATION Spec
CHECK_DEADLOCK FALSE
PROPERTY
    Finishes


