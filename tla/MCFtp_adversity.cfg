\* Clients that connect early, replace each other and abort; few descriptors.
CONSTANTS
    pdf = pdf
    txt = txt
    NSession = 2
    NOp = 1
    NChunk = 1
    NFd = 9
    File = {pdf, txt}
    Cacheable = {pdf}
    NoName = NoName
    Mode = {"PORT", "PASV"}
    Want <- WantPdf
    OnServer = {pdf}
    Liberty = {"early", "hasty", "abort"}
SPECIFICATION Spec
CHECK_DEADLOCK FALSE
INVARIANTS
    TypeOK
    ListenerAlive
