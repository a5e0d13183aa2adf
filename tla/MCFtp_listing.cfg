\* A listing after downloads.
CONSTANTS
    pdf = pdf
    txt = txt
    NSession = 1
    NOp = 2
    NChunk = 1
    NFd = 12
    File = {pdf, txt}
    Cacheable = {pdf}
    NoName = NoName
    Mode = {"PORT", "PASV"}
    Want <- WantAll
    OnServer = {pdf, txt}
    Liberty = {}
SPECIFICATION Spec
CHECK_DEADLOCK FALSE
INVARIANT
    ListingFaithful
