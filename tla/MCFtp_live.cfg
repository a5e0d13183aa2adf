\* Liveness of the orderly case; the second transfer may meet a filled cache.
CONSTANTS
    pdf = pdf
    txt = txt
    NSession = 2
    NOp = 2
    NChunk = 1
    NFd = 12
    File = {pdf, txt}
    Cacheable = {pdf}
    NoName = NoName
    Mode = {"PORT", "PASV"}
    Want <- WantLive
    OnServer = {pdf, txt}
    Liberty = {}
SPECIFICATION FairSpec
CHECK_DEADLOCK FALSE
PROPERTIES
    OpCompletes
    Served
