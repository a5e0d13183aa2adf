\* The proxy is killed once, at any moment, and started again.
CONSTANTS
    pdf = pdf
    txt = txt
    NSession = 2
    NOp = 2
    NChunk = 1
    NFd = 12
    NCrash = 1
    File = {pdf, txt}
    Cacheable = {pdf}
    NoName = NoName
    Mode = {"PORT", "PASV"}
    Want <- WantBoth
    OnServer = {pdf, txt}
    Liberty = {}
SPECIFICATION RestartSpec
CHECK_DEADLOCK FALSE
INVARIANT
    CrashContained
PROPERTY
    CacheStable
