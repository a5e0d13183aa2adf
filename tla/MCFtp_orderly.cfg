\* One client after the other, one transfer after the other.
CONSTANTS
    pdf = pdf
    txt = txt
    NSession = 2
    NOp = 3
    NChunk = 2
    NFd = 12
    File = {pdf, txt}
    Cacheable = {pdf}
    NoName = NoName
    Mode = {"PORT", "PASV"}
    Want <- WantTransfers
    OnServer = {pdf, txt}
    Liberty = {}
SPECIFICATION Spec
CHECK_DEADLOCK FALSE
INVARIANTS
    DownloadWhole
    UploadWhole
    CacheWhole
    CacheFilled
    FetchedOnce
    RolesMatch
    SelectSafe
    CacheHandle
    InWindow
    ProxySurvives
    NeverBlocks
    CachePure
PROPERTIES
    ImplementsStore
