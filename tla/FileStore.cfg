CONSTANTS
    Files = {f1}
    Deletes = {d1, d2}
    Reads = {r1}
    Prunes = {p1, p2}
    Expiring = {f1}
    MaxFiles = 1
    MaxStops = 2
    MayFail = TRUE
    None = None
    UploadSlots = 1
    DownloadSlots = 1
    Mime <- MCMime
    Encoded <- MCEncoded
    Limit = 3
    Requests <- MCRequests
    Named = f1
SPECIFICATION ApiSpec
CHECK_DEADLOCK FALSE
INVARIANTS FilesKept
PROPERTIES RestartSettles
SYMMETRY Symmetry
