CONSTANTS
    Files = {f1, f2}
    Deletes = {d1}
    Reads = {}
    Prunes = {p1}
    Expiring = {f1}
    MaxFiles = 1
    MaxStops = 0
    MayFail = FALSE
    None = None
    UploadSlots = 1
    DownloadSlots = 1
    Mime <- MCMime
    Encoded <- MCEncoded
    Limit = 3
    Requests <- MCRequests
    Named = f1
SPECIFICATION ApiFairSpec
CHECK_DEADLOCK FALSE
PROPERTIES AllFreed
