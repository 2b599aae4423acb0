CONSTANTS
    MaxDownload = 6
    UploadLimit = 2
    Sizes = {0, 1, 4, 6, 7}
    Chunks = {0, 1, 2, 3, 7}
    Cables = {c1, c2, c3}
    Valid = {c1, c2}
    None = None
SPECIFICATION UsbSpec
INVARIANTS DeviceOwned DownloadsWhole
PROPERTIES ImplementsSession RebootCarriedOut
CHECK_DEADLOCK FALSE
