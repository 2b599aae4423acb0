CONSTANTS
    MaxDownload = 1
    UploadLimit = 1
    Sizes = {1}
    Chunks = {}
    None = None
    Hosts = {a}
    HeaderLen = 2
    HandshakeLen = 2
    MsgMax = 2
    MaxRtx = 1
    Requests <- MCReboot
SPECIFICATION TcpSpec
INVARIANT AnsweredBeforeExit
