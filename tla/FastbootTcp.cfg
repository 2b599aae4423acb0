CONSTANTS
    MaxDownload = 2
    UploadLimit = 2
    Sizes = {0, 2}
    Chunks = {1, 2, 3}
    None = None
    Hosts = {a, b}
    HeaderLen = 2
    HandshakeLen = 2
    MsgMax = 2
    MaxRtx = 1
    Requests <- MCRequests
SPECIFICATION TcpSpec
INVARIANTS ParserInStep RetransmitsSame RepliesExpected
PROPERTIES ImplementsSession SessionEndsWithConnection HostAnswered
