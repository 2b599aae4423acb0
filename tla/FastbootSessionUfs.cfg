CONSTANTS
    MaxDownload = 6
    UploadLimit = 2
    Sizes = {2}
    Chunks = {1}
SPECIFICATION Spec
INVARIANT StagedIntact
