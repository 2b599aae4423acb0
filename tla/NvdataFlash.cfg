CONSTANTS
    Bits = {b1, b2}
    NumBlobs = 5
    SectorBlobs = 1
    IgnoreErrors = FALSE
SPECIFICATION Spec
INVARIANTS OffsetIsLastBlobUnlessCut CacheIsCurrentBlobUnlessCut FlashUse
PROPERTIES CallReturns ImplementsRegister
