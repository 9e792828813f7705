CONSTANTS
    Versions = {"v1.3", "other"}
    PROTOCOL_VERSION = "v1.3"
    SamplerMayFail = TRUE
    Ids <- MCIds
    MaxStrand = 2
    MaxArmed = 2

SPECIFICATION Spec

INVARIANTS
    TypeOK
    NoOrphanSampling

PROPERTY OnlyThrowsStopSampling
