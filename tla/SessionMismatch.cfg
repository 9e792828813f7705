CONSTANTS
    Versions = {"v1.3", "v1.4"}
    ClientVersion = "v1.3"
    ServerVersion = "v1.4"
    SamplerMayFail = FALSE
    ClientWritesMayFail = FALSE
    ReadsMayCoalesce = FALSE
    MaxClientConnects = 2
    MaxServerConnects = 1
    MaxSamples = 1

SPECIFICATION FairSpec

INVARIANTS
    VersionAgreement

PROPERTIES
    ExchangeEnds
