CONSTANTS
    Versions = {"v1.3"}
    ClientVersion = "v1.3"
    ServerVersion = "v1.3"
    SamplerMayFail = FALSE
    ClientWritesMayFail = FALSE
    ReadsMayCoalesce = FALSE
    MaxClientConnects = 2
    MaxServerConnects = 1
    MaxSamples = 0

SPECIFICATION FairSpec

INVARIANTS
    TypeOK
    SilenceMeansAgreement

PROPERTIES
    NeverAnEarlierInstance
    AgreementReached
    ExchangeEnds
