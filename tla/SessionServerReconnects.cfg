CONSTANTS
    Versions = {"v1.3"}
    ClientVersion = "v1.3"
    ServerVersion = "v1.3"
    SamplerMayFail = FALSE
    ClientWritesMayFail = FALSE
    ReadsMayCoalesce = FALSE
    MaxClientConnects = 1
    MaxServerConnects = 2
    MaxSamples = 0

SPECIFICATION FairSpec

INVARIANTS
    SilenceMeansAgreement
    NeverStalls
    ServerGreetsByName

PROPERTIES
    AgreementReached
