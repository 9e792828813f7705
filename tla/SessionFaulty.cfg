CONSTANTS
    Versions = {"v1.3"}
    ClientVersion = "v1.3"
    ServerVersion = "v1.3"
    SamplerMayFail = TRUE
    ClientWritesMayFail = TRUE
    ReadsMayCoalesce = TRUE
    MaxClientConnects = 1
    MaxServerConnects = 1
    MaxSamples = 1

SPECIFICATION FairSpec

PROPERTIES
    HellosRunOut
    ExchangeEnds
    SamplesKeepComing
