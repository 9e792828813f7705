CONSTANTS
    Versions = {"v1.3", "other"}
    PROTOCOL_VERSION = "v1.3"
    Ids <- MCIds

SPECIFICATION Spec

INVARIANTS
    TypeOK
    NoStaleRequest

PROPERTY CompletionRequestsTelemetry
