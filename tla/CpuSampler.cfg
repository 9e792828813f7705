SPECIFICATION Spec
CONSTANTS
    Modulus = 5
    MaxStep = 4
INVARIANT TypeOK
PROPERTY LoadIsExact
