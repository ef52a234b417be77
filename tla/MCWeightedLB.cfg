SPECIFICATION Spec
CONSTANTS
    MAX_EDS = 3
    Weights <- MCWeights
INVARIANTS
    TypeOK
    ExactShare
    AgreesWithBisect
PROPERTIES
    ImplementsRoundRobin
