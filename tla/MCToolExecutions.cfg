SPECIFICATION Spec
CONSTANTS
    Workers = {w1, w2}
    MaxLeases = 4
    MaxPolicy = 3
    RetryLimit = 2
    NoAdmission = NoAdmission
SYMMETRY WorkerSymmetry
INVARIANTS
    TypeOK
    EffectsConsented
    LedgerNeverRefuses
PROPERTIES
    AdmittedAsPermitted
    OutcomeStands
CHECK_DEADLOCK FALSE
