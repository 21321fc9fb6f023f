SPECIFICATION Spec
CONSTANTS
    Notes = {n1, n2}
    NoDocument = NoDocument
    MaxAttempts = 2
    MaxRequests = 2
    LinkLife = 2
    CodeLife = 2
    ProofLife = 3
    Cooldown = 1
    Window = 3
    MaxContracts = 2
    MaxLinks = 3
    MaxCodes = 3
SYMMETRY MCSymmetry
CHECK_DEADLOCK FALSE
INVARIANTS
    ScheduledIffSigned
    SignedAsOffered
    SignedWithLastCode
    GuessesAreBounded
    QueuedSecretsAreCurrent
