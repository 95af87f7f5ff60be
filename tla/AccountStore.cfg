SPECIFICATION Spec
CONSTANTS
    Keys = {k1, unknown}
    UnknownKey = unknown
    Handlers = {h1, h2}
    None = None
SYMMETRY Symmetry
INVARIANTS
    TypeOK
    NoDanglingActive
    SerialisedNeverTorn
PROPERTIES
    SerialisedNeverLoses
    NextBootFollows
    FlagsClearedByOwner
