SPECIFICATION Spec
CONSTANTS
    Parts = {p1, p2}
    Positions = {1, 2, 3}
    MaxDeltas = 2
    MaxChunks = 2
    MaxNew = 2
    Letters = {1, 2}
    MaxText = 2
    Texts <- TextsThatOverlap
SYMMETRY PartSymmetry
CHECK_DEADLOCK FALSE
INVARIANTS
    TypeOK
    BlocksFaithful
    SuccessDelivers
    SignaturesComeBack
    ConversationKept
    ProvidersAgree
PROPERTIES
    ImplementsMessageStream
