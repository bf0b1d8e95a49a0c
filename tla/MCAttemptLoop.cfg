SPECIFICATION Spec
CONSTANTS
    Accounts = {1, 2, 3}
    Aliases <- MCAliases
    AllowedModels <- MCAllowedModels
    MaxConcurrent <- MCMaxConcurrent
    DefaultWeight = 3
    Models = {"opus", "haiku"}
    MaxRetries = 2
    MaxTurn = 5
INVARIANTS
    TypeOK
    OneProviderSpeaks
    SelectionKeepsPromise
    SlotsBalanced
    OutcomesReported
PROPERTY
    AnswersEventually
\* A request ends with its answer.
CHECK_DEADLOCK FALSE
