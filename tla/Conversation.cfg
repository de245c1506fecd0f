CONSTANTS
    Models <- MCModels
    Mixes <- MCMixes
    Catalogs <- MCCatalogs
    MaxTurns = 3
    SystemPrompts <- MCSystemPrompts
    Questions <- MCQuestions
    Replies <- MCReplies
    Wants <- MCWants
    Beside <- MCBeside
    Outputs <- MCOutputs
SPECIFICATION Spec
CHECK_DEADLOCK FALSE
INVARIANT NothingLost
INVARIANT Replayed
INVARIANT ResultsAreAgents
INVARIANT Answerable
PROPERTY PrefixStable
