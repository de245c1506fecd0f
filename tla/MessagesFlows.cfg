SPECIFICATION FairSpec
CONSTANTS
    MaxBytes = 40
    MaxTools = 2
    MaxRetained = 60
    MaxItems = 3
    MaxParts = 3
    MaxWhite = 1
    Flows = {"chat", "responses", "search", "messages"}
    Chunks <- MCChunks
    MaxChunks = 4
    Answers <- MCAnswers
    SearchAnswers <- MCSearchAnswers
    Faults <- MCFaults
    SearchFaults <- MCSearchFaults
    MaxFaults = 1
    Relayed <- MCRelayed
INVARIANT NothingLost
INVARIANT SameAsJson
INVARIANT TokensAccounted
PROPERTY ImplementsMessages
PROPERTY StreamsEnd
CHECK_DEADLOCK FALSE
