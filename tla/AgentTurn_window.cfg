CONSTANTS
    Scores = {1, 2}
    Budget = 4
    ToolSize <- MCToolSize
    MaxTokens = 5
    SummarySize = 1
    HydrateLimit = 1
    MaxRounds = 2
    MaxCalls = 2
    MaxTurns = 2
SPECIFICATION AgentSpec
INVARIANTS
    AgentTypeOK
    KeptFits
    ValueThreshold
    PromptHasNoOrphans
    TurnIsWhole
