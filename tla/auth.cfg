SPECIFICATION ServerSpec

CONSTANTS
    NoConfig = NoConfig
    Challenges <- FewChallenges
    Salts <- FewSalts
    Drawn <- FewDrawn
    Text <- Concatenated
    Defaults <- FewDefaults
    Changes <- FewChanges
    Files <- FewFiles
    Configs <- FewConfigs
    SolveTime = 1
    MaxTime = 3
    MaxStarts = 2
    MaxSolving = 1
    MaxTokens = 2
    MaxVerifying = 2
    MaxOptions = 3

INVARIANTS
    TypeOK
    QuotaPerTokenID
    TokensEnd
    SolvedOnTheseTerms
    ServesItsConfig
CHECK_DEADLOCK FALSE
