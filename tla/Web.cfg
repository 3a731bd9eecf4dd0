SPECIFICATION WebSpec
CONSTANTS
    Forms <- MCForms
    Sites <- MCSites
    Stored = {"tcp", "secret", "all", "http"}
    Typable <- MCTypable
    MaxTyped <- MCTyped
    MaxSubmits <- MCSubmits
    MaxOthers = 1
    Lists = {"clients", "tunnels", "hosts"}
    EntryIds = {1, 2}
    Named = {2}
    GroupIds = {1, 2}
    MaxDepth = 2
    PageSize = 1
    MaxFetches <- MCFetches
    MaxCalls = 1
    MaxActs <- MCActs
    Filed <- MCFiled
    MaxPending = 3
    MaxTurns = 3
INVARIANTS TypeOK RetryNeverDoubles RowsAnswerQuery GroupsFaithful EveryViewDrawn
PROPERTIES KeepsUntouched TypedIsStored SessionEndIsSeen
CHECK_DEADLOCK FALSE
