SPECIFICATION FairSpec
CONSTANTS
    w = w
    c = c
    Source <- MCSource
    Initial = 0
    Watcher = w
    Client <- MCClient
    None = None
    Setups <- MCSetups
INVARIANTS
    FolderIsSound
    FailuresAreJudged
PROPERTIES
    AcceptedIsKept
    FolderSettles
