SPECIFICATION FairSpec
CONSTANTS
    W = 2
    Configs <- MCConfigs
    None = None
    Hop <- MCHop
    RevertAfter = 4
    Margin = 2
    RestartBegins = 3
    RestartEnds = 7
    Watch = 1
    QuickRestart = FALSE
    MaxBoots = 3
    MaxEdits = 1
    MaxFaults = 1
INVARIANT TypeOK
INVARIANT OneAllow
INVARIANT MergedMinimal
INVARIANT AllowedHolds
PROPERTY OthersKept
PROPERTY OnlyChecked
PROPERTY AllowEnds
