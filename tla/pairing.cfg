SPECIFICATION FairSpec
CONSTANTS
    Accounts = {a1, a2}
    Listed = {p1, p2}
    Unlisted = {}
    MaxCodes = 2
    None = None
    Forever = Forever
    TokenLives = {2}
    Margin = 1
    SessionMax = 1
    WaitMax = 1
    MaxRuns = 2
    MaxFaults = 1
    MaxSaves = 1
INVARIANT TypeOK
INVARIANT OneAccount
INVARIANT KeyBacked
INVARIANT CodeOnPage
INVARIANT SessionGone
INVARIANT PickedByPerson
INVARIANT DoneAgrees
PROPERTY Enrolls
PROPERTY RunsEnd
