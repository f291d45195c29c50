SPECIFICATION AwsSpec
CONSTANTS
    g1 = g1  g2 = g2
    Goroutine = {g1, g2}
    MaxKey = 4
    Contents <- MCContents
    PageSize = 2
    MaxFailures = 2
    Unreadable = Unreadable
    Accounts <- MCAccounts
    Parts = {"networks"}
INVARIANTS
    AssetsScoped
CHECK_DEADLOCK FALSE
