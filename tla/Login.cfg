\* Three login screens and two logouts; three requests under way at a time.
CONSTANTS
    MaxScreens = 5
    Accounts = {a, b}
    NoAccount = NoAccount
    RetryCount = 2
    MaxUnderWay = 3
SPECIFICATION Spec
INVARIANTS
    TypeOK
    SignedOutOnLogin
    TokenKept
    UserKept
    MemoryFollowsKeychain
PROPERTIES
    LogoutProgresses
    LogoutDropsToken
