CONSTANTS
    MaxScreens = 3
    Accounts = {a}
    NoAccount = NoAccount
    RetryCount = 1
    MaxUnderWay = 2
SPECIFICATION Spec
PROPERTIES
    MainAfterRegistration
