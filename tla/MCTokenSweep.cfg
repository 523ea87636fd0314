SPECIFICATION Spec
CONSTANTS
    People = {ann}
    Browsers = {b1}
    Threads = {t1}
    TokenExpiryDays = 1
    CookieDays = 2
    Routes = {1}
    Commands = {"backup"}
    MaxSignIns = 1
    MaxCodes = 1
    MaxTokens = 1
    MaxRestarts = 0
    MaxDays = 2
PROPERTIES
    SweepSparesTokensInUse
CHECK_DEADLOCK FALSE
