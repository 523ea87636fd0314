SPECIFICATION FairSpec
CONSTANTS
    People = {ann}
    Browsers = {b1}
    Threads = {t1, t2}
    TokenExpiryDays = 1
    CookieDays = 2
    Routes = {0, 2}
    Commands = {"set_role", "lock", "logout_all", "backup"}
    MaxSignIns = 1
    MaxCodes = 1
    MaxTokens = 1
    MaxRestarts = 1
    MaxDays = 2
INVARIANTS
    ServedWhileAllowed
PROPERTIES
    SignInsAreSwept
CHECK_DEADLOCK FALSE
