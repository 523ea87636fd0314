SPECIFICATION Spec
CONSTANTS
    People = {ann, bob}
    Browsers = {b1, b2}
    Threads = {t1, t2}
    TokenExpiryDays = 1
    CookieDays = 2
    Routes = {0}
    Commands = {"logout_all"}
    MaxSignIns = 2
    MaxCodes = 2
    MaxTokens = 3
    MaxRestarts = 0
    MaxDays = 0
SYMMETRY Symmetry
INVARIANTS
    TypeOK
    NobodyActsAsAnother
    OneTokenPerApproval
CHECK_DEADLOCK FALSE
