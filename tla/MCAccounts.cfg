\* Everything the accounts, the attempt limits and the second factor promise:
\* six scenarios, two requests at a time, three ticks of the clock.
SPECIFICATION FactorSpec
CONSTANTS
    Requests = {r1, r2}
    Keys <- MCKeys
    LimitOf <- MCLimitOf
    Window = 1
    Day = 1
    AttemptIds <- MCAttemptIds
    MaxTime = 2
    ann = ann
    bob = bob
    Users = {ann, bob}
    NoUser = NoUser
    right = right
    wrong = wrong
    Passwords = {right, wrong}
    Unusable = Unusable
    home = home
    Addresses = {home}
    Links <- MCLinks
    RequiredRoles = {"admin", "accountant"}
    Secrets <- MCSecrets
    Scenarios <- AllScenarios
SYMMETRY Symmetry
CHECK_DEADLOCK FALSE
INVARIANTS AccountsTypeOK AttemptsWithinLimit LocksMakeNoCircle OneResetLink NoCodeTwice OnlyARepeatedVersionRevives
