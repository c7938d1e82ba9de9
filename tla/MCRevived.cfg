\* An administrator changes a role twice at once while the second factor is turned on.
SPECIFICATION FactorSpec
CONSTANTS
    Requests = {r1, r2}
    Keys <- MCKeys
    LimitOf <- MCLimitOf
    Window = 1
    Day = 1
    AttemptIds <- MCAttemptIds
    MaxTime = 2
    ann = ann
    bob = bob
    Users = {ann, bob}
    NoUser = NoUser
    right = right
    wrong = wrong
    Passwords = {right, wrong}
    Unusable = Unusable
    home = home
    Addresses = {home}
    Links <- MCLinks
    RequiredRoles = {"admin", "accountant"}
    Secrets <- MCSecrets
    Scenarios <- OnlyOvertaking
SYMMETRY Symmetry
CHECK_DEADLOCK FALSE
INVARIANT PasswordAloneIsNotEnough
