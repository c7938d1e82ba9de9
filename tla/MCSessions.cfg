\* Whose rows a request reads while it shares the connections with another and
\* accounts change.
SPECIFICATION Spec
CONSTANTS
    ann = ann
    bob = bob
    Requests = {r1, r2}
    Users = {ann, bob}
    Nobody = Nobody
    Pool = {c1}
    FirstRoles <- MCFirstRoles
    GivenRoles = {"employee"}
    MaxVersion = 2
    MaxCalls = 2
    MaxUpdates = 2
CHECK_DEADLOCK FALSE
INVARIANTS SessionsTypeOK ReadsAreTheCallers EventsInOwnName CallersAreCurrent
PROPERTY RequestsFinish
