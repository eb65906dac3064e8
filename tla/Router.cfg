SPECIFICATION Spec
CONSTANTS
    Keys = {k1}
    Calls = {c1, c2}
    Stoppers = {"main", "other"}
    MaxSubs = 4
INVARIANTS SubscriptionsAgree NothingLeftArmed NoLateWork
PROPERTY CallsAnswered
