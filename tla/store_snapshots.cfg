SPECIFICATION FairSpec
CONSTANTS
    password = password
    totp = totp
    checkout = checkout
    reader = reader
    login = login
    users = users
    stripe = stripe
    Staged = {password}
    Scoped = {totp}
    Plain = {checkout}
    Readers = {reader}
    Keys = {login, users, stripe}
    Needs <- MCNeeds
    MaxFaults = 2
INVARIANTS AckedDurable SnapshotWhole ReadersSeeDurable
PROPERTIES StoreSafety EveryOperationAnswered
CHECK_DEADLOCK FALSE
