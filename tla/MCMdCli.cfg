CONSTANTS
    Count = 1
    MaxRequests = 3
    MaxExpiries = 2
    MaxRestarts = 1
    Players = {1, 2}
    RequestIds = {1, 44, 45, 48, 55, 60, 70, 78}
    Payloads = {0, 9, 25}
    MaxAsked = 2
    MaxPosted = 1
    Nobody = Nobody
SPECIFICATION GatewaySpec
PROPERTY EverySendLeaves
INVARIANTS
    SentOnce
    AsAsked
    ToWhomPosted
CHECK_DEADLOCK FALSE
