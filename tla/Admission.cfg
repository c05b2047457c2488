SPECIFICATION Spec
CONSTANTS
    Accounts = {gm, pl}
    Seeded = {gm}
    Players = {pl}
    Characters = {hero}
    Clients = {k1, k2}
    Targets = {pl, hero}
    MaxSessions = 2
    MaxTickets = 1
    MaxRefreshes = 1
    Nobody = Nobody
    Races = {}
CHECK_DEADLOCK FALSE
INVARIANTS
    TicketAdmitsOnce
    SuspensionEndsAll
    LogoutIsFinal
