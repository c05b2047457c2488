SPECIFICATION Spec
CONSTANTS
    Characters = {ann, bob}
    Heroes = {ann}
    Slots = {1, 2}
    BarSlots = {1, 2}
    Keys = {k}
    NoKey = NoKey
    Auctions = {a1}
    Mails = {m1}
    Writers = {w}
    Start = 2
    Buyout = 2
    Deposit = 1
    Price = 1
    MaxCommits = 3
    Parties = {p1, p2}
    Guilds = {g1}
    Invites = {i1}
    MaxCalls = 5
    Accounts = {acct}
    Sessions = {s1, s2}
    Tickets = {t1}
    WorldSessions = {ws}
    MaxTokens = 3
    Callers = {c1, c2}
    Nobody = Nobody
    Races = {}
CHECK_DEADLOCK FALSE
INVARIANTS
    LedgerExplainsCopper
    GoodsAddUp
    OncePerKey
    MembershipAgrees
    DeadTokensOpenNothing
