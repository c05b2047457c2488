SPECIFICATION SocietySpec
CONSTANTS
    Characters = {ann, bob, cid, dan}
    GuildNames = {ash, elm}
    Talkers = {ann, bob}
    Guildsmen = {ann, bob, cid}
    PartySize = 3
    MaxInvites = 2
    MaxGuildInvites = 2
    RingLimit = 3
    ListLimit = 2
    MaxMessages = 5
    SocialRaces = {}
SYMMETRY Symmetry
CHECK_DEADLOCK FALSE
INVARIANTS
    OneGroupEach
    ChatIsWhole
PROPERTY
    AskedIn
