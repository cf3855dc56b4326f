\* Two requests at a time of a publisher and one buyer.
SPECIFICATION Spec
CONSTANTS
    user1 = user1
    user2 = user2
    user3 = user3
    session1 = session1
    session2 = session2
    Users = {user1, user2, user3}
    Publisher = user1
    Sessions = {session1, session2}
    PageSize = 1
    RecallSeconds = 1
    Mixes = {{"open", "cast"}, {"cast", "recall"}, {"open", "block"}, {"send", "block"}, {"cast", "block"},
             {"send", "recall"}, {"send", "mark"}, {"send", "read", "hide"}}
    MaxMessages = 2
    MaxSeconds = 1
    MaxBlocks = 1
    MaxStops = 1
SYMMETRY Buyer_Symmetry
INVARIANTS
    TypeOK
    BlockHolds
    PreviewHonest
    PagesComplete
    BroadcastCounts
CHECK_DEADLOCK FALSE
