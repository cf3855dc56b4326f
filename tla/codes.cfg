\* Two users who send and check codes for one address, two requests at a time.
SPECIFICATION Spec
CONSTANTS
    user1 = user1
    user2 = user2
    session1 = session1
    session2 = session2
    Users = {user1, user2}
    Sessions = {session1, session2}
    MaxAttempts = 2
    MaxSent = 2
    MaxGuesses = 4
    MaxMishaps = 1
    NoUser = NoUser
    Nobody = Nobody
    Orphan = Orphan
SYMMETRY Symmetry
INVARIANTS
    TypeOK
    GuessesBounded
    LatestCodeOnce
