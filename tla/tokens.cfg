\* Three logins, logouts or clean-ups at a time, two tokens, one mishap.
SPECIFICATION Spec
CONSTANTS
    session1 = session1
    session2 = session2
    session3 = session3
    Sessions = {session1, session2, session3}
    MaxSeconds = 1
    MaxMishaps = 1
    None = None
    Nobody = Nobody
    Orphan = Orphan
SYMMETRY Symmetry
INVARIANTS
    TypeOK
    OneTokenLeft
    LoginsAgree
PROPERTIES
    NoRevival
