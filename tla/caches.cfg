\* Two requests at a time of every kind of step, two writes, every failure.
SPECIFICATION Spec
CONSTANTS
    session1 = session1
    session2 = session2
    session3 = session3
    Sessions = {session1, session2}
    Kinds = {"get_me", "get_user_public", "get_user_profile", "update_me", "update_user_admin", "delete_user_admin", "bind_phone", "release_reviews"}
    MaxWrites = 2
    Faults = {"redis", "stop"}
    None = None
SYMMETRY Symmetry
INVARIANTS
    TypeOK
    StaleHasCause
PROPERTIES
    DeletedStaysGone
