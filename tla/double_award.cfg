\* Two completions of one order, statement by statement: both credit the seller.
SPECIFICATION Spec
CONSTANTS
    applicant = applicant
    other = other
    seller = seller
    post = post
    order1 = order1
    order2 = order2
    order3 = order3
    session1 = session1
    session2 = session2
    Users = {applicant, other, seller}
    Orders = {order1, order2, order3}
    ApplicantOf <- MCApplicantOf
    SellerOf <- MCSellerOf
    PostOf <- MCPostOf
    Before <- MCBefore
    Sessions = {session1, session2}
    Award = 1
    Limit = 1
    Hasty = {applicant}
    MaxMishaps = 1
    MaxMet = 1
    NoOrder = NoOrder
    NoUser = NoUser
    Nobody = Nobody
    Orphan = Orphan
SYMMETRY Symmetry
INVARIANTS
    AwardedOnce
CHECK_DEADLOCK FALSE
