\* One order, two requests at a time of either party, two reviews; failing requests and a failing Redis.
SPECIFICATION FairSpec
CONSTANTS
    buyer = buyer
    seller = seller
    order1 = order1
    request1 = request1
    request2 = request2
    Users = {buyer, seller}
    Orders = {order1}
    PartiesOf <- MCPartiesOf
    Sessions = {request1, request2}
    MaxReviews = 2
    BlindDays = 1
    MaxTime = 1
    NoReview = NoReview
    NoOrder = NoOrder
    NoUser = NoUser
    Faults = {"crash", "redis"}
INVARIANTS
    TypeOK
    ReleasedInTime
    BothReviewed
    NoneLeftBehind
PROPERTIES
    ReviewsAppear
