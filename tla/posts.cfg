\* One post of which everything but the slots is edited; credit entries may fail.
SPECIFICATION Spec
CONSTANTS
    publisher = publisher
    guest1 = guest1
    guest2 = guest2
    guest3 = guest3
    post = post
    goods = goods
    Users = {publisher, guest1, guest2}
    Posts = {post}
    Goods = {}
    PublisherOf <- MCPublisherOf
    SlotChoices = {1, 2}
    MaxOrders = 3
    InitialCredit = 60
    Award = 10
    LightningLimit = 1
    NoOrder = NoOrder
    Ops = {"admin", "delete", "edit_post", "expire", "suspend"}
    Faults = {"credit"}
SYMMETRY GuestSymmetry
INVARIANTS
    TypeOK
    OneOrderPerApplicant
    ApplicationExclusive
    RecruitingHasRoom
PROPERTIES
    ImplementsLifecycle
