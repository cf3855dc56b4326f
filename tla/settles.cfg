\* A post and a goods that is neither relisted nor edited; the worker is fair.
SPECIFICATION FairSpec
CONSTANTS
    publisher = publisher
    guest1 = guest1
    guest2 = guest2
    guest3 = guest3
    post = post
    goods = goods
    Users = {publisher, guest1, guest2}
    Posts = {post}
    Goods = {goods}
    PublisherOf <- MCPublisherOf
    SlotChoices = {1, 2}
    MaxOrders = 3
    InitialCredit = 60
    Award = 10
    LightningLimit = 1
    NoOrder = NoOrder
    Ops = {"admin", "delete", "edit_slots"}
    Faults = {}
INVARIANTS
    PurchaseHeld
    ConfirmedHasTask
PROPERTIES
    ConfirmedSettles
