\* One goods, every optional operation on goods but writing the lock, every failure.
SPECIFICATION Spec
CONSTANTS
    publisher = publisher
    guest1 = guest1
    guest2 = guest2
    guest3 = guest3
    post = post
    goods = goods
    Users = {publisher, guest1, guest2}
    Posts = {}
    Goods = {goods}
    PublisherOf <- MCPublisherOf
    SlotChoices = {1, 2}
    MaxOrders = 3
    InitialCredit = 60
    Award = 10
    LightningLimit = 1
    NoOrder = NoOrder
    Ops = {"admin", "delete", "delist", "edit_goods", "expire", "lightning", "relist"}
    Faults = {"credit", "enqueue", "worker"}
SYMMETRY GuestSymmetry
INVARIANTS
    CreditMatchesCompletions
    LockedHasBuyer
