\* Requests, a flush of goods, of a comment on them and of an id that does not exist; everything fails, or the lock expires early.
SPECIFICATION FairSpec
CONSTANTS
    item = item
    other = other
    ghost = ghost
    user = user
    remark = remark
    slot1 = slot1
    slot2 = slot2
    worker1 = worker1
    worker2 = worker2
    Kind = "GOODS"
    Items = {item, other, ghost}
    Stored = {item, other}
    Users = {user}
    Comments = {remark}
    OnItem <- MCOnItem
    Slots = {slot1}
    MaxRequests = 2
    Workers = {worker1, worker2}
    NoWorker = NoWorker
    FaultSets = {{"crash", "db", "redis"}, {"ttl"}}
INVARIANTS
    TypeOK
    ViewsConserved
PROPERTIES
    FlushGoesOn
