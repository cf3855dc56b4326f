------------------------------ MODULE OrderBook ------------------------------
(***************************************************************************)
(* The order book of the campus marketplace: posts (services offered or    *)
(* wanted), goods (second-hand items), the orders placed on them, the      *)
(* sellers' credit and the delayed auto-confirm queue.                     *)
(*                                                                         *)
(* Each action is one HTTP handler, one scheduler job or one step of the   *)
(* delayed-queue worker, run to its end with no other handler in between.  *)
(* Database connections are opened with autocommit (db/base.py), so what   *)
(* a handler has already flushed when it fails stays written: the failing  *)
(* paths of a handler are alternatives with the partial effect they leave. *)
(***************************************************************************)
EXTENDS Integers, FiniteSets

CONSTANTS
    Users, Posts, Goods,
    PublisherOf,    \* publisher_id of every post and goods
    SlotChoices,    \* the values max_accepters takes
    MaxOrders,      \* bound: order rows ever created
    InitialCredit,  \* settings.USER_INITIAL_CREDIT_SCORE
    Award,          \* settings.ORDER_COMPLETE_CREDIT
    LightningLimit, \* settings.LIGHTNING_CANCEL_DAILY_LIMIT
    NoOrder,        \* an order row not created yet
    Ops,            \* bound: the optional operations this instance exercises
    Faults          \* the failures this instance exercises

Items == Posts \cup Goods
OrderIds == 1 .. MaxOrders

OptionalOps == {"admin", "delete", "delist", "edit_goods", "edit_lock", "edit_post", "edit_slots",
                "expire", "lightning", "relist", "suspend"}

ASSUME ItemsAssumption ==
    /\ Posts \cap Goods = {}
    /\ PublisherOf \in [Posts \cup Goods -> Users]

ASSUME BoundsAssumption ==
    /\ SlotChoices \subseteq Nat \ {0}
    /\ MaxOrders \in Nat
    /\ InitialCredit \in Int /\ Award \in Int
    /\ LightningLimit \in Nat
    /\ Ops \subseteq OptionalOps
    /\ Faults \subseteq {"credit", "enqueue", "worker"}

Directions == {"SELL", "BUY"}
TriggerTypes == {"COLLECTIVE", "APPLICATION"}
PostStatuses == {"OPEN", "SUSPENDED", "IN_PROGRESS", "CLOSED"}
GoodsStatuses == {"ON_SALE", "OFF_SHELF", "SOLD"}
OrderStatuses == {"PENDING", "ONGOING", "CONFIRMED", "COMPLETED", "CANCELED", "REJECTED"}

InHand == {"ONGOING", "CONFIRMED"}
Accepted == InHand \cup {"COMPLETED"}
Live == Accepted \cup {"PENDING"}

OrderRow == [item : Items, initiator : Users, buyer : Users, seller : Users,
             trigger : TriggerTypes]

ASSUME NoOrderAssumption == NoOrder \notin OrderRow

VARIABLES
    order,      \* order rows: what is fixed when the order is created
    status,     \* order.status; "NONE" before the row exists
    pstatus, direction, slots,  \* post.status, post.direction, post.max_accepters
    gstatus,    \* goods.status
    locked,     \* goods whose template_data holds "locked"
    deleted,    \* items with is_deleted set
    expired,    \* items whose expire_time has passed
    credit,     \* user.credit_score
    entries,    \* the rows of credit_log for each user
    uncredited, \* history: orders completed without moving the seller's score
    unlogged,   \* history: orders whose award moved the score but has no entry
    queue,      \* members of queue:order_auto_confirm
    claimed,    \* members the worker has removed and not finished
    used        \* today's order:cancel:limit:{uid} counters

orderVars == <<order, status>>
postVars == <<pstatus, direction, slots>>
goodsVars == <<gstatus, locked>>
itemVars == <<deleted, expired>>
creditVars == <<credit, entries, uncredited, unlogged>>
taskVars == <<queue, claimed>>
vars == <<order, status, pstatus, direction, slots, gstatus, locked, deleted,
          expired, credit, entries, uncredited, unlogged, queue, claimed, used>>

PublishedPosts ==
    /\ pstatus = [p \in Posts |-> "OPEN"]
    /\ direction \in [Posts -> Directions]
    /\ slots \in [Posts -> SlotChoices]

PublishedGoods ==
    /\ gstatus = [g \in Goods |-> "ON_SALE"]
    /\ locked = {}

Init ==
    /\ order = [o \in OrderIds |-> NoOrder]
    /\ status = [o \in OrderIds |-> "NONE"]
    /\ PublishedPosts
    /\ PublishedGoods
    /\ deleted = {}
    /\ expired = {}
    /\ credit = [u \in Users |-> InitialCredit]
    /\ entries = [u \in Users |-> 0]
    /\ uncredited = {}
    /\ unlogged = {}
    /\ queue = {}
    /\ claimed = {}
    /\ used = [u \in Users |-> 0]

\* The orders on item i whose status is in S.
OrdersOn(i, S) == {o \in OrderIds : status[o] \in S /\ order[o].item = i}

Parties(o) == {order[o].buyer, order[o].seller}

\* Slip: the duplicate check forgets orders that are already being served.
HasApplied_OnlyPending(u, i) ==
    \E o \in OrdersOn(i, {"PENDING"}) : u \in Parties(o) \cup {order[o].initiator}

HasApplied(u, i) ==
    \E o \in OrdersOn(i, Live) : u \in Parties(o) \cup {order[o].initiator}

-----------------------------------------------------------------------------
(* Creating orders *)

\* Order ids are handed out in sequence.
NextId(o) ==
    /\ status[o] = "NONE"
    /\ \A x \in OrderIds : x < o => status[x] # "NONE"

PostOrder(p, u) ==
    IF direction[p] = "BUY"
    THEN [item |-> p, initiator |-> u, buyer |-> PublisherOf[p], seller |-> u,
          trigger |-> "APPLICATION"]
    ELSE [item |-> p, initiator |-> u, buyer |-> u, seller |-> PublisherOf[p],
          trigger |-> "COLLECTIVE"]

GoodsOrder(g, u) ==
    [item |-> g, initiator |-> u, buyer |-> u, seller |-> PublisherOf[g],
     trigger |-> "APPLICATION"]

CreateOrder(row) ==
    /\ \E o \in OrderIds :
         /\ NextId(o)
         /\ order' = [order EXCEPT ![o] = row]
         /\ status' = [status EXCEPT ![o] = "PENDING"]
    /\ UNCHANGED <<pstatus, direction, slots, gstatus, locked, deleted, expired,
                   creditVars, queue, claimed, used>>

ApplyToPost(u, p) ==
    /\ p \notin deleted
    /\ u # PublisherOf[p]
    /\ pstatus[p] = "OPEN"
    /\ p \notin expired
    /\ ~HasApplied(u, p)
    /\ Cardinality(OrdersOn(p, Accepted)) < slots[p]
    /\ CreateOrder(PostOrder(p, u))

ApplyForGoods(u, g) ==
    /\ g \notin deleted
    /\ u # PublisherOf[g]
    /\ gstatus[g] = "ON_SALE"
    /\ g \notin expired
    /\ ~HasApplied(u, g)
    /\ CreateOrder(GoodsOrder(g, u))

-----------------------------------------------------------------------------
(* Accepting and turning down applicants *)

\* Order o goes ahead and every other pending order on its item is rejected.
TakeOnly(o) ==
    status' = [x \in OrderIds |->
                 IF x = o THEN "ONGOING"
                 ELSE IF x \in OrdersOn(order[o].item, {"PENDING"}) THEN "REJECTED"
                 ELSE status[x]]

\* Slip: the goods stay in the lobby.
BuyGoods_StaysOnSale(o) ==
    /\ status[o] = "PENDING"
    /\ order[o].item \in Goods \ deleted
    /\ gstatus[order[o].item] = "ON_SALE"
    /\ order[o].item \notin expired
    /\ TakeOnly(o)
    /\ locked' = locked \cup {order[o].item}
    /\ UNCHANGED <<order, pstatus, direction, slots, gstatus, deleted, expired,
                   creditVars, queue, claimed, used>>

BuyGoods(o) ==
    /\ status[o] = "PENDING"
    /\ order[o].item \in Goods \ deleted
    /\ gstatus[order[o].item] = "ON_SALE"
    /\ order[o].item \notin expired
    /\ TakeOnly(o)
    /\ locked' = locked \cup {order[o].item}
    /\ gstatus' = [gstatus EXCEPT ![order[o].item] = "OFF_SHELF"]
    /\ UNCHANGED <<order, pstatus, direction, slots, deleted, expired, creditVars,
                   queue, claimed, used>>

ApproveApplication(o) ==
    /\ status[o] = "PENDING"
    /\ order[o].item \in Posts \ deleted
    /\ order[o].trigger = "APPLICATION"
    /\ TakeOnly(o)
    /\ pstatus' = [pstatus EXCEPT ![order[o].item] = "IN_PROGRESS"]
    /\ UNCHANGED <<order, direction, slots, gstatus, locked, deleted, expired,
                   creditVars, queue, claimed, used>>

\* Slip: the accepted orders are counted before the new status is flushed.
ApproveCollective_CountsBefore(o) ==
    /\ status[o] = "PENDING"
    /\ order[o].item \in Posts \ deleted
    /\ order[o].trigger = "COLLECTIVE"
    /\ status' = [status EXCEPT ![o] = "ONGOING"]
    /\ LET p == order[o].item
           full == Cardinality(OrdersOn(p, Accepted)) >= slots[p]
       IN  pstatus' = [pstatus EXCEPT ![p] = IF full THEN "IN_PROGRESS" ELSE "OPEN"]
    /\ UNCHANGED <<order, direction, slots, gstatus, locked, deleted, expired,
                   creditVars, queue, claimed, used>>

ApproveCollective(o) ==
    /\ status[o] = "PENDING"
    /\ order[o].item \in Posts \ deleted
    /\ order[o].trigger = "COLLECTIVE"
    /\ status' = [status EXCEPT ![o] = "ONGOING"]
    /\ LET p == order[o].item
           full == Cardinality(OrdersOn(p, Accepted) \cup {o}) >= slots[p]
       IN  pstatus' = [pstatus EXCEPT ![p] = IF full THEN "IN_PROGRESS" ELSE "OPEN"]
    /\ UNCHANGED <<order, direction, slots, gstatus, locked, deleted, expired,
                   creditVars, queue, claimed, used>>

\* Slip: an order awaiting confirmation is not counted as remaining.
StatusWithout_OngoingOnly(o) ==
    IF OrdersOn(order[o].item, {"ONGOING"}) \ {o} # {} THEN "IN_PROGRESS" ELSE "OPEN"

\* Slip: the value of the other status column.
StatusWithout_OrderStatus(o) ==
    IF OrdersOn(order[o].item, InHand) \ {o} # {} THEN "ONGOING" ELSE "OPEN"

\* The post's status once order o has been dropped from it.
StatusWithout(o) ==
    IF OrdersOn(order[o].item, InHand) \ {o} # {} THEN "IN_PROGRESS" ELSE "OPEN"

RejectOrder(o) ==
    /\ status[o] = "PENDING"
    /\ order[o].item \in Posts \ deleted
    /\ status' = [status EXCEPT ![o] = "REJECTED"]
    /\ pstatus' = [pstatus EXCEPT ![order[o].item] = StatusWithout(o)]
    /\ UNCHANGED <<order, direction, slots, gstatus, locked, deleted, expired,
                   creditVars, queue, claimed, used>>

\* Slip: the wash also takes orders that are under way.
StartFulfilment_WashesAll(p) ==
    /\ p \notin deleted
    /\ pstatus[p] \in {"OPEN", "IN_PROGRESS", "SUSPENDED"}
    /\ direction[p] = "SELL"
    /\ OrdersOn(p, Accepted) # {}
    /\ pstatus' = [pstatus EXCEPT ![p] = "IN_PROGRESS"]
    /\ status' = [x \in OrderIds |->
                    IF x \in OrdersOn(p, {"PENDING", "ONGOING"}) THEN "REJECTED" ELSE status[x]]
    /\ UNCHANGED <<order, direction, slots, gstatus, locked, deleted, expired,
                   creditVars, queue, claimed, used>>

StartFulfilment(p) ==
    /\ p \notin deleted
    /\ pstatus[p] \in {"OPEN", "IN_PROGRESS", "SUSPENDED"}
    /\ direction[p] = "SELL"
    /\ OrdersOn(p, Accepted) # {}
    /\ pstatus' = [pstatus EXCEPT ![p] = "IN_PROGRESS"]
    /\ status' = [x \in OrderIds |->
                    IF x \in OrdersOn(p, {"PENDING"}) THEN "REJECTED" ELSE status[x]]
    /\ UNCHANGED <<order, direction, slots, gstatus, locked, deleted, expired,
                   creditVars, queue, claimed, used>>

-----------------------------------------------------------------------------
(* Delivery and completion *)

SubmitDelivery(o) ==
    /\ status[o] = "ONGOING"
    /\ status' = [status EXCEPT ![o] = "CONFIRMED"]
    /\ \/ queue' = queue \cup {o}
       \/ "enqueue" \in Faults /\ queue' = queue
    /\ UNCHANGED <<order, pstatus, direction, slots, gstatus, locked, deleted,
                   expired, creditVars, claimed, used>>

\* _apply_completion_side_effects, on the item if it is not deleted.
SettleItem(i) ==
    /\ pstatus' = [p \in Posts |-> IF p = i /\ i \notin deleted THEN "CLOSED" ELSE pstatus[p]]
    /\ gstatus' = [g \in Goods |-> IF g = i /\ i \notin deleted THEN "SOLD" ELSE gstatus[g]]
    /\ locked' = locked \ ({i} \ deleted)

\* The score and the entry are two statements; an award of 0 does neither.  A
\* failure before or between them is logged and the completion goes on.
AddCredit(o) ==
    LET seller == order[o].seller
        scored == credit' = [credit EXCEPT ![seller] = @ + Award]
    IN  \/ /\ Award # 0
           /\ scored
           /\ entries' = [entries EXCEPT ![seller] = @ + 1]
           /\ UNCHANGED <<uncredited, unlogged>>
        \/ /\ Award # 0 /\ "credit" \in Faults
           /\ scored
           /\ unlogged' = unlogged \cup {o}
           /\ UNCHANGED <<entries, uncredited>>
        \/ /\ Award = 0 \/ "credit" \in Faults
           /\ uncredited' = uncredited \cup {o}
           /\ UNCHANGED <<credit, entries, unlogged>>

Complete(o) ==
    /\ status' = [status EXCEPT ![o] = "COMPLETED"]
    /\ SettleItem(order[o].item)
    /\ AddCredit(o)
    /\ UNCHANGED <<order, direction, slots, deleted, expired, used>>

\* The post of the order is deleted: reading it flushes the new order status,
\* finds no post, and the request fails before anything else is done.
CompleteOrphan(o) ==
    /\ status' = [status EXCEPT ![o] = "COMPLETED"]
    /\ uncredited' = uncredited \cup {o}
    /\ UNCHANGED <<order, pstatus, direction, slots, gstatus, locked, deleted,
                   expired, credit, entries, unlogged, used>>

Orphan(o) == order[o].item \in Posts \cap deleted

AcceptDelivery(o) ==
    /\ status[o] = "CONFIRMED"
    /\ \/ ~Orphan(o) /\ Complete(o)
       \/ Orphan(o) /\ CompleteOrphan(o)
    /\ UNCHANGED taskVars

ForceComplete(o) ==
    /\ "admin" \in Ops
    /\ status[o] \in InHand
    /\ \/ ~Orphan(o) /\ Complete(o)
       \/ Orphan(o) /\ CompleteOrphan(o)
    /\ UNCHANGED taskVars

(* The delayed-queue worker *)

\* Slip: the whole batch is removed and only one member handled.
ClaimTask_RemovesBatch(o) ==
    /\ claimed = {}
    /\ o \in queue
    /\ queue' = {}
    /\ claimed' = {o}
    /\ UNCHANGED <<order, status, pstatus, direction, slots, gstatus, locked,
                   deleted, expired, creditVars, used>>

ClaimTask(o) ==
    /\ claimed = {}
    /\ o \in queue
    /\ queue' = queue \ {o}
    /\ claimed' = {o}
    /\ UNCHANGED <<order, status, pstatus, direction, slots, gstatus, locked,
                   deleted, expired, creditVars, used>>

\* Slip: the worker does not look at the status again.
AutoConfirm_Blind(o) ==
    /\ o \in claimed
    /\ Complete(o)
    /\ claimed' = claimed \ {o}
    /\ UNCHANGED queue

\* Slip: as the batch job does, the post is read with _get_post_for_update,
\* which raises when it is deleted.
AutoConfirm_NeedsPost(o) ==
    /\ o \in claimed
    /\ status[o] = "CONFIRMED"
    /\ claimed' = claimed \ {o}
    /\ \/ ~Orphan(o) /\ Complete(o)
       \/ Orphan(o) /\ UNCHANGED <<order, status, pstatus, direction, slots,
                                   gstatus, locked, deleted, expired, creditVars,
                                   used>>
    /\ UNCHANGED queue

AutoConfirm(o) ==
    /\ o \in claimed
    /\ status[o] = "CONFIRMED"
    /\ Complete(o)
    /\ claimed' = claimed \ {o}
    /\ UNCHANGED queue

SkipTask(o) ==
    /\ o \in claimed
    /\ status[o] # "CONFIRMED"
    /\ claimed' = claimed \ {o}
    /\ UNCHANGED <<order, status, pstatus, direction, slots, gstatus, locked,
                   deleted, expired, creditVars, queue, used>>

\* The process stops, or the handler raises, after the member was removed.
LoseTask(o) ==
    /\ "worker" \in Faults
    /\ o \in claimed
    /\ claimed' = claimed \ {o}
    /\ UNCHANGED <<order, status, pstatus, direction, slots, gstatus, locked,
                   deleted, expired, creditVars, queue, used>>

-----------------------------------------------------------------------------
(* Cancelling *)

Cancelable == {"PENDING"} \cup InHand

\* fast: within LIGHTNING_CANCEL_LIMIT_SECONDS of the order's creation.
MayCancel(o, u, fast) ==
    /\ status[o] \in Cancelable
    /\ u \in Parties(o)
    /\ fast => used[u] = 0 \/ used[u] < LightningLimit

CountCancel(u, fast) ==
    used' = [used EXCEPT ![u] = IF fast THEN @ + 1 ELSE @]

CancelPostOrder(o, u, fast) ==
    /\ MayCancel(o, u, fast)
    /\ order[o].item \in Posts \ deleted
    /\ status' = [status EXCEPT ![o] = "CANCELED"]
    /\ pstatus' = [pstatus EXCEPT ![order[o].item] = StatusWithout(o)]
    /\ CountCancel(u, fast)
    /\ UNCHANGED <<order, direction, slots, gstatus, locked, deleted, expired,
                   creditVars, queue, claimed>>

\* Slip: the lock stays.
CancelGoodsOrder_KeepsLock(o, u, fast) ==
    /\ MayCancel(o, u, fast)
    /\ order[o].item \in Goods
    /\ status' = [status EXCEPT ![o] = "CANCELED"]
    /\ CountCancel(u, fast)
    /\ UNCHANGED <<order, pstatus, direction, slots, gstatus, locked, deleted,
                   expired, creditVars, queue, claimed>>

CancelGoodsOrder(o, u, fast) ==
    /\ MayCancel(o, u, fast)
    /\ order[o].item \in Goods
    /\ status' = [status EXCEPT ![o] = "CANCELED"]
    /\ locked' = locked \ {order[o].item}
    /\ CountCancel(u, fast)
    /\ UNCHANGED <<order, pstatus, direction, slots, gstatus, deleted, expired,
                   creditVars, queue, claimed>>

\* As CompleteOrphan: the status is written, then the request fails.
CancelOrphan(o, u, fast) ==
    /\ MayCancel(o, u, fast)
    /\ Orphan(o)
    /\ status' = [status EXCEPT ![o] = "CANCELED"]
    /\ UNCHANGED <<order, pstatus, direction, slots, gstatus, locked, deleted,
                   expired, creditVars, queue, claimed, used>>

NewDay ==
    /\ "lightning" \in Ops
    /\ used' = [u \in Users |-> 0]
    /\ UNCHANGED <<order, status, pstatus, direction, slots, gstatus, locked,
                   deleted, expired, creditVars, queue, claimed>>

-----------------------------------------------------------------------------
(* What publishers, readers and the clock do to the items *)

SuspendPost(p) ==
    /\ "suspend" \in Ops
    /\ p \notin deleted /\ pstatus[p] = "OPEN"
    /\ pstatus' = [pstatus EXCEPT ![p] = "SUSPENDED"]
    /\ UNCHANGED <<order, status, direction, slots, gstatus, locked, deleted,
                   expired, creditVars, queue, claimed, used>>

ResumePost(p) ==
    /\ "suspend" \in Ops
    /\ p \notin deleted /\ pstatus[p] = "SUSPENDED"
    /\ pstatus' = [pstatus EXCEPT ![p] = "OPEN"]
    /\ UNCHANGED <<order, status, direction, slots, gstatus, locked, deleted,
                   expired, creditVars, queue, claimed, used>>

\* Only an administrator may edit a post somebody has applied to.  An edit of
\* both the direction and the number of slots is two of these.
UpdatePost(p) ==
    /\ p \notin deleted /\ pstatus[p] = "OPEN"
    /\ "admin" \in Ops \/ OrdersOn(p, {"PENDING"}) = {}
    /\ \/ /\ "edit_post" \in Ops
          /\ \E d \in Directions : direction' = [direction EXCEPT ![p] = d]
          /\ UNCHANGED slots
       \/ /\ "edit_slots" \in Ops
          /\ \E n \in SlotChoices : slots' = [slots EXCEPT ![p] = n]
          /\ UNCHANGED direction
    /\ UNCHANGED <<order, status, pstatus, gstatus, locked, deleted, expired,
                   creditVars, queue, claimed, used>>

DeleteItem(i) ==
    /\ "delete" \in Ops
    /\ i \notin deleted
    /\ deleted' = deleted \cup {i}
    /\ UNCHANGED <<order, status, pstatus, direction, slots, gstatus, locked,
                   expired, creditVars, queue, claimed, used>>

DelistGoods(g) ==
    /\ "delist" \in Ops
    /\ g \notin deleted /\ gstatus[g] = "ON_SALE"
    /\ gstatus' = [gstatus EXCEPT ![g] = "OFF_SHELF"]
    /\ UNCHANGED <<order, status, pstatus, direction, slots, locked, deleted,
                   expired, creditVars, queue, claimed, used>>

RelistGoods(g) ==
    /\ "relist" \in Ops
    /\ g \notin deleted /\ gstatus[g] = "OFF_SHELF"
    /\ gstatus' = [gstatus EXCEPT ![g] = "ON_SALE"]
    /\ UNCHANGED <<order, status, pstatus, direction, slots, locked, deleted,
                   expired, creditVars, queue, claimed, used>>

\* PATCH /goods/{id} sets any of status, expire_time and template_data, in which
\* an edit may overwrite the lock ("edit_lock").
UpdateGoods(g) ==
    /\ "edit_goods" \in Ops
    /\ g \notin deleted
    /\ \E s \in GoodsStatuses : gstatus' = [gstatus EXCEPT ![g] = s]
    /\ locked' \in IF "edit_lock" \in Ops THEN {locked \cup {g}, locked \ {g}} ELSE {locked}
    /\ expired' \in {expired \cup {g}, expired \ {g}}
    /\ UNCHANGED <<order, status, pstatus, direction, slots, deleted, creditVars,
                   queue, claimed, used>>

Expire(i) ==
    /\ "expire" \in Ops
    /\ expired' = expired \cup {i}
    /\ UNCHANGED <<order, status, pstatus, direction, slots, gstatus, locked,
                   deleted, creditVars, queue, claimed, used>>

\* The items of S that are past their expire_time leave the lobby.
WithdrawExpired(S) ==
    /\ pstatus' = [p \in Posts |->
         IF p \in S \cap expired /\ pstatus[p] = "OPEN" THEN "SUSPENDED" ELSE pstatus[p]]
    /\ gstatus' = [g \in Goods |->
         IF g \in S \cap expired /\ gstatus[g] = "ON_SALE" THEN "OFF_SHELF" ELSE gstatus[g]]
    /\ UNCHANGED <<order, status, direction, slots, locked, deleted, expired,
                   creditVars, queue, claimed, used>>

AutoSuspendExpired == WithdrawExpired(Items)

\* Showing an item overwrites its status, and the session of the read commits it.
ReadItem(i) == i \notin deleted /\ WithdrawExpired({i})

-----------------------------------------------------------------------------
FastChoices == IF "lightning" \in Ops THEN BOOLEAN ELSE {FALSE}

Application ==
    \/ \E u \in Users, p \in Posts : ApplyToPost(u, p)
    \/ \E u \in Users, g \in Goods : ApplyForGoods(u, g)

Decision ==
    \/ \E o \in OrderIds :
         \/ BuyGoods(o)
         \/ ApproveApplication(o)
         \/ ApproveCollective(o)
         \/ RejectOrder(o)
    \/ \E p \in Posts : StartFulfilment(p)

Delivery ==
    \E o \in OrderIds : SubmitDelivery(o) \/ AcceptDelivery(o) \/ ForceComplete(o)

Cancellation ==
    \E o \in OrderIds, u \in Users, fast \in FastChoices :
        \/ CancelPostOrder(o, u, fast)
        \/ CancelGoodsOrder(o, u, fast)
        \/ CancelOrphan(o, u, fast)

Claim == \E o \in OrderIds : ClaimTask(o)
Handle == \E o \in OrderIds : AutoConfirm(o) \/ SkipTask(o)

Upkeep ==
    \/ \E p \in Posts : SuspendPost(p) \/ ResumePost(p) \/ UpdatePost(p)
    \/ \E g \in Goods : DelistGoods(g) \/ RelistGoods(g) \/ UpdateGoods(g)
    \/ \E i \in Items : DeleteItem(i) \/ Expire(i) \/ ReadItem(i)
    \/ AutoSuspendExpired
    \/ NewDay

Next ==
    \/ Application
    \/ Decision
    \/ Delivery
    \/ Cancellation
    \/ Claim
    \/ Handle
    \/ \E o \in OrderIds : LoseTask(o)
    \/ Upkeep

Spec == Init /\ [][Next]_vars

\* The worker's loop never ends while the process runs; no user has to act.
WorkerFairness == WF_vars(Claim) /\ WF_vars(Handle)
FairSpec == Spec /\ WorkerFairness

-----------------------------------------------------------------------------
(* Properties *)

TypeOK ==
    /\ order \in [OrderIds -> OrderRow \cup {NoOrder}]
    /\ status \in [OrderIds -> OrderStatuses \cup {"NONE"}]
    /\ \A o \in OrderIds : status[o] # "NONE" => order[o] \in OrderRow
    /\ pstatus \in [Posts -> PostStatuses]
    /\ direction \in [Posts -> Directions]
    /\ slots \in [Posts -> SlotChoices]
    /\ gstatus \in [Goods -> GoodsStatuses]
    /\ locked \subseteq Goods
    /\ deleted \subseteq Items
    /\ expired \subseteq Items
    /\ credit \in [Users -> Int]
    /\ entries \in [Users -> Nat]
    /\ uncredited \subseteq OrderIds /\ unlogged \subseteq OrderIds
    /\ queue \subseteq OrderIds
    /\ claimed \subseteq OrderIds
    /\ used \in [Users -> Nat]

\* The orders whose completion moved u's score.
CreditedTo(u) ==
    {o \in OrderIds : status[o] = "COMPLETED" /\ o \notin uncredited /\ order[o].seller = u}

(* A user's credit is the initial score and one award for each of the orders
   he completed as a seller, whichever of the three ways (buyer, worker,
   administrator) completed it, and his credit log has one entry for each of
   them: no completion pays twice, none pays the buyer. Score and log differ
   by the awards whose entry failed, and by nothing else. *)
CreditMatchesCompletions ==
    \A u \in Users :
        /\ credit[u] = InitialCredit + Award * Cardinality(CreditedTo(u))
        /\ entries[u] = Cardinality(CreditedTo(u) \ unlogged)

(* Nobody has two live or completed orders on one item: the duplicate check of
   create_order holds up whatever is cancelled, rejected, reopened or edited
   between two applications. *)
OneOrderPerApplicant ==
    \A a, b \in OrderIds :
        /\ status[a] \in Live /\ status[b] \in Live
        /\ order[a].item = order[b].item
        /\ order[a].initiator = order[b].initiator
        => a = b

(* While an approved application on a post is under way the post recruits
   nobody: it is neither open nor suspended, has no pending applicant, and no
   second approved application. No cancellation, rejection, edit, completion or
   resumption of another order's party reopens it. *)
ApplicationExclusive ==
    \A o \in OrderIds :
        /\ status[o] \in InHand
        /\ order[o].item \in Posts
        /\ order[o].trigger = "APPLICATION"
        => /\ pstatus[order[o].item] \in {"IN_PROGRESS", "CLOSED"}
           /\ OrdersOn(order[o].item, {"PENDING"}) = {}
           /\ \A x \in OrdersOn(order[o].item, InHand) :
                order[x].trigger = "APPLICATION" => x = o

(* A post that recruits, or whose recruiting is suspended, has a free slot
   beside the orders under way, as long as nobody edits it: approve, reject,
   cancel, start and resume each leave the post's status in line with them. *)
RecruitingHasRoom ==
    \A p \in Posts : pstatus[p] \in {"OPEN", "SUSPENDED"} =>
        Cardinality(OrdersOn(p, InHand)) < slots[p]

(* The lock that a purchase puts on goods ends with the purchase: locked goods
   that still exist have a buyer, whatever path ended the purchases before and
   however the status was edited, unless an edit wrote the lock itself. *)
LockedHasBuyer ==
    \A g \in locked \ deleted : OrdersOn(g, InHand) # {}

(* Goods that are neither relisted nor edited while they are being sold stay
   off the shelf and locked for their one buyer; nobody else is pending. *)
PurchaseHeld ==
    \A o \in OrderIds :
        /\ status[o] \in InHand
        /\ order[o].item \in Goods
        => /\ gstatus[order[o].item] = "OFF_SHELF"
           /\ order[o].item \in locked
           /\ OrdersOn(order[o].item, InHand \cup {"PENDING"}) = {o}

(* Every order awaiting the buyer's confirmation has its auto-confirm task,
   queued or in the worker's hands, when neither Redis nor the worker fails:
   no cancellation of another order, claim or skip drops it. *)
ConfirmedHasTask ==
    \A o \in OrderIds : status[o] = "CONFIRMED" => o \in queue \cup claimed

(* An order awaiting confirmation is settled in the end with no help from the
   buyer, even when its post or goods have been deleted meanwhile. *)
ConfirmedSettles ==
    \A o \in OrderIds : status[o] = "CONFIRMED" ~> status[o] # "CONFIRMED"

(* The order book implements the lifecycle: see OrderLifecycle. *)
L == INSTANCE OrderLifecycle WITH
        Ids <- OrderIds, Rows <- OrderRow, NoRow <- NoOrder,
        row <- order, stage <- status
ImplementsLifecycle == L!Spec

=============================================================================
