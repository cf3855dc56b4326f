-------------------------- MODULE OrderBook_proofs --------------------------
(***************************************************************************)
(* What TLAPS proves about OrderBook, for every number of users, items and *)
(* orders, every award and every choice of Ops and Faults.                 *)
(***************************************************************************)
EXTENDS OrderBook, FiniteSetTheorems, TLAPS

USE ItemsAssumption, BoundsAssumption DEF creditVars

LEMMA TypeInit == Init => TypeOK
  BY DEF Init, PublishedPosts, PublishedGoods, TypeOK, OrderStatuses, PostStatuses, GoodsStatuses,
         Items

LEMMA PostOrderType ==
    ASSUME TypeOK, NEW u \in Users, NEW p \in Posts
    PROVE  PostOrder(p, u) \in OrderRow
  BY DEF TypeOK, PostOrder, OrderRow, Items, TriggerTypes

LEMMA GoodsOrderType ==
    ASSUME NEW u \in Users, NEW g \in Goods
    PROVE  GoodsOrder(g, u) \in OrderRow
  BY DEF GoodsOrder, OrderRow, Items, TriggerTypes

LEMMA CreateOrderType ==
    ASSUME TypeOK, NEW row \in OrderRow, CreateOrder(row)
    PROVE  TypeOK'
  BY DEF TypeOK, CreateOrder, OrderStatuses

LEMMA ApplicationType == TypeOK /\ Application => TypeOK'
  <1> SUFFICES ASSUME TypeOK, Application PROVE TypeOK'
    OBVIOUS
  <1>1. ASSUME NEW u \in Users, NEW p \in Posts, ApplyToPost(u, p) PROVE TypeOK'
    BY <1>1, PostOrderType, CreateOrderType DEF ApplyToPost
  <1>2. ASSUME NEW u \in Users, NEW g \in Goods, ApplyForGoods(u, g) PROVE TypeOK'
    BY <1>2, GoodsOrderType, CreateOrderType DEF ApplyForGoods
  <1> QED
    BY <1>1, <1>2 DEF Application

LEMMA TakeOnlyType ==
    ASSUME TypeOK, NEW o \in OrderIds, status[o] = "PENDING", TakeOnly(o), UNCHANGED order
    PROVE  /\ status' \in [OrderIds -> OrderStatuses \cup {"NONE"}]
           /\ \A x \in OrderIds : status'[x] # "NONE" => order'[x] \in OrderRow
  BY DEF TypeOK, TakeOnly, OrderStatuses, OrdersOn

LEMMA DecisionType == TypeOK /\ Decision => TypeOK'
  <1> SUFFICES ASSUME TypeOK, Decision PROVE TypeOK'
    OBVIOUS
  <1>1. ASSUME NEW o \in OrderIds, BuyGoods(o) PROVE TypeOK'
    BY <1>1, TakeOnlyType DEF TypeOK, BuyGoods, GoodsStatuses
  <1>2. ASSUME NEW o \in OrderIds, ApproveApplication(o) PROVE TypeOK'
    BY <1>2, TakeOnlyType DEF TypeOK, ApproveApplication, PostStatuses
  <1>3. ASSUME NEW o \in OrderIds, ApproveCollective(o) PROVE TypeOK'
    BY <1>3 DEF TypeOK, ApproveCollective, PostStatuses, OrderStatuses
  <1>4. ASSUME NEW o \in OrderIds, RejectOrder(o) PROVE TypeOK'
    BY <1>4 DEF TypeOK, RejectOrder, StatusWithout, PostStatuses, OrderStatuses
  <1>5. ASSUME NEW p \in Posts, StartFulfilment(p) PROVE TypeOK'
    BY <1>5 DEF TypeOK, StartFulfilment, PostStatuses, OrderStatuses, OrdersOn
  <1> QED
    BY <1>1, <1>2, <1>3, <1>4, <1>5 DEF Decision

LEMMA CompleteType ==
    ASSUME TypeOK, NEW o \in OrderIds, status[o] \in InHand, Complete(o),
           queue' \subseteq OrderIds, claimed' \subseteq OrderIds
    PROVE  TypeOK'
  <1>1. order[o].seller \in Users
    BY DEF TypeOK, InHand, OrderRow
  <1>2. /\ credit' \in [Users -> Int]
        /\ entries' \in [Users -> Nat]
        /\ uncredited' \subseteq OrderIds /\ unlogged' \subseteq OrderIds
    BY <1>1 DEF TypeOK, Complete, AddCredit
  <1>3. /\ pstatus' \in [Posts -> PostStatuses]
        /\ gstatus' \in [Goods -> GoodsStatuses]
        /\ locked' \subseteq Goods
    BY DEF TypeOK, Complete, SettleItem, PostStatuses, GoodsStatuses
  <1> QED
    BY <1>2, <1>3 DEF TypeOK, Complete, OrderStatuses, InHand

LEMMA CompleteOrphanType ==
    ASSUME TypeOK, NEW o \in OrderIds, status[o] \in InHand, CompleteOrphan(o),
           UNCHANGED taskVars
    PROVE  TypeOK'
  BY DEF TypeOK, CompleteOrphan, taskVars, OrderStatuses, InHand

LEMMA DeliveryType == TypeOK /\ Delivery => TypeOK'
  <1> SUFFICES ASSUME TypeOK, Delivery PROVE TypeOK'
    OBVIOUS
  <1>1. ASSUME NEW o \in OrderIds, SubmitDelivery(o) PROVE TypeOK'
    BY <1>1 DEF TypeOK, SubmitDelivery, OrderStatuses
  <1>2. ASSUME NEW o \in OrderIds, AcceptDelivery(o) \/ ForceComplete(o) PROVE TypeOK'
    BY <1>2, CompleteType, CompleteOrphanType
    DEF AcceptDelivery, ForceComplete, InHand, taskVars, TypeOK
  <1> QED
    BY <1>1, <1>2 DEF Delivery

LEMMA WorkerType ==
    TypeOK /\ (Claim \/ Handle \/ \E o \in OrderIds : LoseTask(o)) => TypeOK'
  <1> SUFFICES ASSUME TypeOK, Claim \/ Handle \/ \E o \in OrderIds : LoseTask(o)
               PROVE  TypeOK'
    OBVIOUS
  <1>1. ASSUME NEW o \in OrderIds, AutoConfirm(o) PROVE TypeOK'
    <2>1. status[o] \in InHand /\ queue' \subseteq OrderIds /\ claimed' \subseteq OrderIds
      BY <1>1 DEF AutoConfirm, InHand, TypeOK
    <2> QED
      BY <1>1, <2>1, CompleteType DEF AutoConfirm
  <1>2. ASSUME NEW o \in OrderIds, ClaimTask(o) \/ SkipTask(o) \/ LoseTask(o)
        PROVE  TypeOK'
    BY <1>2 DEF TypeOK, ClaimTask, SkipTask, LoseTask
  <1> QED
    BY <1>1, <1>2 DEF Claim, Handle

LEMMA CancellationType == TypeOK /\ Cancellation => TypeOK'
  <1> SUFFICES ASSUME TypeOK,
                      NEW o \in OrderIds, NEW u \in Users, NEW fast \in FastChoices,
                      \/ CancelPostOrder(o, u, fast)
                      \/ CancelGoodsOrder(o, u, fast)
                      \/ CancelOrphan(o, u, fast)
               PROVE  TypeOK'
    BY DEF Cancellation
  <1>1. CASE CancelPostOrder(o, u, fast)
    BY <1>1 DEF TypeOK, CancelPostOrder, MayCancel, Cancelable, InHand, CountCancel,
                StatusWithout, OrderStatuses, PostStatuses
  <1>2. CASE CancelGoodsOrder(o, u, fast)
    BY <1>2 DEF TypeOK, CancelGoodsOrder, MayCancel, Cancelable, InHand, CountCancel,
                OrderStatuses
  <1>3. CASE CancelOrphan(o, u, fast)
    BY <1>3 DEF TypeOK, CancelOrphan, MayCancel, Cancelable, InHand, OrderStatuses
  <1> QED
    BY <1>1, <1>2, <1>3

LEMMA UpkeepType == TypeOK /\ Upkeep => TypeOK'
  <1> SUFFICES ASSUME TypeOK, Upkeep PROVE TypeOK'
    OBVIOUS
  <1>1. ASSUME NEW p \in Posts, SuspendPost(p) \/ ResumePost(p) PROVE TypeOK'
    BY <1>1 DEF TypeOK, SuspendPost, ResumePost, PostStatuses
  <1>2. ASSUME NEW p \in Posts, UpdatePost(p) PROVE TypeOK'
    BY <1>2 DEF TypeOK, UpdatePost
  <1>3. ASSUME NEW g \in Goods, DelistGoods(g) \/ RelistGoods(g) PROVE TypeOK'
    BY <1>3 DEF TypeOK, DelistGoods, RelistGoods, GoodsStatuses
  <1>4. ASSUME NEW g \in Goods, UpdateGoods(g) PROVE TypeOK'
    BY <1>4 DEF TypeOK, UpdateGoods, Items
  <1>5. ASSUME NEW i \in Items, DeleteItem(i) \/ Expire(i) PROVE TypeOK'
    BY <1>5 DEF TypeOK, DeleteItem, Expire
  <1>6. ASSUME NEW S, WithdrawExpired(S) PROVE TypeOK'
    BY <1>6 DEF TypeOK, WithdrawExpired, PostStatuses, GoodsStatuses
  <1>7. ASSUME NewDay PROVE TypeOK'
    BY <1>7 DEF TypeOK, NewDay
  <1> QED
    BY <1>1, <1>2, <1>3, <1>4, <1>5, <1>6, <1>7 DEF Upkeep, ReadItem, AutoSuspendExpired

LEMMA TypeStep == TypeOK /\ [Next]_vars => TypeOK'
  <1>1. TypeOK /\ UNCHANGED vars => TypeOK'
    BY DEF TypeOK, vars
  <1> QED
    BY <1>1, ApplicationType, DecisionType, DeliveryType, WorkerType,
       CancellationType, UpkeepType DEF Next

(* Every variable keeps its type, whatever the handlers, jobs and failures. *)
THEOREM TypeCorrect == Spec => []TypeOK
  BY TypeInit, TypeStep, PTL DEF Spec

-----------------------------------------------------------------------------
(* Every step but an application moves orders forward along the lifecycle. *)

OnlyAdvances ==
    /\ UNCHANGED order
    /\ \A o \in OrderIds :
         \/ status'[o] = status[o]
         \/ status[o] = "PENDING" /\ status'[o] \in {"ONGOING", "REJECTED", "CANCELED"}
         \/ status[o] \in InHand /\ status'[o] \in {"CONFIRMED", "COMPLETED", "CANCELED"}

\* A step after which the same orders are completed and no credit has moved.
Unpaid ==
    /\ UNCHANGED creditVars
    /\ \A o \in OrderIds : status'[o] = "COMPLETED" <=> status[o] = "COMPLETED"

LEMMA DecisionAdvances == TypeOK /\ Decision => OnlyAdvances /\ Unpaid
  <1> SUFFICES ASSUME TypeOK, Decision PROVE OnlyAdvances /\ Unpaid
    OBVIOUS
  <1>1. ASSUME NEW o \in OrderIds, status[o] = "PENDING", TakeOnly(o), UNCHANGED order
        PROVE  OnlyAdvances /\ \A x \in OrderIds : status'[x] = "COMPLETED" <=> status[x] = "COMPLETED"
    BY <1>1 DEF TypeOK, TakeOnly, OrdersOn, OnlyAdvances
  <1>2. ASSUME NEW o \in OrderIds, BuyGoods(o) \/ ApproveApplication(o)
        PROVE  OnlyAdvances /\ Unpaid
    BY <1>1, <1>2 DEF BuyGoods, ApproveApplication, Unpaid, creditVars
  <1>3. ASSUME NEW o \in OrderIds, ApproveCollective(o) \/ RejectOrder(o)
        PROVE  OnlyAdvances /\ Unpaid
    BY <1>3 DEF TypeOK, ApproveCollective, RejectOrder, OnlyAdvances, Unpaid, creditVars
  <1>4. ASSUME NEW p \in Posts, StartFulfilment(p) PROVE OnlyAdvances /\ Unpaid
    BY <1>4 DEF TypeOK, StartFulfilment, OrdersOn, OnlyAdvances, Unpaid, creditVars
  <1> QED
    BY <1>2, <1>3, <1>4 DEF Decision

LEMMA SubmitAdvances ==
    ASSUME TypeOK, NEW o \in OrderIds, SubmitDelivery(o)
    PROVE  OnlyAdvances /\ Unpaid
  BY DEF TypeOK, SubmitDelivery, OnlyAdvances, Unpaid, creditVars, InHand

LEMMA CancellationAdvances == TypeOK /\ Cancellation => OnlyAdvances /\ Unpaid
  BY DEF TypeOK, Cancellation, CancelPostOrder, CancelGoodsOrder, CancelOrphan,
         MayCancel, Cancelable, InHand, OnlyAdvances, Unpaid, creditVars

LEMMA QuietAdvances ==
    TypeOK /\ (Claim \/ (\E o \in OrderIds : SkipTask(o) \/ LoseTask(o)) \/ Upkeep)
    => UNCHANGED <<order, status, creditVars>>
  BY DEF Claim, ClaimTask, SkipTask, LoseTask, Upkeep, SuspendPost, ResumePost, UpdatePost,
         DelistGoods, RelistGoods, UpdateGoods, DeleteItem, Expire, ReadItem,
         AutoSuspendExpired, WithdrawExpired, NewDay

LEMMA CompletionAdvances ==
    ASSUME TypeOK, NEW o \in OrderIds, status[o] \in InHand, Complete(o) \/ CompleteOrphan(o)
    PROVE  OnlyAdvances
  BY DEF TypeOK, Complete, CompleteOrphan, OnlyAdvances

\* The four kinds of step, as the invariants below see them.
LEMMA StepKinds ==
    ASSUME TypeOK, [Next]_vars
    PROVE  \/ Application
           \/ OnlyAdvances /\ Unpaid
           \/ \E o \in OrderIds :
                status[o] \in InHand /\ (Complete(o) \/ CompleteOrphan(o))
  <1>1. CASE UNCHANGED vars
    BY <1>1 DEF vars, OnlyAdvances, Unpaid, creditVars
  <1>2. CASE Application
    BY <1>2
  <1>3. CASE Decision
    BY <1>3, DecisionAdvances
  <1>4. CASE Cancellation
    BY <1>4, CancellationAdvances
  <1>5. CASE Claim \/ (\E o \in OrderIds : SkipTask(o) \/ LoseTask(o)) \/ Upkeep
    BY <1>5, QuietAdvances DEF OnlyAdvances, Unpaid, creditVars
  <1>6. ASSUME NEW o \in OrderIds, SubmitDelivery(o) PROVE OnlyAdvances /\ Unpaid
    BY <1>6, SubmitAdvances
  <1>7. ASSUME NEW o \in OrderIds, AcceptDelivery(o) \/ ForceComplete(o) \/ AutoConfirm(o)
        PROVE  status[o] \in InHand /\ (Complete(o) \/ CompleteOrphan(o))
    BY <1>7 DEF AcceptDelivery, ForceComplete, AutoConfirm, InHand
  <1> QED
    BY <1>1, <1>2, <1>3, <1>4, <1>5, <1>6, <1>7 DEF Next, Delivery, Handle

-----------------------------------------------------------------------------
(* Credit *)

\* A credit failure is only ever noted for an order that is completed.
CreditInv ==
    /\ TypeOK
    /\ \A o \in uncredited \cup unlogged : status[o] = "COMPLETED"
    /\ CreditMatchesCompletions

LEMMA OrdersFinite == \A S \in SUBSET OrderIds : IsFiniteSet(S) /\ Cardinality(S) \in Nat
  <1>1. IsFiniteSet(OrderIds)
    BY FS_Interval DEF OrderIds
  <1> QED
    BY <1>1, FS_Subset, FS_CardinalityType

LEMMA UnpaidKeepsCredit ==
    ASSUME CreditInv, TypeOK', UNCHANGED creditVars,
           \A o \in OrderIds : status'[o] = "COMPLETED" <=> status[o] = "COMPLETED",
           \A o \in OrderIds : status[o] = "COMPLETED" => order'[o] = order[o]
    PROVE  CreditInv'
  <1>1. \A u \in Users : CreditedTo(u)' = CreditedTo(u)
    BY DEF CreditedTo, creditVars
  <1> QED
    BY <1>1 DEF CreditInv, CreditMatchesCompletions, creditVars, TypeOK

LEMMA CompletionKeepsCredit ==
    ASSUME CreditInv, TypeOK', NEW o \in OrderIds, status[o] \in InHand,
           Complete(o) \/ CompleteOrphan(o)
    PROVE  CreditInv'
  <1> PICK seller \in Users : seller = order[o].seller
    BY DEF CreditInv, InHand, TypeOK, OrderRow
  <1>1. /\ status' = [status EXCEPT ![o] = "COMPLETED"]
        /\ UNCHANGED order
        /\ status[o] # "COMPLETED" /\ o \notin uncredited \cup unlogged
    BY DEF Complete, CompleteOrphan, CreditInv, InHand, TypeOK
  <1>2. CASE uncredited' = uncredited \cup {o} /\ UNCHANGED <<credit, entries, unlogged>>
    <2>1. \A u \in Users : CreditedTo(u)' = CreditedTo(u)
      BY <1>1, <1>2 DEF CreditedTo, CreditInv, TypeOK
    <2>2. \A u \in Users : (CreditedTo(u) \ unlogged)' = CreditedTo(u) \ unlogged
      BY <1>2, <2>1
    <2>3. CreditMatchesCompletions'
      BY <1>2, <2>1, <2>2 DEF CreditInv, CreditMatchesCompletions
    <2>4. \A x \in (uncredited \cup unlogged)' : status'[x] = "COMPLETED"
      BY <1>1, <1>2 DEF CreditInv, TypeOK
    <2> QED
      BY <2>3, <2>4 DEF CreditInv
  <1>3. CASE /\ credit' = [credit EXCEPT ![seller] = @ + Award]
             /\ UNCHANGED uncredited
             /\ \/ entries' = [entries EXCEPT ![seller] = @ + 1] /\ UNCHANGED unlogged
                \/ unlogged' = unlogged \cup {o} /\ UNCHANGED entries
    <2>1. /\ CreditedTo(seller)' = CreditedTo(seller) \cup {o}
          /\ o \notin CreditedTo(seller)
          /\ \A u \in Users \ {seller} : CreditedTo(u)' = CreditedTo(u) /\ o \notin CreditedTo(u)
      BY <1>1, <1>3 DEF CreditedTo, CreditInv, TypeOK
    <2> DEFINE Entered(u) == CreditedTo(u) \ unlogged
    <2>2. /\ IsFiniteSet(CreditedTo(seller)) /\ Cardinality(CreditedTo(seller)) \in Nat
          /\ IsFiniteSet(Entered(seller)) /\ Cardinality(Entered(seller)) \in Nat
      BY OrdersFinite DEF CreditedTo
    <2>3. Cardinality(CreditedTo(seller)') = Cardinality(CreditedTo(seller)) + 1
      BY <2>1, <2>2, FS_AddElement
    <2>4. credit'[seller] = credit[seller] + Award
      BY <1>1, <1>3 DEF CreditInv, TypeOK
    <2>5. credit[seller] = InitialCredit + Award * Cardinality(CreditedTo(seller))
      BY <1>1 DEF CreditInv, CreditMatchesCompletions
    <2>6. credit'[seller] = InitialCredit + Award * Cardinality(CreditedTo(seller)')
      <3> DEFINE n == Cardinality(CreditedTo(seller))
      <3>1. n \in Nat
        BY <2>2
      <3>2. credit'[seller] = InitialCredit + Award * n + Award
        BY <2>4, <2>5
      <3> HIDE DEF n
      <3>3. InitialCredit + Award * n + Award = InitialCredit + Award * (n + 1)
        BY <3>1
      <3> QED
        BY <3>2, <3>3, <2>3 DEF n
    <2>7. ASSUME NEW u \in Users, u # seller
          PROVE  credit'[u] = InitialCredit + Award * Cardinality(CreditedTo(u)')
      BY <2>1, <2>7, <1>3 DEF CreditInv, CreditMatchesCompletions, TypeOK
    <2>8. entries'[seller] = Cardinality(Entered(seller)')
      <3>1. CASE entries' = [entries EXCEPT ![seller] = @ + 1] /\ UNCHANGED unlogged
        <4>1. Entered(seller)' = Entered(seller) \cup {o} /\ o \notin Entered(seller)
          BY <1>1, <2>1, <3>1
        <4>2. Cardinality(Entered(seller)') = Cardinality(Entered(seller)) + 1
          BY <2>2, <4>1, FS_AddElement
        <4>3. entries'[seller] = entries[seller] + 1
          BY <3>1 DEF CreditInv, TypeOK
        <4> QED
          BY <4>2, <4>3 DEF CreditInv, CreditMatchesCompletions
      <3>2. CASE unlogged' = unlogged \cup {o} /\ UNCHANGED entries
        <4>1. Entered(seller)' = Entered(seller)
          BY <2>1, <3>2
        <4> QED
          BY <3>2, <4>1 DEF CreditInv, CreditMatchesCompletions
      <3> QED
        BY <1>3, <3>1, <3>2
    <2>9. ASSUME NEW u \in Users, u # seller PROVE entries'[u] = Cardinality(Entered(u)')
      <3>1. Entered(u)' = Entered(u)
        BY <1>3, <2>1, <2>9
      <3>2. entries'[u] = entries[u]
        BY <1>3, <2>9 DEF CreditInv, TypeOK
      <3> QED
        BY <3>1, <3>2 DEF CreditInv, CreditMatchesCompletions
    <2>10. CreditMatchesCompletions'
      BY <2>6, <2>7, <2>8, <2>9 DEF CreditMatchesCompletions
    <2>11. \A x \in (uncredited \cup unlogged)' : status'[x] = "COMPLETED"
      BY <1>1, <1>3 DEF CreditInv, TypeOK
    <2> QED
      BY <2>10, <2>11 DEF CreditInv
  <1> QED
    BY <1>2, <1>3 DEF Complete, CompleteOrphan, AddCredit

LEMMA CreditInit == Init => CreditInv
  <1> SUFFICES ASSUME Init PROVE CreditInv
    OBVIOUS
  <1>1. \A u \in Users : CreditedTo(u) = {} /\ CreditedTo(u) \ unlogged = {}
    BY DEF Init, CreditedTo
  <1> QED
    BY <1>1, TypeInit, FS_EmptySet DEF Init, CreditInv, CreditMatchesCompletions

LEMMA CreditStep == CreditInv /\ [Next]_vars => CreditInv'
  <1> SUFFICES ASSUME CreditInv, [Next]_vars PROVE CreditInv'
    OBVIOUS
  <1>1. TypeOK /\ TypeOK'
    BY TypeStep DEF CreditInv
  <1>2. CASE Application
    <2>1. /\ UNCHANGED creditVars
          /\ \A o \in OrderIds : status'[o] = "COMPLETED" <=> status[o] = "COMPLETED"
          /\ \A o \in OrderIds : status[o] = "COMPLETED" => order'[o] = order[o]
      BY <1>1, <1>2 DEF Application, ApplyToPost, ApplyForGoods, CreateOrder, NextId,
                        creditVars, TypeOK
    <2> QED
      BY <1>1, <2>1, UnpaidKeepsCredit
  <1>3. CASE OnlyAdvances /\ Unpaid
    BY <1>1, <1>3, UnpaidKeepsCredit DEF OnlyAdvances, Unpaid
  <1>4. CASE \E o \in OrderIds :
               status[o] \in InHand /\ (Complete(o) \/ CompleteOrphan(o))
    BY <1>1, <1>4, CompletionKeepsCredit
  <1> QED
    BY <1>1, <1>2, <1>3, <1>4, StepKinds

(* Every completion pays its seller one award, and nothing else moves credit;
   the log has every award but those whose entry failed. *)
THEOREM CreditCorrect == Spec => []CreditMatchesCompletions
  <1>1. CreditInv => CreditMatchesCompletions
    BY DEF CreditInv
  <1> QED
    BY <1>1, CreditInit, CreditStep, PTL DEF Spec

-----------------------------------------------------------------------------
(* One order per applicant and item *)

LEMMA ApplicationKeepsOne ==
    ASSUME TypeOK, OneOrderPerApplicant, Application
    PROVE  OneOrderPerApplicant'
  <1>1. PICK o \in OrderIds, row \in OrderRow :
          /\ status[o] = "NONE"
          /\ order' = [order EXCEPT ![o] = row]
          /\ status' = [status EXCEPT ![o] = "PENDING"]
          /\ \A x \in OrderIds : ~(/\ status[x] \in Live
                                   /\ order[x].item = row.item
                                   /\ order[x].initiator = row.initiator)
    <2>1. ASSUME NEW u \in Users, NEW i, NEW row \in OrderRow, ~HasApplied(u, i),
                 row.item = i, row.initiator = u, CreateOrder(row)
          PROVE  \E o \in OrderIds :
                   /\ status[o] = "NONE"
                   /\ order' = [order EXCEPT ![o] = row]
                   /\ status' = [status EXCEPT ![o] = "PENDING"]
                   /\ \A x \in OrderIds : ~(/\ status[x] \in Live
                                            /\ order[x].item = row.item
                                            /\ order[x].initiator = row.initiator)
      BY <2>1 DEF CreateOrder, NextId, HasApplied, OrdersOn
    <2>2. ASSUME NEW u \in Users, NEW p \in Posts
          PROVE  /\ PostOrder(p, u) \in OrderRow
                 /\ PostOrder(p, u).item = p
                 /\ PostOrder(p, u).initiator = u
      BY PostOrderType DEF PostOrder
    <2>3. ASSUME NEW u \in Users, NEW g \in Goods
          PROVE  /\ GoodsOrder(g, u) \in OrderRow
                 /\ GoodsOrder(g, u).item = g
                 /\ GoodsOrder(g, u).initiator = u
      BY GoodsOrderType DEF GoodsOrder
    <2> QED
      BY <2>1, <2>2, <2>3 DEF Application, ApplyToPost, ApplyForGoods
  <1> SUFFICES ASSUME NEW a \in OrderIds, NEW b \in OrderIds,
                      status'[a] \in Live, status'[b] \in Live,
                      order'[a].item = order'[b].item,
                      order'[a].initiator = order'[b].initiator
               PROVE  a = b
    BY DEF OneOrderPerApplicant
  <1>2. CASE a # o /\ b # o
    BY <1>1, <1>2 DEF OneOrderPerApplicant, TypeOK
  <1>3. CASE a = o \/ b = o
    BY <1>1, <1>3 DEF TypeOK
  <1> QED
    BY <1>2, <1>3

LEMMA OneOrderStep == TypeOK /\ OneOrderPerApplicant /\ [Next]_vars => OneOrderPerApplicant'
  <1> SUFFICES ASSUME TypeOK, OneOrderPerApplicant, [Next]_vars
               PROVE  OneOrderPerApplicant'
    OBVIOUS
  <1>1. CASE Application
    BY <1>1, ApplicationKeepsOne
  <1>2. CASE OnlyAdvances
    <2>1. /\ UNCHANGED order
          /\ \A o \in OrderIds : status'[o] \in Live => status[o] \in Live
      BY <1>2 DEF OnlyAdvances, Live, Accepted, InHand
    <2> QED
      BY <2>1 DEF OneOrderPerApplicant
  <1> QED
    BY <1>1, <1>2, StepKinds, CompletionAdvances

(* Nobody ever has two live or completed orders on one item. *)
THEOREM OneOrderCorrect == Spec => []OneOrderPerApplicant
  <1>1. Init => OneOrderPerApplicant
    BY DEF Init, OneOrderPerApplicant, Live, Accepted, InHand
  <1> QED
    BY <1>1, OneOrderStep, TypeInit, TypeStep, PTL DEF Spec

-----------------------------------------------------------------------------
(* Auto-confirm tasks *)

LEMMA TaskStep ==
    ASSUME TypeOK, ConfirmedHasTask, [Next]_vars, Faults \cap {"enqueue", "worker"} = {}
    PROVE  ConfirmedHasTask'
  <1>1. ASSUME NEW o \in OrderIds, SubmitDelivery(o) PROVE ConfirmedHasTask'
    BY <1>1 DEF ConfirmedHasTask, SubmitDelivery, TypeOK
  <1>2. ASSUME NEW o \in OrderIds, ClaimTask(o) \/ SkipTask(o) PROVE ConfirmedHasTask'
    BY <1>2 DEF ConfirmedHasTask, ClaimTask, SkipTask
  <1>3. ASSUME NEW o \in OrderIds, AutoConfirm(o) PROVE ConfirmedHasTask'
    BY <1>3 DEF ConfirmedHasTask, AutoConfirm, Complete, TypeOK
  <1>4. ASSUME NEW o \in OrderIds, AcceptDelivery(o) \/ ForceComplete(o)
        PROVE  ConfirmedHasTask'
    BY <1>4 DEF ConfirmedHasTask, AcceptDelivery, ForceComplete, Complete, CompleteOrphan,
                taskVars, TypeOK
  <1>5. ASSUME UNCHANGED taskVars,
               \A o \in OrderIds : status'[o] = "CONFIRMED" => status[o] = "CONFIRMED"
        PROVE  ConfirmedHasTask'
    BY <1>5 DEF ConfirmedHasTask, taskVars
  <1>6. CASE Application
    BY <1>5, <1>6 DEF Application, ApplyToPost, ApplyForGoods, CreateOrder, taskVars, TypeOK
  <1>7. CASE Decision
    BY <1>5, <1>7 DEF Decision, BuyGoods, ApproveApplication, ApproveCollective, RejectOrder,
                      StartFulfilment, TakeOnly, taskVars, TypeOK
  <1>8. CASE Cancellation
    BY <1>5, <1>8 DEF Cancellation, CancelPostOrder, CancelGoodsOrder, CancelOrphan,
                      taskVars, TypeOK
  <1>9. CASE Upkeep
    BY <1>5, <1>9 DEF Upkeep, SuspendPost, ResumePost, UpdatePost, DelistGoods, RelistGoods,
                      UpdateGoods, DeleteItem, Expire, ReadItem, AutoSuspendExpired,
                      WithdrawExpired, NewDay, taskVars
  <1>10. CASE UNCHANGED vars
    BY <1>5, <1>10 DEF vars, taskVars
  <1> QED
    BY <1>1, <1>2, <1>3, <1>4, <1>6, <1>7, <1>8, <1>9, <1>10
    DEF Next, Delivery, Claim, Handle, LoseTask

(* Unless Redis or the worker fails, no order awaiting confirmation ever loses
   its auto-confirm task. *)
THEOREM TasksKept ==
    ASSUME Faults \cap {"enqueue", "worker"} = {}
    PROVE  Spec => []ConfirmedHasTask
  <1>1. Init => ConfirmedHasTask
    BY DEF Init, ConfirmedHasTask
  <1>2. TypeOK /\ ConfirmedHasTask /\ [Next]_vars => ConfirmedHasTask'
    BY TaskStep
  <1> QED
    BY <1>1, <1>2, TypeInit, TypeStep, PTL DEF Spec

-----------------------------------------------------------------------------
(* The order book implements the lifecycle of OrderLifecycle *)

LEMMA DecisionIsDecide == TypeOK /\ Decision => L!Next
  <1> SUFFICES ASSUME TypeOK, Decision PROVE L!Next
    OBVIOUS
  <1>1. ASSUME NEW taken \in SUBSET OrderIds, NEW turnedAway \in SUBSET OrderIds,
               \A x \in taken \cup turnedAway : status[x] = "PENDING",
               status' = [x \in OrderIds |-> IF x \in taken THEN "ONGOING"
                                             ELSE IF x \in turnedAway THEN "REJECTED"
                                             ELSE status[x]],
               UNCHANGED <<order, credit>>
        PROVE  L!Next
    BY <1>1 DEF L!Next, L!Decide
  <1>2. ASSUME NEW o \in OrderIds, status[o] = "PENDING", TakeOnly(o), UNCHANGED <<order, credit>>
        PROVE  L!Next
    <2> DEFINE away == OrdersOn(order[o].item, {"PENDING"})
    <2>1. /\ {o} \in SUBSET OrderIds /\ away \in SUBSET OrderIds
          /\ \A x \in {o} \cup away : status[x] = "PENDING"
          /\ status' = [x \in OrderIds |-> IF x \in {o} THEN "ONGOING"
                                           ELSE IF x \in away THEN "REJECTED"
                                           ELSE status[x]]
      BY <1>2 DEF TakeOnly, OrdersOn
    <2> HIDE DEF away
    <2> QED
      BY <1>1, <1>2, <2>1
  <1>3. ASSUME NEW o \in OrderIds, BuyGoods(o) \/ ApproveApplication(o) PROVE L!Next
    BY <1>2, <1>3 DEF BuyGoods, ApproveApplication
  <1>4. ASSUME NEW o \in OrderIds, ApproveCollective(o) PROVE L!Next
    <2>1. /\ {o} \in SUBSET OrderIds /\ {} \in SUBSET OrderIds
          /\ \A x \in {o} \cup {} : status[x] = "PENDING"
          /\ status' = [x \in OrderIds |-> IF x \in {o} THEN "ONGOING"
                                           ELSE IF x \in {} THEN "REJECTED"
                                           ELSE status[x]]
          /\ UNCHANGED <<order, credit>>
      BY <1>4 DEF ApproveCollective, TypeOK
    <2> QED
      BY <1>1, <2>1
  <1>5. ASSUME NEW o \in OrderIds, RejectOrder(o) PROVE L!Next
    <2>1. /\ {o} \in SUBSET OrderIds /\ {} \in SUBSET OrderIds
          /\ \A x \in {} \cup {o} : status[x] = "PENDING"
          /\ status' = [x \in OrderIds |-> IF x \in {} THEN "ONGOING"
                                           ELSE IF x \in {o} THEN "REJECTED"
                                           ELSE status[x]]
          /\ UNCHANGED <<order, credit>>
      BY <1>5 DEF RejectOrder, TypeOK
    <2> QED
      BY <1>1, <2>1
  <1>6. ASSUME NEW p \in Posts, StartFulfilment(p) PROVE L!Next
    <2> DEFINE away == OrdersOn(p, {"PENDING"})
    <2>1. /\ {} \in SUBSET OrderIds /\ away \in SUBSET OrderIds
          /\ \A x \in {} \cup away : status[x] = "PENDING"
          /\ status' = [x \in OrderIds |-> IF x \in {} THEN "ONGOING"
                                           ELSE IF x \in away THEN "REJECTED"
                                           ELSE status[x]]
          /\ UNCHANGED <<order, credit>>
      BY <1>6 DEF StartFulfilment, OrdersOn
    <2> HIDE DEF away
    <2> QED
      BY <1>1, <2>1
  <1> QED
    BY <1>3, <1>4, <1>5, <1>6 DEF Decision

LEMMA ApplicationIsPlace == TypeOK /\ Application => L!Next
  <1> SUFFICES ASSUME TypeOK, NEW row \in OrderRow, CreateOrder(row) PROVE L!Next
    BY PostOrderType, GoodsOrderType DEF Application, ApplyToPost, ApplyForGoods
  <1> QED
    BY DEF CreateOrder, NextId, L!Next, L!Place

LEMMA LifecycleStep == TypeOK /\ [Next]_vars => [L!Next]_(L!vars)
  <1> SUFFICES ASSUME TypeOK, [Next]_vars PROVE [L!Next]_(L!vars)
    OBVIOUS
  <1>1. CASE Decision
    BY <1>1, DecisionIsDecide
  <1>2. CASE Application
    BY <1>2, ApplicationIsPlace
  <1>3. ASSUME NEW o \in OrderIds, SubmitDelivery(o) PROVE L!Next
    BY <1>3 DEF SubmitDelivery, L!Next, L!Deliver
  <1>4. ASSUME NEW o \in OrderIds, AcceptDelivery(o) \/ ForceComplete(o) \/ AutoConfirm(o)
        PROVE  L!Next
    <2>1. status[o] \in InHand /\ (Complete(o) \/ CompleteOrphan(o))
      BY <1>4 DEF AcceptDelivery, ForceComplete, AutoConfirm, InHand
    <2>2. L!Complete(o)
      BY <2>1 DEF Complete, CompleteOrphan, AddCredit, L!Complete, InHand
    <2> QED
      BY <2>2 DEF L!Next
  <1>5. CASE Cancellation
    BY <1>5 DEF Cancellation, CancelPostOrder, CancelGoodsOrder, CancelOrphan, MayCancel,
                Cancelable, InHand, L!Next, L!Cancel
  <1>6. CASE Claim \/ (\E o \in OrderIds : SkipTask(o) \/ LoseTask(o)) \/ Upkeep
    BY <1>6, QuietAdvances DEF L!vars
  <1>7. CASE UNCHANGED vars
    BY <1>7 DEF vars, L!vars
  <1> QED
    BY <1>1, <1>2, <1>3, <1>4, <1>5, <1>6, <1>7 DEF Next, Delivery, Handle

(* Every behaviour of the order book is one of the abstract lifecycle. *)
THEOREM Refinement == Spec => ImplementsLifecycle
  <1>1. Init => L!Init
    BY DEF Init, L!Init
  <1> QED
    BY <1>1, LifecycleStep, TypeInit, TypeStep, PTL DEF Spec, ImplementsLifecycle, L!Spec

-----------------------------------------------------------------------------
(* The status of a post or a goods and the orders on it: each invariant below *)
(* is inductive with the type invariant.                                      *)

LEMMA ItemOfOrder ==
    ASSUME TypeOK, NEW o \in OrderIds, status[o] # "NONE"
    PROVE  /\ order[o].item \in Items
           /\ order[o].item \in Posts <=> order[o].item \notin Goods
  <1>1. order[o] \in OrderRow
    BY DEF TypeOK
  <1> QED
    BY <1>1 DEF OrderRow, Items

-----------------------------------------------------------------------------
(* An approved application has the post to itself *)

\* A step that touches no post but closes those it likes, and adds nobody to
\* the pending or accepted applicants of a post.
LEMMA ExclusiveKept ==
    ASSUME ApplicationExclusive,
           \A o \in OrderIds : status'[o] \in InHand =>
               status[o] \in InHand /\ order'[o] = order[o],
           \A o \in OrderIds : status'[o] = "PENDING" =>
               status[o] = "PENDING" /\ order'[o] = order[o],
           \A p \in Posts : pstatus[p] \in {"IN_PROGRESS", "CLOSED"}
               => pstatus'[p] \in {"IN_PROGRESS", "CLOSED"}
    PROVE  ApplicationExclusive'
  BY DEF ApplicationExclusive, OrdersOn

LEMMA ExclusiveApplication ==
    ASSUME TypeOK, ApplicationExclusive, Application
    PROVE  ApplicationExclusive'
  <1>1. ASSUME NEW u \in Users, NEW p \in Posts, ApplyToPost(u, p)
        PROVE  ApplicationExclusive'
    <2>1. PICK n \in OrderIds :
            /\ status[n] = "NONE"
            /\ order' = [order EXCEPT ![n] = PostOrder(p, u)]
            /\ status' = [status EXCEPT ![n] = "PENDING"]
      BY <1>1 DEF ApplyToPost, CreateOrder, NextId
    <2>2. /\ pstatus[p] = "OPEN" /\ UNCHANGED pstatus
          /\ PostOrder(p, u).item = p
      BY <1>1 DEF ApplyToPost, CreateOrder, PostOrder
    <2>3. \A x \in OrderIds : x # n => status'[x] = status[x] /\ order'[x] = order[x]
      BY <2>1 DEF TypeOK
    <2>4. status'[n] = "PENDING" /\ order'[n].item = p
      BY <2>1, <2>2 DEF TypeOK
    <2> QED
      BY <2>2, <2>3, <2>4 DEF ApplicationExclusive, OrdersOn, InHand
  <1>2. ASSUME NEW u \in Users, NEW g \in Goods, ApplyForGoods(u, g)
        PROVE  ApplicationExclusive'
    <2>1. PICK n \in OrderIds :
            /\ status[n] = "NONE"
            /\ order' = [order EXCEPT ![n] = GoodsOrder(g, u)]
            /\ status' = [status EXCEPT ![n] = "PENDING"]
      BY <1>2 DEF ApplyForGoods, CreateOrder, NextId
    <2>2. GoodsOrder(g, u).item = g /\ g \notin Posts /\ UNCHANGED pstatus
      BY <1>2 DEF ApplyForGoods, CreateOrder, GoodsOrder
    <2>3. \A x \in OrderIds : x # n => status'[x] = status[x] /\ order'[x] = order[x]
      BY <2>1 DEF TypeOK
    <2>4. status'[n] = "PENDING" /\ order'[n].item \notin Posts
      BY <2>1, <2>2 DEF TypeOK
    <2> QED
      BY <2>2, <2>3, <2>4 DEF ApplicationExclusive, OrdersOn, InHand
  <1> QED
    BY <1>1, <1>2 DEF Application

LEMMA ExclusiveDecision ==
    ASSUME TypeOK, ApplicationExclusive, Decision
    PROVE  ApplicationExclusive'
  <1>1. ASSUME NEW o \in OrderIds, BuyGoods(o) PROVE ApplicationExclusive'
    <2>1. order[o].item \notin Posts
      BY <1>1 DEF BuyGoods
    <2>2. \A x \in OrderIds :
            \/ status'[x] = status[x]
            \/ status[x] = "PENDING" /\ order[x].item = order[o].item
      BY <1>1 DEF BuyGoods, TakeOnly, OrdersOn, TypeOK
    <2> QED
      BY <1>1, <2>1, <2>2 DEF BuyGoods, ApplicationExclusive, OrdersOn
  <1>2. ASSUME NEW o \in OrderIds, ApproveApplication(o) PROVE ApplicationExclusive'
    <2> DEFINE p == order[o].item
    <2>1. /\ p \in Posts /\ pstatus'[p] = "IN_PROGRESS"
          /\ \A q \in Posts \ {p} : pstatus'[q] = pstatus[q]
          /\ UNCHANGED order
      BY <1>2 DEF ApproveApplication, TypeOK
    <2>2. \A x \in OrderIds : order[x].item = p =>
            /\ status'[x] # "PENDING"
            /\ status'[x] \in InHand => x = o \/ status[x] \in InHand
      BY <1>2 DEF ApproveApplication, TakeOnly, OrdersOn, InHand
    <2>3. \A x \in OrderIds : order[x].item # p => status'[x] = status[x]
      BY <1>2 DEF ApproveApplication, TakeOnly, OrdersOn
    <2>4. \A x \in OrderIds :
            order[x].item = p /\ status[x] \in InHand => order[x].trigger # "APPLICATION"
      BY <1>2, <2>1 DEF ApproveApplication, ApplicationExclusive, OrdersOn
    <2> HIDE DEF p
    <2> QED
      BY <2>1, <2>2, <2>3, <2>4 DEF ApplicationExclusive, OrdersOn
  <1>3. ASSUME NEW o \in OrderIds, ApproveCollective(o) PROVE ApplicationExclusive'
    <2> DEFINE p == order[o].item
    <2>1. /\ p \in Posts /\ \A q \in Posts \ {p} : pstatus'[q] = pstatus[q]
          /\ status' = [status EXCEPT ![o] = "ONGOING"] /\ UNCHANGED order
          /\ order[o].trigger = "COLLECTIVE" /\ status[o] = "PENDING"
      BY <1>3 DEF ApproveCollective, TypeOK
    <2>2. \A x \in OrdersOn(p, InHand) : order[x].trigger # "APPLICATION"
      BY <2>1 DEF ApplicationExclusive, OrdersOn
    <2> HIDE DEF p
    <2> QED
      BY <2>1, <2>2 DEF ApplicationExclusive, OrdersOn, TypeOK, InHand, p
  <1>4. ASSUME NEW o \in OrderIds, RejectOrder(o) PROVE ApplicationExclusive'
    <2>1. \A p \in Posts : pstatus'[p] = pstatus[p]
                           \/ (p = order[o].item /\ status[o] = "PENDING")
      BY <1>4 DEF RejectOrder, TypeOK
    <2> QED
      BY <1>4, <2>1 DEF RejectOrder, ApplicationExclusive, OrdersOn, TypeOK, InHand
  <1>5. ASSUME NEW p \in Posts, StartFulfilment(p) PROVE ApplicationExclusive'
    BY <1>5, ExclusiveKept DEF StartFulfilment, OrdersOn, TypeOK, InHand
  <1> QED
    BY <1>1, <1>2, <1>3, <1>4, <1>5 DEF Decision

LEMMA ExclusiveCompletion ==
    ASSUME TypeOK, ApplicationExclusive, NEW o \in OrderIds, status[o] \in InHand,
           Complete(o) \/ CompleteOrphan(o)
    PROVE  ApplicationExclusive'
  <1>1. /\ status' = [status EXCEPT ![o] = "COMPLETED"] /\ UNCHANGED order
        /\ \A p \in Posts : pstatus'[p] \in {pstatus[p], "CLOSED"}
    BY DEF Complete, CompleteOrphan, SettleItem
  <1> QED
    BY <1>1, ExclusiveKept DEF TypeOK, InHand

LEMMA ExclusiveCancellation ==
    ASSUME TypeOK, ApplicationExclusive, Cancellation
    PROVE  ApplicationExclusive'
  <1> PICK o \in OrderIds, u \in Users, fast \in FastChoices :
        \/ CancelPostOrder(o, u, fast)
        \/ CancelGoodsOrder(o, u, fast)
        \/ CancelOrphan(o, u, fast)
    BY DEF Cancellation
  <1>1. CASE CancelPostOrder(o, u, fast)
    <2> DEFINE p == order[o].item
    <2>1. /\ p \in Posts /\ pstatus'[p] = StatusWithout(o)
          /\ \A q \in Posts \ {p} : pstatus'[q] = pstatus[q]
          /\ status' = [status EXCEPT ![o] = "CANCELED"] /\ UNCHANGED order
      BY <1>1 DEF CancelPostOrder, TypeOK
    <2>2. OrdersOn(p, InHand) \ {o} # {} => pstatus'[p] = "IN_PROGRESS"
      BY <2>1 DEF StatusWithout
    <2> HIDE DEF p
    <2> QED
      BY <2>1, <2>2 DEF ApplicationExclusive, OrdersOn, TypeOK, InHand
  <1>2. CASE CancelGoodsOrder(o, u, fast) \/ CancelOrphan(o, u, fast)
    BY <1>2, ExclusiveKept DEF CancelGoodsOrder, CancelOrphan, TypeOK, InHand
  <1> QED
    BY <1>1, <1>2

LEMMA ExclusiveStep == TypeOK /\ ApplicationExclusive /\ [Next]_vars => ApplicationExclusive'
  <1> SUFFICES ASSUME TypeOK, ApplicationExclusive, [Next]_vars PROVE ApplicationExclusive'
    OBVIOUS
  <1>1. ASSUME NEW o \in OrderIds, SubmitDelivery(o) PROVE ApplicationExclusive'
    BY <1>1, ExclusiveKept DEF SubmitDelivery, TypeOK, InHand
  <1>2. ASSUME NEW o \in OrderIds, AcceptDelivery(o) \/ ForceComplete(o) \/ AutoConfirm(o)
        PROVE  ApplicationExclusive'
    BY <1>2, ExclusiveCompletion DEF AcceptDelivery, ForceComplete, AutoConfirm, InHand
  <1>3. CASE Claim \/ (\E o \in OrderIds : SkipTask(o) \/ LoseTask(o)) \/ Upkeep
    <2>1. UNCHANGED <<order, status>>
      BY <1>3, QuietAdvances
    <2>2. \A p \in Posts : pstatus[p] \in {"IN_PROGRESS", "CLOSED"} => pstatus'[p] = pstatus[p]
      BY <1>3 DEF Claim, ClaimTask, SkipTask, LoseTask, Upkeep, SuspendPost, ResumePost,
                  UpdatePost, DelistGoods, RelistGoods, UpdateGoods, DeleteItem, Expire,
                  ReadItem, AutoSuspendExpired, WithdrawExpired, NewDay, TypeOK
    <2> QED
      BY <2>1, <2>2, ExclusiveKept
  <1>4. CASE UNCHANGED vars
    BY <1>4 DEF vars, ApplicationExclusive, OrdersOn
  <1> QED
    BY <1>1, <1>2, <1>3, <1>4, ExclusiveApplication, ExclusiveDecision, ExclusiveCancellation
    DEF Next, Delivery, Handle

(* While an approved application is under way nothing recruits for its post. *)
THEOREM ExclusiveCorrect == Spec => []ApplicationExclusive
  <1>1. Init => ApplicationExclusive
    BY DEF Init, ApplicationExclusive, InHand
  <1> QED
    BY <1>1, ExclusiveStep, TypeInit, TypeStep, PTL DEF Spec

-----------------------------------------------------------------------------
(* Recruiting posts have room *)

Recruiting == {"OPEN", "SUSPENDED"}

LEMMA OnItemFinite ==
    ASSUME NEW p, NEW S
    PROVE  IsFiniteSet(OrdersOn(p, S)) /\ Cardinality(OrdersOn(p, S)) \in Nat
  BY OrdersFinite DEF OrdersOn

LEMMA SlotsPositive ==
    ASSUME TypeOK, NEW p \in Posts
    PROVE  slots[p] \in Nat /\ 0 < slots[p]
  <1>1. slots[p] \in SlotChoices
    BY DEF TypeOK
  <1>2. slots[p] \in Nat \ {0}
    BY <1>1
  <1> QED
    BY <1>2

\* Room is kept by a step that opens no post and puts no order in hand.
LEMMA RoomKept ==
    ASSUME TypeOK, RecruitingHasRoom, UNCHANGED slots,
           \A p \in Posts : pstatus'[p] \in Recruiting => pstatus[p] \in Recruiting,
           \A o \in OrderIds : status'[o] \in InHand =>
               status[o] \in InHand /\ order'[o] = order[o]
    PROVE  RecruitingHasRoom'
  <1> SUFFICES ASSUME NEW p \in Posts, pstatus'[p] \in Recruiting
               PROVE  Cardinality(OrdersOn(p, InHand)') < slots'[p]
    BY DEF RecruitingHasRoom, Recruiting
  <1>1. OrdersOn(p, InHand)' \subseteq OrdersOn(p, InHand)
    BY DEF OrdersOn
  <1>2. /\ Cardinality(OrdersOn(p, InHand)') <= Cardinality(OrdersOn(p, InHand))
        /\ Cardinality(OrdersOn(p, InHand)') \in Nat
    BY <1>1, OnItemFinite, FS_Subset, FS_CardinalityType
  <1>3. Cardinality(OrdersOn(p, InHand)) < slots[p]
    BY DEF RecruitingHasRoom, Recruiting
  <1>4. slots[p] \in Nat /\ Cardinality(OrdersOn(p, InHand)) \in Nat
    BY OnItemFinite DEF TypeOK
  <1> QED
    BY <1>2, <1>3, <1>4

\* The post an order is dropped from recruits only if nobody is left on it.
LEMMA RoomWithout ==
    ASSUME TypeOK, RecruitingHasRoom, UNCHANGED <<order, slots>>,
           NEW o \in OrderIds, order[o].item \in Posts, NEW s, s \notin InHand,
           status' = [status EXCEPT ![o] = s],
           pstatus' = [pstatus EXCEPT ![order[o].item] = StatusWithout(o)]
    PROVE  RecruitingHasRoom'
  <1> SUFFICES ASSUME NEW p \in Posts, pstatus'[p] \in Recruiting
               PROVE  Cardinality(OrdersOn(p, InHand)') < slots'[p]
    BY DEF RecruitingHasRoom, Recruiting
  <1>1. CASE p = order[o].item
    <2>1. OrdersOn(p, InHand) \ {o} = {}
      BY <1>1 DEF StatusWithout, Recruiting, TypeOK
    <2>2. OrdersOn(p, InHand)' = {}
      BY <2>1 DEF OrdersOn, TypeOK
    <2>3. Cardinality(OrdersOn(p, InHand)') = 0
      BY <2>2, FS_EmptySet
    <2> QED
      BY <2>3, SlotsPositive
  <1>2. CASE p # order[o].item
    <2>1. pstatus'[p] = pstatus[p] /\ OrdersOn(p, InHand)' = OrdersOn(p, InHand)
      BY <1>2 DEF OrdersOn, TypeOK
    <2> QED
      BY <2>1 DEF RecruitingHasRoom, Recruiting
  <1> QED
    BY <1>1, <1>2

LEMMA RoomApprove ==
    ASSUME TypeOK, RecruitingHasRoom, NEW o \in OrderIds, ApproveCollective(o)
    PROVE  RecruitingHasRoom'
  <1> PICK i \in Posts : i = order[o].item
    BY DEF ApproveCollective
  <1>1. /\ status' = [status EXCEPT ![o] = "ONGOING"] /\ UNCHANGED <<order, slots>>
        /\ pstatus' = [pstatus EXCEPT ![i] =
             IF Cardinality(OrdersOn(i, Accepted) \cup {o}) >= slots[i]
             THEN "IN_PROGRESS" ELSE "OPEN"]
    BY DEF ApproveCollective
  <1> SUFFICES ASSUME NEW p \in Posts, pstatus'[p] \in Recruiting
               PROVE  Cardinality(OrdersOn(p, InHand)') < slots'[p]
    BY DEF RecruitingHasRoom, Recruiting
  <1>2. CASE p = i
    <2> DEFINE A == OrdersOn(i, Accepted) \cup {o}
    <2>1. ~(Cardinality(A) >= slots[i])
      BY <1>1, <1>2 DEF Recruiting, TypeOK
    <2>2. IsFiniteSet(A) /\ Cardinality(A) \in Nat
      BY OnItemFinite, FS_AddElement, FS_CardinalityType
    <2>3. OrdersOn(i, InHand)' \subseteq A
      BY <1>1 DEF OrdersOn, Accepted, TypeOK
    <2> HIDE DEF A
    <2>4. /\ Cardinality(OrdersOn(i, InHand)') <= Cardinality(A)
          /\ Cardinality(OrdersOn(i, InHand)') \in Nat
      BY <2>2, <2>3, FS_Subset, FS_CardinalityType
    <2>5. slots[i] \in Nat
      BY DEF TypeOK
    <2> QED
      BY <1>1, <1>2, <2>1, <2>2, <2>4, <2>5
  <1>3. CASE p # i
    <2>1. pstatus'[p] = pstatus[p] /\ OrdersOn(p, InHand)' = OrdersOn(p, InHand)
      BY <1>1, <1>3 DEF OrdersOn, TypeOK
    <2> QED
      BY <1>1, <2>1 DEF RecruitingHasRoom, Recruiting
  <1> QED
    BY <1>2, <1>3

LEMMA RoomTakeOnly ==
    ASSUME TypeOK, RecruitingHasRoom, NEW o \in OrderIds, TakeOnly(o), UNCHANGED <<order, slots>>,
           \A p \in Posts \ {order[o].item} : pstatus'[p] = pstatus[p],
           order[o].item \in Posts => pstatus'[order[o].item] \notin Recruiting
    PROVE  RecruitingHasRoom'
  <1> SUFFICES ASSUME NEW p \in Posts, pstatus'[p] \in Recruiting
               PROVE  Cardinality(OrdersOn(p, InHand)') < slots'[p]
    BY DEF RecruitingHasRoom, Recruiting
  <1>1. p # order[o].item /\ pstatus'[p] = pstatus[p]
    OBVIOUS
  <1>2. OrdersOn(p, InHand)' = OrdersOn(p, InHand)
    BY <1>1 DEF TakeOnly, OrdersOn, TypeOK
  <1> QED
    BY <1>1, <1>2 DEF RecruitingHasRoom, Recruiting

LEMMA RoomStep ==
    ASSUME TypeOK, RecruitingHasRoom, [Next]_vars, "edit_slots" \notin Ops
    PROVE  RecruitingHasRoom'
  <1>1. CASE Application
    <2>1. PICK n \in OrderIds : /\ status[n] = "NONE"
                                /\ \E r : order' = [order EXCEPT ![n] = r]
                                /\ status' = [status EXCEPT ![n] = "PENDING"]
      BY <1>1 DEF Application, ApplyToPost, ApplyForGoods, CreateOrder, NextId
    <2>2. UNCHANGED <<pstatus, slots>>
      BY <1>1 DEF Application, ApplyToPost, ApplyForGoods, CreateOrder
    <2> QED
      BY <2>1, <2>2, RoomKept DEF TypeOK, InHand
  <1>2. ASSUME NEW o \in OrderIds, BuyGoods(o) PROVE RecruitingHasRoom'
    BY <1>2, RoomTakeOnly DEF BuyGoods
  <1>3. ASSUME NEW o \in OrderIds, ApproveApplication(o) PROVE RecruitingHasRoom'
    BY <1>3, RoomTakeOnly DEF ApproveApplication, Recruiting, TypeOK
  <1>4. ASSUME NEW o \in OrderIds, ApproveCollective(o) PROVE RecruitingHasRoom'
    BY <1>4, RoomApprove
  <1>5. ASSUME NEW o \in OrderIds, RejectOrder(o) PROVE RecruitingHasRoom'
    BY <1>5, RoomWithout DEF RejectOrder, InHand
  <1>6. ASSUME NEW p \in Posts, StartFulfilment(p) PROVE RecruitingHasRoom'
    BY <1>6, RoomKept DEF StartFulfilment, Recruiting, TypeOK, InHand
  <1>7. ASSUME NEW o \in OrderIds, SubmitDelivery(o) PROVE RecruitingHasRoom'
    BY <1>7, RoomKept DEF SubmitDelivery, TypeOK, InHand
  <1>8. ASSUME NEW o \in OrderIds, AcceptDelivery(o) \/ ForceComplete(o) \/ AutoConfirm(o)
        PROVE  RecruitingHasRoom'
    <2>1. Complete(o) \/ CompleteOrphan(o)
      BY <1>8 DEF AcceptDelivery, ForceComplete, AutoConfirm
    <2> QED
      BY <2>1, RoomKept DEF Complete, CompleteOrphan, SettleItem, Recruiting, TypeOK, InHand
  <1>9. CASE Cancellation
    <2> PICK o \in OrderIds, u \in Users, fast \in FastChoices :
          \/ CancelPostOrder(o, u, fast)
          \/ CancelGoodsOrder(o, u, fast)
          \/ CancelOrphan(o, u, fast)
      BY <1>9 DEF Cancellation
    <2>1. CASE CancelPostOrder(o, u, fast)
      BY <2>1, RoomWithout DEF CancelPostOrder, InHand
    <2>2. CASE CancelGoodsOrder(o, u, fast) \/ CancelOrphan(o, u, fast)
      BY <2>2, RoomKept DEF CancelGoodsOrder, CancelOrphan, TypeOK, InHand
    <2> QED
      BY <2>1, <2>2
  <1>10. CASE Claim \/ (\E o \in OrderIds : SkipTask(o) \/ LoseTask(o)) \/ Upkeep
    <2>1. UNCHANGED <<order, status>>
      BY <1>10, QuietAdvances
    <2>2. /\ UNCHANGED slots
          /\ \A p \in Posts : pstatus'[p] \in Recruiting => pstatus[p] \in Recruiting
      BY <1>10 DEF Claim, ClaimTask, SkipTask, LoseTask, Upkeep, SuspendPost, ResumePost,
                   UpdatePost, DelistGoods, RelistGoods, UpdateGoods, DeleteItem, Expire,
                   ReadItem, AutoSuspendExpired, WithdrawExpired, NewDay, TypeOK, Recruiting
    <2> QED
      BY <2>1, <2>2, RoomKept
  <1>11. CASE UNCHANGED vars
    BY <1>11, RoomKept DEF vars
  <1> QED
    BY <1>1, <1>2, <1>3, <1>4, <1>5, <1>6, <1>7, <1>8, <1>9, <1>10, <1>11
    DEF Next, Decision, Delivery, Handle

(* A post that is open or suspended has a free slot beside the orders under
   way, as long as no edit changes the number of slots. *)
THEOREM RoomCorrect ==
    ASSUME "edit_slots" \notin Ops
    PROVE  Spec => []RecruitingHasRoom
  <1>1. Init => RecruitingHasRoom
    <2> SUFFICES ASSUME Init PROVE RecruitingHasRoom
      OBVIOUS
    <2>1. \A p \in Posts : OrdersOn(p, InHand) = {}
      BY DEF Init, OrdersOn, InHand
    <2>2. \A p \in Posts : Cardinality(OrdersOn(p, InHand)) = 0
      BY <2>1, FS_EmptySet
    <2> QED
      BY <2>2, SlotsPositive, TypeInit DEF RecruitingHasRoom
  <1>2. TypeOK /\ RecruitingHasRoom /\ [Next]_vars => RecruitingHasRoom'
    BY RoomStep
  <1> QED
    BY <1>1, <1>2, TypeInit, TypeStep, PTL DEF Spec

-----------------------------------------------------------------------------
(* Goods and their buyer *)

\* The goods' side of a step that is neither a purchase, the end of one, nor an edit.
LEMMA LockedKept ==
    ASSUME LockedHasBuyer, locked' \subseteq locked, deleted \subseteq deleted',
           \A o \in OrderIds : status[o] \in InHand /\ order[o].item \in locked' =>
               status'[o] \in InHand /\ order'[o] = order[o]
    PROVE  LockedHasBuyer'
  BY DEF LockedHasBuyer, OrdersOn

LEMMA LockedEnds ==
    ASSUME TypeOK, LockedHasBuyer, NEW o \in OrderIds, NEW s,
           order[o].item \in Goods, UNCHANGED <<order, deleted>>,
           status' = [status EXCEPT ![o] = s],
           locked' \subseteq locked,
           order[o].item \in locked' => order[o].item \in deleted
    PROVE  LockedHasBuyer'
  <1> SUFFICES ASSUME NEW g \in locked' \ deleted PROVE OrdersOn(g, InHand)' # {}
    BY DEF LockedHasBuyer
  <1>1. PICK x \in OrdersOn(g, InHand) : TRUE
    BY DEF LockedHasBuyer
  <1>2. g # order[o].item /\ x # o
    BY <1>1 DEF OrdersOn
  <1> QED
    BY <1>1, <1>2 DEF OrdersOn, TypeOK

LEMMA LockedBuy ==
    ASSUME TypeOK, LockedHasBuyer, NEW o \in OrderIds, BuyGoods(o)
    PROVE  LockedHasBuyer'
  <1>1. \A x \in OrderIds : status[x] \in InHand \/ x = o => status'[x] \in InHand
    BY DEF BuyGoods, TakeOnly, OrdersOn, InHand
  <1> SUFFICES ASSUME NEW g \in locked' \ deleted PROVE OrdersOn(g, InHand)' # {}
    BY DEF LockedHasBuyer, BuyGoods
  <1>2. CASE g = order[o].item
    BY <1>1, <1>2 DEF BuyGoods, OrdersOn
  <1>3. CASE g # order[o].item
    <2>1. PICK x \in OrdersOn(g, InHand) : TRUE
      BY <1>3 DEF LockedHasBuyer, BuyGoods
    <2> QED
      BY <1>1, <2>1 DEF BuyGoods, OrdersOn
  <1> QED
    BY <1>2, <1>3

LEMMA LockedStep ==
    ASSUME TypeOK, LockedHasBuyer, [Next]_vars, "edit_lock" \notin Ops
    PROVE  LockedHasBuyer'
  <1>1. CASE Application
    <2>1. PICK n \in OrderIds : /\ status[n] = "NONE"
                                /\ \E r : order' = [order EXCEPT ![n] = r]
                                /\ status' = [status EXCEPT ![n] = "PENDING"]
      BY <1>1 DEF Application, ApplyToPost, ApplyForGoods, CreateOrder, NextId
    <2>2. UNCHANGED <<locked, deleted>>
      BY <1>1 DEF Application, ApplyToPost, ApplyForGoods, CreateOrder
    <2> QED
      BY <2>1, <2>2, LockedKept DEF TypeOK, InHand
  <1>2. ASSUME NEW o \in OrderIds, BuyGoods(o) PROVE LockedHasBuyer'
    BY <1>2, LockedBuy
  <1>3. ASSUME NEW o \in OrderIds,
               ApproveApplication(o) \/ ApproveCollective(o) \/ RejectOrder(o)
        PROVE  LockedHasBuyer'
    BY <1>3, LockedKept DEF ApproveApplication, ApproveCollective, RejectOrder, TakeOnly,
                            OrdersOn, TypeOK, InHand
  <1>4. ASSUME NEW p \in Posts, StartFulfilment(p) PROVE LockedHasBuyer'
    BY <1>4, LockedKept DEF StartFulfilment, OrdersOn, TypeOK, InHand
  <1>5. ASSUME NEW o \in OrderIds, SubmitDelivery(o) PROVE LockedHasBuyer'
    BY <1>5, LockedKept DEF SubmitDelivery, TypeOK, InHand
  <1>6. ASSUME NEW o \in OrderIds, AcceptDelivery(o) \/ ForceComplete(o) \/ AutoConfirm(o)
        PROVE  LockedHasBuyer'
    <2>1. /\ status[o] \in InHand
          /\ Complete(o) \/ (CompleteOrphan(o) /\ Orphan(o))
      BY <1>6 DEF AcceptDelivery, ForceComplete, AutoConfirm, InHand
    <2>2. CASE CompleteOrphan(o) /\ Orphan(o)
      BY <2>2, LockedKept DEF CompleteOrphan, Orphan, TypeOK
    <2>3. CASE Complete(o)
      <3>1. CASE order[o].item \in Goods
        BY <2>3, <3>1, LockedEnds DEF Complete, SettleItem
      <3>2. CASE order[o].item \notin Goods
        BY <2>3, <3>2, LockedKept DEF Complete, SettleItem, TypeOK
      <3> QED
        BY <3>1, <3>2
    <2> QED
      BY <2>1, <2>2, <2>3
  <1>7. CASE Cancellation
    <2> PICK o \in OrderIds, u \in Users, fast \in FastChoices :
          \/ CancelPostOrder(o, u, fast)
          \/ CancelGoodsOrder(o, u, fast)
          \/ CancelOrphan(o, u, fast)
      BY <1>7 DEF Cancellation
    <2>1. CASE CancelGoodsOrder(o, u, fast)
      BY <2>1, LockedEnds DEF CancelGoodsOrder
    <2>2. CASE CancelPostOrder(o, u, fast) \/ CancelOrphan(o, u, fast)
      BY <2>2, LockedKept DEF CancelPostOrder, CancelOrphan, Orphan, TypeOK
    <2> QED
      BY <2>1, <2>2
  <1>8. CASE Claim \/ (\E o \in OrderIds : SkipTask(o) \/ LoseTask(o)) \/ Upkeep
    <2>1. UNCHANGED <<order, status>>
      BY <1>8, QuietAdvances
    <2>2. locked' \subseteq locked /\ deleted \subseteq deleted'
      BY <1>8 DEF Claim, ClaimTask, SkipTask, LoseTask, Upkeep, SuspendPost, ResumePost,
                  UpdatePost, DelistGoods, RelistGoods, UpdateGoods, DeleteItem, Expire,
                  ReadItem, AutoSuspendExpired, WithdrawExpired, NewDay
    <2> QED
      BY <2>1, <2>2, LockedKept
  <1>9. CASE UNCHANGED vars
    BY <1>9, LockedKept DEF vars
  <1> QED
    BY <1>1, <1>2, <1>3, <1>4, <1>5, <1>6, <1>7, <1>8, <1>9
    DEF Next, Decision, Delivery, Handle

(* Locked goods have a buyer, however often they are relisted and edited, as
   long as no edit writes the lock. *)
THEOREM LockCorrect ==
    ASSUME "edit_lock" \notin Ops
    PROVE  Spec => []LockedHasBuyer
  <1>1. Init => LockedHasBuyer
    BY DEF Init, PublishedGoods, LockedHasBuyer
  <1>2. TypeOK /\ LockedHasBuyer /\ [Next]_vars => LockedHasBuyer'
    BY LockedStep
  <1> QED
    BY <1>1, <1>2, TypeInit, TypeStep, PTL DEF Spec

-----------------------------------------------------------------------------
(* A purchase holds the goods for its buyer *)

\* A step that leaves sold-out goods alone and brings nobody back to them.
LEMMA HeldKept ==
    ASSUME PurchaseHeld,
           \A o \in OrderIds : status'[o] \in InHand /\ order'[o].item \in Goods =>
               /\ status[o] \in InHand /\ order'[o] = order[o]
               /\ gstatus[order[o].item] = "OFF_SHELF" => gstatus'[order[o].item] = "OFF_SHELF"
               /\ order[o].item \in locked => order[o].item \in locked',
           \A o \in OrderIds : status'[o] = "PENDING" =>
               status[o] = "PENDING" /\ order'[o] = order[o]
    PROVE  PurchaseHeld'
  BY DEF PurchaseHeld, OrdersOn, InHand

\* The order that leaves a goods was the only one under way on it.
LEMMA HeldEnds ==
    ASSUME TypeOK, PurchaseHeld, UNCHANGED order,
           NEW o \in OrderIds, NEW s, s \notin InHand \cup {"PENDING"},
           status[o] \in InHand \cup {"PENDING"},
           status' = [status EXCEPT ![o] = s],
           locked \ {order[o].item} \subseteq locked',
           \A g \in Goods \ {order[o].item} : gstatus'[g] = gstatus[g]
    PROVE  PurchaseHeld'
  <1>1. ASSUME NEW x \in OrderIds, status'[x] \in InHand, order[x].item \in Goods
        PROVE  status[x] \in InHand /\ order[x].item # order[o].item
    <2>1. x # o /\ status[x] \in InHand
      BY <1>1 DEF TypeOK
    <2>2. order[x].item = order[o].item => o \in OrdersOn(order[x].item, InHand \cup {"PENDING"})
      BY DEF OrdersOn
    <2> QED
      BY <1>1, <2>1, <2>2 DEF PurchaseHeld
  <1>2. \A x \in OrderIds : status'[x] = "PENDING" => status[x] = "PENDING"
    BY DEF TypeOK
  <1> QED
    BY <1>1, <1>2, HeldKept

LEMMA HeldApplication ==
    ASSUME TypeOK, PurchaseHeld, Application
    PROVE  PurchaseHeld'
  <1>1. ASSUME NEW u \in Users, NEW p \in Posts, ApplyToPost(u, p) PROVE PurchaseHeld'
    <2>1. PICK n \in OrderIds :
            /\ status[n] = "NONE"
            /\ order' = [order EXCEPT ![n] = PostOrder(p, u)]
            /\ status' = [status EXCEPT ![n] = "PENDING"]
      BY <1>1 DEF ApplyToPost, CreateOrder, NextId
    <2>2. UNCHANGED <<gstatus, locked>> /\ PostOrder(p, u).item \notin Goods
      BY <1>1 DEF ApplyToPost, CreateOrder, PostOrder
    <2>3. \A x \in OrderIds : x # n => status'[x] = status[x] /\ order'[x] = order[x]
      BY <2>1 DEF TypeOK
    <2>4. status'[n] = "PENDING" /\ order'[n].item \notin Goods
      BY <2>1, <2>2 DEF TypeOK
    <2> QED
      BY <2>1, <2>2, <2>3, <2>4 DEF PurchaseHeld, OrdersOn, InHand
  <1>2. ASSUME NEW u \in Users, NEW g \in Goods, ApplyForGoods(u, g) PROVE PurchaseHeld'
    <2>1. PICK n \in OrderIds :
            /\ status[n] = "NONE"
            /\ order' = [order EXCEPT ![n] = GoodsOrder(g, u)]
            /\ status' = [status EXCEPT ![n] = "PENDING"]
      BY <1>2 DEF ApplyForGoods, CreateOrder, NextId
    <2>2. /\ UNCHANGED <<gstatus, locked>> /\ GoodsOrder(g, u).item = g
          /\ gstatus[g] = "ON_SALE"
      BY <1>2 DEF ApplyForGoods, CreateOrder, GoodsOrder
    <2>3. \A x \in OrderIds : x # n => status'[x] = status[x] /\ order'[x] = order[x]
      BY <2>1 DEF TypeOK
    <2>4. status'[n] = "PENDING" /\ order'[n].item = g
      BY <2>1, <2>2 DEF TypeOK
    <2> QED
      BY <2>1, <2>2, <2>3, <2>4 DEF PurchaseHeld, OrdersOn, InHand
  <1> QED
    BY <1>1, <1>2 DEF Application

LEMMA HeldBuy ==
    ASSUME TypeOK, PurchaseHeld, NEW o \in OrderIds, BuyGoods(o)
    PROVE  PurchaseHeld'
  <1> PICK g \in Goods : g = order[o].item
    BY DEF BuyGoods
  <1>1. /\ UNCHANGED order
        /\ gstatus[g] = "ON_SALE" /\ gstatus' = [gstatus EXCEPT ![g] = "OFF_SHELF"]
        /\ locked' = locked \cup {g}
    BY DEF BuyGoods
  <1>2. \A x \in OrderIds : order[x].item = g => status[x] \notin InHand
    BY <1>1 DEF PurchaseHeld
  <1>3. \A x \in OrderIds :
          /\ x = o => status'[x] = "ONGOING"
          /\ order[x].item # g => status'[x] = status[x]
          /\ x # o /\ order[x].item = g => status'[x] \notin InHand \cup {"PENDING"}
    BY <1>2 DEF BuyGoods, TakeOnly, OrdersOn, InHand
  <1> SUFFICES ASSUME NEW x \in OrderIds, status'[x] \in InHand, order[x].item \in Goods
               PROVE  /\ gstatus'[order[x].item] = "OFF_SHELF"
                      /\ order[x].item \in locked'
                      /\ OrdersOn(order[x].item, InHand \cup {"PENDING"})' = {x}
    BY <1>1 DEF PurchaseHeld
  <1>4. CASE order[x].item = g
    <2>1. x = o
      BY <1>3, <1>4
    <2>2. gstatus'[g] = "OFF_SHELF"
      BY <1>1 DEF TypeOK
    <2>3. OrdersOn(order[x].item, InHand \cup {"PENDING"})' = {x}
      BY <1>1, <1>3, <1>4, <2>1 DEF OrdersOn, InHand
    <2> QED
      BY <1>1, <1>4, <2>2, <2>3
  <1>5. CASE order[x].item # g
    <2>1. status[x] \in InHand
      BY <1>3, <1>5
    <2>2. /\ gstatus[order[x].item] = "OFF_SHELF"
          /\ order[x].item \in locked
          /\ OrdersOn(order[x].item, InHand \cup {"PENDING"}) = {x}
      BY <2>1 DEF PurchaseHeld
    <2>3. OrdersOn(order[x].item, InHand \cup {"PENDING"})'
            = OrdersOn(order[x].item, InHand \cup {"PENDING"})
      BY <1>1, <1>3, <1>5 DEF OrdersOn
    <2> QED
      BY <1>1, <1>5, <2>2, <2>3 DEF TypeOK
  <1> QED
    BY <1>4, <1>5

LEMMA HeldStep ==
    ASSUME TypeOK, PurchaseHeld, [Next]_vars, Ops \cap {"edit_goods", "relist"} = {}
    PROVE  PurchaseHeld'
  <1>1. CASE Application
    BY <1>1, HeldApplication
  <1>2. ASSUME NEW o \in OrderIds, BuyGoods(o) PROVE PurchaseHeld'
    BY <1>2, HeldBuy
  <1>3. ASSUME NEW o \in OrderIds, ApproveApplication(o) PROVE PurchaseHeld'
    <2>1. /\ order[o].item \notin Goods /\ UNCHANGED <<order, gstatus, locked>>
      BY <1>3 DEF ApproveApplication
    <2>2. \A x \in OrderIds :
            /\ status'[x] \in InHand /\ order[x].item \in Goods => status[x] \in InHand
            /\ status'[x] = "PENDING" => status[x] = "PENDING"
      BY <1>3, <2>1 DEF ApproveApplication, TakeOnly, OrdersOn, InHand
    <2> QED
      BY <2>1, <2>2, HeldKept
  <1>4. ASSUME NEW o \in OrderIds, ApproveCollective(o) PROVE PurchaseHeld'
    BY <1>4, HeldKept DEF ApproveCollective, TypeOK
  <1>5. ASSUME NEW o \in OrderIds, RejectOrder(o) PROVE PurchaseHeld'
    BY <1>5, HeldKept DEF RejectOrder, TypeOK, InHand
  <1>6. ASSUME NEW p \in Posts, StartFulfilment(p) PROVE PurchaseHeld'
    BY <1>6, HeldKept DEF StartFulfilment, OrdersOn, TypeOK, InHand
  <1>7. ASSUME NEW o \in OrderIds, SubmitDelivery(o) PROVE PurchaseHeld'
    BY <1>7, HeldKept DEF SubmitDelivery, TypeOK, InHand
  <1>8. ASSUME NEW o \in OrderIds, AcceptDelivery(o) \/ ForceComplete(o) \/ AutoConfirm(o)
        PROVE  PurchaseHeld'
    <2>1. status[o] \in InHand /\ (Complete(o) \/ CompleteOrphan(o))
      BY <1>8 DEF AcceptDelivery, ForceComplete, AutoConfirm, InHand
    <2>2. /\ status' = [status EXCEPT ![o] = "COMPLETED"] /\ UNCHANGED order
          /\ locked \ {order[o].item} \subseteq locked'
          /\ \A g \in Goods \ {order[o].item} : gstatus'[g] = gstatus[g]
      BY <2>1 DEF Complete, CompleteOrphan, SettleItem
    <2> QED
      BY <2>1, <2>2, HeldEnds DEF InHand
  <1>9. CASE Cancellation
    <2> PICK o \in OrderIds, u \in Users, fast \in FastChoices :
          \/ CancelPostOrder(o, u, fast)
          \/ CancelGoodsOrder(o, u, fast)
          \/ CancelOrphan(o, u, fast)
      BY <1>9 DEF Cancellation
    <2>1. /\ status[o] \in InHand \cup {"PENDING"}
          /\ status' = [status EXCEPT ![o] = "CANCELED"] /\ UNCHANGED order
          /\ locked \ {order[o].item} \subseteq locked'
          /\ UNCHANGED gstatus
      BY DEF CancelPostOrder, CancelGoodsOrder, CancelOrphan, MayCancel, Cancelable
    <2> QED
      BY <2>1, HeldEnds DEF InHand
  <1>10. CASE Claim \/ (\E o \in OrderIds : SkipTask(o) \/ LoseTask(o)) \/ Upkeep
    <2>1. UNCHANGED <<order, status>>
      BY <1>10, QuietAdvances
    <2>2. /\ locked \subseteq locked'
          /\ \A g \in Goods : gstatus[g] = "OFF_SHELF" => gstatus'[g] = "OFF_SHELF"
      BY <1>10 DEF Claim, ClaimTask, SkipTask, LoseTask, Upkeep, SuspendPost, ResumePost,
                   UpdatePost, DelistGoods, RelistGoods, UpdateGoods, DeleteItem, Expire,
                   ReadItem, AutoSuspendExpired, WithdrawExpired, NewDay, TypeOK
    <2> QED
      BY <2>1, <2>2, HeldKept
  <1>11. CASE UNCHANGED vars
    BY <1>11, HeldKept DEF vars
  <1> QED
    BY <1>1, <1>2, <1>3, <1>4, <1>5, <1>6, <1>7, <1>8, <1>9, <1>10, <1>11
    DEF Next, Decision, Delivery, Handle

(* Without relisting and without edits a purchase keeps the goods off the shelf
   and locked, and nobody else is pending or served. *)
THEOREM HeldCorrect ==
    ASSUME Ops \cap {"edit_goods", "relist"} = {}
    PROVE  Spec => []PurchaseHeld
  <1>1. Init => PurchaseHeld
    BY DEF Init, PurchaseHeld, InHand
  <1>2. TypeOK /\ PurchaseHeld /\ [Next]_vars => PurchaseHeld'
    BY HeldStep
  <1> QED
    BY <1>1, <1>2, TypeInit, TypeStep, PTL DEF Spec
=============================================================================
