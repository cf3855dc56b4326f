------------------------------- MODULE Reviews -------------------------------
(***************************************************************************)
(* Double-blind reviews: the parties of a completed order review each      *)
(* other, and what they wrote stays hidden until both have written or the  *)
(* blind period is over.  Reviews are released by the request that brings  *)
(* the second one, by a task in a delayed queue and by an hourly job.      *)
(*                                                                         *)
(* A request is a sequence of statements over an autocommit connection,    *)
(* so requests, the worker of the queue and the job interleave between     *)
(* them, and a request that fails leaves what it has inserted.             *)
(***************************************************************************)
EXTENDS Integers

CONSTANTS
    Users, Orders,
    PartiesOf,      \* {buyer_id, seller_id} of every order
    Sessions,       \* requests that may be under way at the same time
    MaxReviews,     \* bound: review rows
    BlindDays,      \* settings.REVIEW_DOUBLE_BLIND_DAYS
    MaxTime,        \* bound: the clock
    NoReview, NoOrder, NoUser,
    Faults          \* the failures this instance exercises

ReviewIds == 1 .. MaxReviews
Kinds == {"INITIAL", "FOLLOW_UP"}   \* ADDITIONAL and REPLY are handled alike
ReviewRow == [order : Orders, reviewer : Users, reviewee : Users, kind : Kinds]

ASSUME PartiesAssumption ==
    /\ PartiesOf \in [Orders -> SUBSET Users]
    /\ \A o \in Orders : \E b, s \in Users : b # s /\ PartiesOf[o] = {b, s}

ASSUME BoundsAssumption ==
    /\ MaxReviews \in Nat /\ BlindDays \in Nat /\ MaxTime \in Nat
    /\ Faults \subseteq {"crash", "redis"}

ASSUME NamesAssumption ==
    /\ NoReview \notin ReviewRow
    /\ NoOrder \notin Orders
    /\ NoUser \notin Users
    /\ "worker" \notin Sessions /\ "job" \notin Sessions

\* Whoever may release reviews.
Processes == Sessions \cup {"worker", "job"}

VARIABLES
    now,
    completed,  \* orders whose status is COMPLETED
    since,      \* order.update_time: when the order was completed
    review,     \* the rows of order_review
    visible,    \* reviews with is_visible set
    task,       \* queue:review_double_blind, the score of each member; -1: none
    at,         \* the statement each process is at
    on,         \* the order it works on
    kind,       \* the kind of review a request writes
    user,       \* who sent the request
    seen,       \* the reviews it has read and will make visible
    due,        \* the orders the job has still to go through
    failed,     \* history: orders on which a request ended after its insertion
    doubled     \* history: orders on which two requests of one user were about to
                \*   insert an initial review at the same time

clockVars == <<now, completed, since>>
reviewVars == <<review, visible>>
procVars == <<at, on, kind, user, seen>>
vars == <<now, completed, since, review, visible, task, at, on, kind, user, seen,
          due, failed, doubled>>

Init ==
    /\ now = 0
    /\ completed = {}
    /\ since = [o \in Orders |-> 0]
    /\ review = [r \in ReviewIds |-> NoReview]
    /\ visible = {}
    /\ task = [o \in Orders |-> -1]
    /\ at = [p \in Processes |-> "idle"]
    /\ on = [p \in Processes |-> NoOrder]
    /\ kind = [p \in Processes |-> "INITIAL"]
    /\ user = [p \in Processes |-> NoUser]
    /\ seen = [p \in Processes |-> {}]
    /\ due = {}
    /\ failed = {}
    /\ doubled = {}

At(p, step) == at[p] = step
GoTo(p, step) == at' = [at EXCEPT ![p] = step] /\ UNCHANGED <<on, kind, user, seen>>

Begin(p, step, o, k, u) ==
    /\ at' = [at EXCEPT ![p] = step]
    /\ on' = [on EXCEPT ![p] = o]
    /\ kind' = [kind EXCEPT ![p] = k]
    /\ user' = [user EXCEPT ![p] = u]
    /\ UNCHANGED seen

\* What an ended process worked on is forgotten.
End(p) ==
    /\ at' = [at EXCEPT ![p] = "idle"]
    /\ on' = [on EXCEPT ![p] = NoOrder]
    /\ kind' = [kind EXCEPT ![p] = "INITIAL"]
    /\ user' = [user EXCEPT ![p] = NoUser]
    /\ seen' = [seen EXCEPT ![p] = {}]

Written == {r \in ReviewIds : review[r] # NoReview}
ReviewsOn(o) == {r \in Written : review[r].order = o}
Initials(o) == {r \in ReviewsOn(o) : review[r].kind = "INITIAL"}
InitialsBy(o, u) == {r \in Initials(o) : review[r].reviewer = u}

\* The count of initial reviews is at least 2.
TwoInitials(o) == \E r, q \in Initials(o) : r # q

\* Bound: every blind period can end before the clock stops.
Complete(o) ==
    /\ o \notin completed
    /\ now + BlindDays <= MaxTime
    /\ completed' = completed \cup {o}
    /\ since' = [since EXCEPT ![o] = now]
    /\ UNCHANGED <<now, reviewVars, task, procVars, due, failed, doubled>>

Tick ==
    /\ now < MaxTime
    /\ now' = now + 1
    /\ UNCHANGED <<completed, since, reviewVars, task, procVars, due, failed, doubled>>

-----------------------------------------------------------------------------
(* Writing a review *)

\* Another request of u is about to insert an initial review, too.
Doubling(o, k, u) ==
    k = "INITIAL" /\ \E t \in Sessions :
        At(t, "insert") /\ kind[t] = k /\ on[t] = o /\ user[t] = u

\* Slip: nothing stops a second initial review of the same user.
Submit_Again(s, o, k, u) ==
    /\ At(s, "idle")
    /\ o \in completed
    /\ u \in PartiesOf[o]
    /\ k = "INITIAL" \/ ReviewsOn(o) # {}
    /\ Begin(s, "insert", o, k, u)
    /\ doubled' = IF Doubling(o, k, u) THEN doubled \cup {o} ELSE doubled
    /\ UNCHANGED <<clockVars, reviewVars, task, due, failed>>

\* A follow-up names any review of the order as its parent.
Submit(s, o, k, u) ==
    /\ At(s, "idle")
    /\ o \in completed
    /\ u \in PartiesOf[o]
    /\ \/ k = "INITIAL" /\ InitialsBy(o, u) = {}
       \/ k = "FOLLOW_UP" /\ ReviewsOn(o) # {}
    /\ Begin(s, "insert", o, k, u)
    /\ doubled' = IF Doubling(o, k, u) THEN doubled \cup {o} ELSE doubled
    /\ UNCHANGED <<clockVars, reviewVars, task, due, failed>>

NextId(r) == review[r] = NoReview /\ \A q \in ReviewIds : q < r => review[q] # NoReview

Insert(s) ==
    /\ At(s, "insert")
    /\ LET o == on[s] IN
       \E r \in ReviewIds, u \in PartiesOf[o] \ {user[s]} :
          /\ NextId(r)
          /\ review' = [review EXCEPT ![r] =
                [order |-> o, reviewer |-> user[s], reviewee |-> u, kind |-> kind[s]]]
    /\ Begin(s, IF kind[s] = "INITIAL" THEN "count" ELSE "judge", on[s], "INITIAL", NoUser)
    /\ UNCHANGED <<clockVars, visible, task, due, failed, doubled>>

\* The first initial review of an order puts the order in the delayed queue.
CountInitials(s) ==
    /\ At(s, "count")
    /\ GoTo(s, IF TwoInitials(on[s]) THEN "judge" ELSE "enqueue")
    /\ UNCHANGED <<clockVars, reviewVars, task, due, failed, doubled>>

\* A failure of Redis is logged, and the request goes on.
Enqueue(s) ==
    /\ At(s, "enqueue")
    /\ \/ task' = [task EXCEPT ![on[s]] = now + BlindDays]
       \/ "redis" \in Faults /\ UNCHANGED task
    /\ GoTo(s, "judge")
    /\ UNCHANGED <<clockVars, reviewVars, due, failed, doubled>>

-----------------------------------------------------------------------------
(* _release_reviews_if_ready, for whoever calls it *)

Overdue(o) == o \in completed /\ now - since[o] >= BlindDays

\* Slip: one initial review is enough.
Ready_FirstReview(o) == Initials(o) # {} \/ Overdue(o)

Ready(o) == TwoInitials(o) \/ Overdue(o)

\* Slip: the request itself releases nothing; it is left to queue and job.
Judge_Deferred(p) ==
    /\ At(p, "judge")
    /\ IF p \notin Sessions /\ Ready(on[p]) THEN GoTo(p, "read") ELSE End(p)
    /\ UNCHANGED <<clockVars, reviewVars, task, due, failed, doubled>>

Judge(p) ==
    /\ At(p, "judge")
    /\ IF Ready(on[p]) THEN GoTo(p, "read") ELSE End(p)
    /\ UNCHANGED <<clockVars, reviewVars, task, due, failed, doubled>>

ReadReviews(p) ==
    /\ At(p, "read")
    /\ at' = [at EXCEPT ![p] = "publish"]
    /\ seen' = [seen EXCEPT ![p] = ReviewsOn(on[p])]
    /\ UNCHANGED <<on, kind, user>>
    /\ UNCHANGED <<clockVars, reviewVars, task, due, failed, doubled>>

Publish(p) ==
    /\ At(p, "publish")
    /\ visible' = visible \cup seen[p]
    /\ End(p)
    /\ UNCHANGED <<clockVars, review, task, due, failed, doubled>>

Release(p) == Judge(p) \/ ReadReviews(p) \/ Publish(p)

-----------------------------------------------------------------------------
(* The delayed queue and the hourly job *)

\* Slip: the score is taken for the member.
ClaimRelease_Score(o) ==
    /\ At("worker", "idle")
    /\ task[o] # -1 /\ task[o] <= now
    /\ task' = [task EXCEPT ![o] = -1]
    /\ Begin("worker", "judge", task[o], "INITIAL", NoUser)
    /\ UNCHANGED <<clockVars, reviewVars, due, failed, doubled>>

\* The member is removed before it is handled.
ClaimRelease(o) ==
    /\ At("worker", "idle")
    /\ task[o] # -1 /\ task[o] <= now
    /\ task' = [task EXCEPT ![o] = -1]
    /\ Begin("worker", "judge", o, "INITIAL", NoUser)
    /\ UNCHANGED <<clockVars, reviewVars, due, failed, doubled>>

\* Slip: the orders completed within the blind period are selected.
StartJob_Recent ==
    /\ At("job", "idle")
    /\ due = {}
    /\ due' = {o \in completed : since[o] > now - BlindDays}
    /\ UNCHANGED <<clockVars, reviewVars, task, procVars, failed, doubled>>

StartJob ==
    /\ At("job", "idle")
    /\ due = {}
    /\ due' = {o \in completed : since[o] <= now - BlindDays}
    /\ UNCHANGED <<clockVars, reviewVars, task, procVars, failed, doubled>>

\* What was set for one order is flushed by the query for the next.
TakeNext ==
    /\ At("job", "idle")
    /\ \E o \in due :
         /\ due' = due \ {o}
         /\ Begin("job", "judge", o, "INITIAL", NoUser)
    /\ UNCHANGED <<clockVars, reviewVars, task, failed, doubled>>

\* A request fails (binding its attachments raises) or is cut off, or the
\* worker's handler raises: what has been written stays, nothing else is done.
Stop(p) ==
    /\ "crash" \in Faults
    /\ ~At(p, "idle")
    /\ failed' = IF p \in Sessions /\ ~At(p, "insert") THEN failed \cup {on[p]}
                 ELSE failed
    /\ End(p)
    /\ UNCHANGED <<clockVars, reviewVars, task, due, doubled>>

-----------------------------------------------------------------------------
CreateReview(s) ==
    \/ \E o \in Orders, k \in Kinds, u \in Users : Submit(s, o, k, u)
    \/ Insert(s)
    \/ CountInitials(s)
    \/ Enqueue(s)

Next ==
    \/ Tick
    \/ \E o \in Orders : Complete(o) \/ ClaimRelease(o)
    \/ \E s \in Sessions : CreateReview(s)
    \/ \E p \in Processes : Release(p)
    \/ \E p \in Processes \ {"job"} : Stop(p)
    \/ StartJob
    \/ TakeNext

Job == StartJob \/ TakeNext \/ Release("job")

Spec == Init /\ [][Next]_vars

\* Time passes, and the job runs every hour to its end.
Fairness ==
    /\ WF_vars(Tick)
    /\ WF_vars(Job)

FairSpec == Spec /\ Fairness

-----------------------------------------------------------------------------
(* Properties *)

Steps == {"idle", "insert", "count", "enqueue", "judge", "read", "publish"}

TypeOK ==
    /\ now \in Nat
    /\ completed \subseteq Orders
    /\ since \in [Orders -> Nat]
    /\ review \in [ReviewIds -> ReviewRow \cup {NoReview}]
    /\ visible \subseteq Written
    /\ task \in [Orders -> Int]
    /\ at \in [Processes -> Steps]
    /\ on \in [Processes -> Orders \cup {NoOrder}]
    /\ kind \in [Processes -> Kinds]
    /\ user \in [Processes -> Users \cup {NoUser}]
    /\ seen \in [Processes -> SUBSET Written]
    /\ \A p \in Processes : at[p] # "idle" => on[p] \in Orders
    /\ \A p \in Processes : at[p] = "insert" => user[p] \in Users
    /\ due \subseteq Orders
    /\ failed \subseteq Orders /\ doubled \subseteq Orders

(* Nothing is shown early, whichever of the three releases it and whatever is
   written between its statements: a review is visible only when the order has
   two initial reviews or its blind period is over. *)
ReleasedInTime ==
    \A r \in visible : TwoInitials(review[r].order) \/ Overdue(review[r].order)

(* Double blindness: unless the period is over, a visible review means that
   each party has written an initial review of its own.  Two requests of one
   user break it when both find no review of his before either has inserted
   one: the two count as both parties. *)
BothReviewed ==
    \A r \in visible :
        LET o == review[r].order IN
        \/ Overdue(o) \/ o \in doubled
        \/ \A u \in PartiesOf[o] : InitialsBy(o, u) # {}

\* p has still to look at the reviews of o, or has r among those it has read.
WillShow(p, r) ==
    /\ on[p] = review[r].order
    /\ \/ at[p] \in {"count", "enqueue", "judge", "read"}
       \/ At(p, "publish") /\ r \in seen[p]

(* Two reviews written at the same time release both: once an order has two
   initial reviews, what is hidden on it is in the hands of a request that will
   still release it, or a request failed. *)
NoneLeftBehind ==
    \A r \in ReviewIds \ visible :
        review[r] # NoReview /\ TwoInitials(review[r].order) =>
            \/ review[r].order \in failed
            \/ \E s \in Sessions : WillShow(s, r)

(* Whenever an order has reviews, a time comes when all of them are shown,
   though a request failed half-way, a task was never queued or was lost. *)
ReviewsAppear ==
    \A o \in Orders : ReviewsOn(o) # {} ~> ReviewsOn(o) \subseteq visible

=============================================================================
