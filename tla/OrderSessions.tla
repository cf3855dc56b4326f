---------------------------- MODULE OrderSessions ----------------------------
(***************************************************************************)
(* The handlers of one order as what they are on an autocommit connection: *)
(* a sequence of statements, with other handlers in between.  A handler    *)
(* reads the order and its seller, decides, and later writes what it has   *)
(* computed from them; SELECT ... FOR UPDATE locks the row only while it   *)
(* is read.  The daily quota of quick cancellations is guarded by a lock   *)
(* in Redis that expires.  A credit entry is two statements: the score     *)
(* is updated, then the entry is inserted.                                 *)
(*                                                                         *)
(* All orders are on posts; the posts' status, which OrderBook models, is  *)
(* left out here, and so are the handlers that write several orders.       *)
(***************************************************************************)
EXTENDS Integers, FiniteSets

CONSTANTS
    Users, Orders,
    ApplicantOf, SellerOf, PostOf,
    Before,         \* the statuses each order may start in
    Sessions,       \* requests and workers that may run at the same time
    Award,          \* settings.ORDER_COMPLETE_CREDIT
    Limit,          \* settings.LIGHTNING_CANCEL_DAILY_LIMIT
    Hasty,          \* users who cancel quickly in this instance
    MaxMishaps,     \* bound: expired locks, stops and deleted posts
    MaxMet,         \* bound: pairs of orders whose handlers overlap
    NoOrder, NoUser, Nobody, Orphan

Posts == {PostOf[o] : o \in Orders}

ASSUME RowsAssumption ==
    /\ ApplicantOf \in [Orders -> Users]
    /\ SellerOf \in [Orders -> Users]
    /\ Before \in [Orders -> SUBSET {"NONE", "PENDING", "ONGOING", "CONFIRMED"}]
    /\ NoOrder \notin Orders /\ NoUser \notin Users
    /\ Nobody \notin Sessions /\ Orphan \notin Sessions /\ Nobody # Orphan

ASSUME BoundsAssumption ==
    /\ Hasty \subseteq Users
    /\ Award \in Nat \ {0} /\ Limit \in Nat /\ MaxMishaps \in Nat /\ MaxMet \in Nat

Statuses == {"NONE", "PENDING", "ONGOING", "CONFIRMED", "COMPLETED", "CANCELED", "REJECTED"}
Live == {"PENDING", "ONGOING", "CONFIRMED", "COMPLETED"}
Cancelable == {"PENDING", "ONGOING", "CONFIRMED"}

VARIABLES
    status,     \* order.status; "NONE" before the row exists
    deleted,    \* posts with is_deleted set
    credit,     \* user.credit_score
    log,        \* the CreditLog entries of every order
    queue,      \* queue:order_auto_confirm
    used,       \* order:cancel:limit:{uid}
    lock,       \* lock:order:cancel:limit:{uid}: whose token it holds
    at,         \* the statement each session is at
    kind,       \* the handler it runs
    on,         \* its order
    base,       \* the seller's score it has read
    quota,      \* whose quota its quick cancellation counts against, or NoUser
    met,        \* history: the pairs of orders whose handlers have overlapped
    overtaken,  \* history: locks that expired under their holder
    quick,      \* history: the quick cancellations of every user that were written
    missed,     \* history: those whose handler ended before it counted them
    unlogged,   \* history: awards of every user whose handler ended before the entry
    stopped     \* history: sessions that ended between two statements

sessionVars == <<at, kind, on, base, quota>>
creditVars == <<credit, log, unlogged>>
countVars == <<quick, missed>>
quotaVars == <<used, lock, overtaken, stopped, quick, missed>>
vars == <<status, deleted, credit, log, queue, used, lock, at, kind, on, base, quota, met,
          overtaken, quick, missed, unlogged, stopped>>

\* Orders in any state that handlers running one after the other leave them in.
Init ==
    /\ status \in [Orders -> Statuses]
    /\ \A o \in Orders : status[o] \in Before[o]
    /\ \A o, x \in Orders :
          ApplicantOf[o] = ApplicantOf[x] /\ PostOf[o] = PostOf[x]
            /\ status[o] \in Live /\ status[x] \in Live => o = x
    /\ deleted = {}
    /\ credit = [u \in Users |-> 0]
    /\ log = [o \in Orders |-> 0]
    /\ queue = {o \in Orders : status[o] = "CONFIRMED"}
    /\ used = [u \in Users |-> 0]
    /\ lock = [u \in Users |-> Nobody]
    /\ at = [s \in Sessions |-> "idle"]
    /\ kind = [s \in Sessions |-> "none"]
    /\ on = [s \in Sessions |-> NoOrder]
    /\ base = [s \in Sessions |-> 0]
    /\ quota = [s \in Sessions |-> NoUser]
    /\ met = {}
    /\ overtaken = 0
    /\ quick = [u \in Users |-> 0]
    /\ missed = [u \in Users |-> 0]
    /\ unlogged = [u \in Users |-> 0]
    /\ stopped = 0

At(s, step) == at[s] = step
GoTo(s, step) == at' = [at EXCEPT ![s] = step] /\ UNCHANGED <<kind, on, base, quota>>

\* What an ended session knew is forgotten.
End(s) ==
    /\ at' = [at EXCEPT ![s] = "idle"]
    /\ kind' = [kind EXCEPT ![s] = "none"]
    /\ on' = [on EXCEPT ![s] = NoOrder]
    /\ base' = [base EXCEPT ![s] = 0]
    /\ quota' = [quota EXCEPT ![s] = NoUser]

\* Session s starts handler k on order o and has read the score c.
Begin(s, k, o, c, u, step) ==
    /\ at[s] = "idle"
    /\ at' = [at EXCEPT ![s] = step]
    /\ kind' = [kind EXCEPT ![s] = k]
    /\ on' = [on EXCEPT ![s] = o]
    /\ base' = [base EXCEPT ![s] = c]
    /\ quota' = [quota EXCEPT ![s] = u]
    /\ met' = met \cup {{o, on[t]} : t \in {t \in Sessions \ {s} : at[t] # "idle"}}
    /\ Cardinality(met') <= MaxMet

-----------------------------------------------------------------------------
(* Reading and deciding *)

\* Slip: the applicant's earlier orders are not looked for.
Apply_Unchecked(s, o) ==
    /\ status[o] = "NONE" /\ \A t \in Sessions : on[t] # o
    /\ PostOf[o] \notin deleted
    /\ Begin(s, "apply", o, 0, NoUser, "write")
    /\ UNCHANGED <<status, deleted, creditVars, queue, quotaVars>>

Apply(s, o) ==
    /\ status[o] = "NONE" /\ \A t \in Sessions : on[t] # o
    /\ PostOf[o] \notin deleted
    /\ \A x \in Orders : status[x] \in Live =>
          ApplicantOf[x] # ApplicantOf[o] \/ PostOf[x] # PostOf[o]
    /\ Begin(s, "apply", o, 0, NoUser, "write")
    /\ UNCHANGED <<status, deleted, creditVars, queue, quotaVars>>

\* Approving and rejecting read the post before they write anything.
Decide(s, o, k) ==
    /\ k \in {"approve", "reject"}
    /\ status[o] = "PENDING"
    /\ Begin(s, k, o, 0, NoUser, "post")
    /\ UNCHANGED <<status, deleted, creditVars, queue, quotaVars>>

ReadPost(s) ==
    /\ At(s, "post")
    /\ IF PostOf[on[s]] \in deleted THEN End(s) ELSE GoTo(s, "write")
    /\ UNCHANGED <<status, deleted, creditVars, queue, quotaVars, met>>

Submit(s, o) ==
    /\ status[o] = "ONGOING"
    /\ Begin(s, "submit", o, 0, NoUser, "write")
    /\ UNCHANGED <<status, deleted, creditVars, queue, quotaVars>>

\* The seller is loaded with the order; the score is not read again.
Accept(s, o) ==
    /\ status[o] = "CONFIRMED"
    /\ Begin(s, "accept", o, credit[SellerOf[o]], NoUser, "write")
    /\ UNCHANGED <<status, deleted, creditVars, queue, quotaVars>>

\* Slip: an order that is completed may be completed by force once more.
ForceComplete_Again(s, o) ==
    /\ status[o] \in {"ONGOING", "CONFIRMED", "COMPLETED"}
    /\ Begin(s, "force", o, credit[SellerOf[o]], NoUser, "write")
    /\ UNCHANGED <<status, deleted, creditVars, queue, quotaVars>>

ForceComplete(s, o) ==
    /\ status[o] \in {"ONGOING", "CONFIRMED"}
    /\ Begin(s, "force", o, credit[SellerOf[o]], NoUser, "write")
    /\ UNCHANGED <<status, deleted, creditVars, queue, quotaVars>>

Claim(s, o) ==
    /\ o \in queue
    /\ queue' = queue \ {o}
    /\ Begin(s, "auto", o, 0, NoUser, "claimed")
    /\ UNCHANGED <<status, deleted, creditVars, quotaVars>>

ReadClaimed(s) ==
    /\ At(s, "claimed")
    /\ IF status[on[s]] # "CONFIRMED" THEN End(s)
       ELSE /\ at' = [at EXCEPT ![s] = "write"]
            /\ base' = [base EXCEPT ![s] = credit[SellerOf[on[s]]]]
            /\ UNCHANGED <<kind, on, quota>>
    /\ UNCHANGED <<status, deleted, creditVars, queue, quotaVars, met>>

\* u is the party that cancels when the cancellation is quick, or NoUser.
Cancel(s, o, u) ==
    /\ status[o] \in Cancelable
    /\ u \in ({ApplicantOf[o], SellerOf[o]} \cap Hasty) \cup {NoUser}
    /\ Begin(s, "cancel", o, 0, u, IF u = NoUser THEN "write" ELSE "acquire")
    /\ UNCHANGED <<status, deleted, creditVars, queue, quotaVars>>

-----------------------------------------------------------------------------
(* The lock and the quota of quick cancellations *)

Acquire(s) ==
    /\ At(s, "acquire")
    /\ lock[quota[s]] = Nobody
    /\ lock' = [lock EXCEPT ![quota[s]] = s]
    /\ GoTo(s, "check")
    /\ UNCHANGED <<status, deleted, creditVars, queue, used, met, overtaken, stopped, countVars>>

\* The lock was not free for a second.
GiveUp(s) ==
    /\ At(s, "acquire")
    /\ lock[quota[s]] # Nobody
    /\ End(s)
    /\ UNCHANGED <<status, deleted, creditVars, queue, quotaVars, met>>

Freed(s) == IF lock[quota[s]] = s THEN [lock EXCEPT ![quota[s]] = Nobody] ELSE lock

\* Slip: an off-by-one in the comparison.
CheckQuota_OneMore(s) ==
    /\ At(s, "check")
    /\ IF used[quota[s]] > Limit
       THEN End(s) /\ lock' = Freed(s)
       ELSE GoTo(s, "write") /\ UNCHANGED lock
    /\ UNCHANGED <<status, deleted, creditVars, queue, used, met, overtaken, stopped, countVars>>

CheckQuota(s) ==
    /\ At(s, "check")
    /\ IF used[quota[s]] >= Limit
       THEN End(s) /\ lock' = Freed(s)
       ELSE GoTo(s, "write") /\ UNCHANGED lock
    /\ UNCHANGED <<status, deleted, creditVars, queue, used, met, overtaken, stopped, countVars>>

Count(s) ==
    /\ At(s, "count")
    /\ used' = [used EXCEPT ![quota[s]] = @ + 1]
    /\ GoTo(s, "release")
    /\ UNCHANGED <<status, deleted, creditVars, queue, lock, met, overtaken, stopped, countVars>>

\* Only the lock that still holds the session's own token is dropped.
Release(s) ==
    /\ At(s, "release")
    /\ lock' = Freed(s)
    /\ End(s)
    /\ UNCHANGED <<status, deleted, creditVars, queue, used, met, overtaken, stopped, countVars>>

\* A session that ends early leaves its lock to expire.
Abandoned(s) ==
    IF quota[s] # NoUser /\ lock[quota[s]] = s THEN [lock EXCEPT ![quota[s]] = Orphan] ELSE lock

MoreMishaps == overtaken + stopped + Cardinality(deleted) < MaxMishaps

Expire(u) ==
    /\ lock[u] # Nobody
    /\ IF lock[u] = Orphan THEN UNCHANGED overtaken
       ELSE MoreMishaps /\ overtaken' = overtaken + 1
    /\ lock' = [lock EXCEPT ![u] = Nobody]
    /\ UNCHANGED <<status, deleted, creditVars, queue, used, sessionVars, met, stopped,
                   countVars>>

-----------------------------------------------------------------------------
(* Writing what was decided *)

Target == [apply |-> "PENDING", approve |-> "ONGOING", reject |-> "REJECTED",
           submit |-> "CONFIRMED", accept |-> "COMPLETED", force |-> "COMPLETED",
           auto |-> "COMPLETED", cancel |-> "CANCELED"]

After == [apply |-> "idle", approve |-> "idle", reject |-> "idle", submit |-> "enqueue",
          accept |-> "item", force |-> "item", auto |-> "credit", cancel |-> "item"]

Write(s) ==
    /\ At(s, "write")
    /\ status' = [status EXCEPT ![on[s]] = Target[kind[s]]]
    /\ IF After[kind[s]] = "idle" THEN End(s) ELSE GoTo(s, After[kind[s]])
    /\ quick' = [u \in Users |-> IF u = quota[s] THEN quick[u] + 1 ELSE quick[u]]
    /\ UNCHANGED <<deleted, creditVars, queue, used, lock, overtaken, stopped, missed, met>>

\* What the end of s leaves behind: a cancellation that is written and not counted,
\* and an award whose entry is not inserted.
Uncounted(s) == At(s, "item") \/ At(s, "count")
Missed(s) ==
    [u \in Users |-> IF u = quota[s] /\ Uncounted(s) THEN missed[u] + 1 ELSE missed[u]]
Unlogged(s) ==
    [u \in Users |-> IF At(s, "entry") /\ u = SellerOf[on[s]] THEN unlogged[u] + 1 ELSE unlogged[u]]

\* Accepting, forcing and cancelling read the post when they have written the
\* order; they fail when it is deleted, and drop no lock then.
ReadItem(s) ==
    /\ At(s, "item")
    /\ IF PostOf[on[s]] \in deleted
       THEN End(s) /\ lock' = Abandoned(s) /\ missed' = Missed(s)
       ELSE /\ UNCHANGED <<lock, missed>>
            /\ IF kind[s] # "cancel" THEN GoTo(s, "credit")
               ELSE IF quota[s] # NoUser THEN GoTo(s, "count")
               ELSE End(s)
    /\ UNCHANGED <<status, deleted, creditVars, queue, used, met, overtaken, stopped, quick>>

\* Slip: the score is set from the entry alone.
AddCredit_Sets(s) ==
    /\ At(s, "credit")
    /\ credit' = [credit EXCEPT ![SellerOf[on[s]]] = Award]
    /\ GoTo(s, "entry")
    /\ UNCHANGED <<status, deleted, log, unlogged, queue, quotaVars, met>>

\* The score becomes what was read with the order, plus the award.
AddCredit(s) ==
    /\ At(s, "credit")
    /\ credit' = [credit EXCEPT ![SellerOf[on[s]]] = base[s] + Award]
    /\ GoTo(s, "entry")
    /\ UNCHANGED <<status, deleted, log, unlogged, queue, quotaVars, met>>

\* The flush inserts the entry when it has updated the score.
AddEntry(s) ==
    /\ At(s, "entry")
    /\ log' = [log EXCEPT ![on[s]] = @ + 1]
    /\ End(s)
    /\ UNCHANGED <<status, deleted, credit, unlogged, queue, quotaVars, met>>

\* Slip: the sorted set is keyed by the post.
Enqueue_Item(s) ==
    /\ At(s, "enqueue")
    /\ queue' = queue \cup {PostOf[on[s]]}
    /\ End(s)
    /\ UNCHANGED <<status, deleted, creditVars, quotaVars, met>>

Enqueue(s) ==
    /\ At(s, "enqueue")
    /\ queue' = queue \cup {on[s]}
    /\ End(s)
    /\ UNCHANGED <<status, deleted, creditVars, quotaVars, met>>

\* The process stops, or a statement fails.
Stop(s) ==
    /\ MoreMishaps
    /\ stopped' = stopped + 1
    /\ ~At(s, "idle")
    /\ End(s)
    /\ lock' = Abandoned(s)
    /\ missed' = Missed(s)
    /\ unlogged' = Unlogged(s)
    /\ UNCHANGED <<status, deleted, credit, log, queue, used, met, overtaken, quick>>

DeletePost(p) ==
    /\ MoreMishaps
    /\ deleted' = deleted \cup {p}
    /\ UNCHANGED <<status, creditVars, queue, quotaVars, sessionVars, met>>

-----------------------------------------------------------------------------
Start(s) ==
    \E o \in Orders :
        \/ Apply(s, o)
        \/ \E k \in {"approve", "reject"} : Decide(s, o, k)
        \/ Submit(s, o)
        \/ Accept(s, o)
        \/ ForceComplete(s, o)
        \/ Claim(s, o)
        \/ \E u \in Users \cup {NoUser} : Cancel(s, o, u)

Continue(s) ==
    \/ ReadPost(s) \/ ReadClaimed(s)
    \/ Acquire(s) \/ GiveUp(s) \/ CheckQuota(s) \/ Count(s) \/ Release(s)
    \/ Write(s) \/ ReadItem(s) \/ AddCredit(s) \/ AddEntry(s) \/ Enqueue(s)

Next ==
    \/ \E s \in Sessions : Start(s) \/ Continue(s) \/ Stop(s)
    \/ \E u \in Users : Expire(u)
    \/ \E p \in Posts : DeletePost(p)

Spec == Init /\ [][Next]_vars

-----------------------------------------------------------------------------
(* Properties *)

Steps == {"idle", "post", "claimed", "acquire", "check", "write", "item", "credit", "entry",
          "enqueue", "count", "release"}

TypeOK ==
    /\ status \in [Orders -> Statuses]
    /\ deleted \subseteq Posts
    /\ credit \in [Users -> Nat]
    /\ log \in [Orders -> Nat]
    /\ queue \subseteq Orders
    /\ used \in [Users -> Nat]
    /\ lock \in [Users -> Sessions \cup {Nobody, Orphan}]
    /\ at \in [Sessions -> Steps]
    /\ kind \in [Sessions -> DOMAIN Target \cup {"none"}]
    /\ on \in [Sessions -> Orders \cup {NoOrder}]
    /\ base \in [Sessions -> Nat]
    /\ quota \in [Sessions -> Users \cup {NoUser}]
    /\ met \subseteq SUBSET Orders
    /\ overtaken \in Nat /\ stopped \in Nat
    /\ quick \in [Users -> Nat] /\ missed \in [Users -> Nat] /\ unlogged \in [Users -> Nat]

\* No two handlers have been under way on o at the same time.
Alone(o) == {o} \notin met

(* Handlers that follow one another pay an order once, though a task of the
   queue, the buyer and the administrator may each complete it, in any order
   and among the statements of handlers on other orders. *)
PaidOnce ==
    \A o \in Orders : Alone(o) => log[o] <= 1

\* The entries of the log that credit u.
Entries(u) == UNION {{o} \X (1 .. log[o]) : o \in {o \in Orders : SellerOf[o] = u}}
Awards(u) == Cardinality(Entries(u))

\* Awards of u that are in the score and whose entry is still to be inserted.
Owing(u) == {s \in Sessions : At(s, "entry") /\ SellerOf[on[s]] = u}

(* The score is the sum of the seller's log entries, of those still to be
   inserted and of those a stop or a failed statement has cut off, unless handlers
   of two of his orders (or two of one) have overlapped: then the score may have
   lost some of them, and never gained any. *)
ScoreFollowsLog ==
    \A u \in Users :
        LET awarded == Award * (Awards(u) + Cardinality(Owing(u)) + unlogged[u])
        IN  /\ credit[u] <= awarded
            /\ (\A o, x \in Orders : SellerOf[o] = u /\ SellerOf[x] = u => {o, x} \notin met)
                 => credit[u] = awarded

(* A user has two live orders on one post only when their handlers overlapped:
   the duplicate check and the insertion are two statements. *)
OneOrderUnlessMet ==
    \A o, x \in Orders :
        /\ o # x
        /\ ApplicantOf[o] = ApplicantOf[x] /\ PostOf[o] = PostOf[x]
        /\ status[o] \in Live /\ status[x] \in Live
        => {o, x} \in met

(* The quick cancellations of a user exceed the day's quota by one for each lock
   that expired while its holder was still counting and one for each that was
   written but not counted, as its handler failed on a deleted post or stopped,
   and not otherwise. *)
QuotaKept ==
    \A u \in Users : quick[u] <= Limit + overtaken + missed[u]

-----------------------------------------------------------------------------
(* What the documentation says and the code does not do *)

(* prompt/prompt-code:242-250: the automatic and the manual completion of an
   order may race; the row locks and a second look at the status before the
   commit are to make sure that the award is given once. *)
AwardedOnce == \A o \in Orders : log[o] <= 1
=============================================================================
