------------------------------- MODULE Metrics -------------------------------
(***************************************************************************)
(* The counters of posts or of goods: views, favourites and comments.      *)
(*                                                                         *)
(* Requests add to a Redis hash per item (metrics:post:{id}) and mark the  *)
(* item in a Redis set of active items; a job flushes the active items to  *)
(* the table of durable counters every minute, under a Redis lock.  Views  *)
(* are added to the table, favourites and comments are overwritten with    *)
(* what their own tables say.  Readers are shown the durable counter plus  *)
(* what is in Redis.                                                       *)
(*                                                                         *)
(* Each action is one command to Redis or one statement to the database:   *)
(* requests and flushes interleave between them.  The handlers for posts   *)
(* and for goods are copies of each other; Kind tells them apart where     *)
(* they differ.                                                            *)
(***************************************************************************)
EXTENDS Integers, FiniteSets, Sequences, Functions

CONSTANTS
    Kind,       \* "POST" or "GOODS"
    Items,      \* ids that requests name
    Stored,     \* the ids that have a row; the others are ghosts
    Users,
    Comments,   \* comments that may be written
    OnItem,     \* the item of every comment
    Slots,      \* bound: requests under way at a time
    MaxRequests, \* bound: views, favourites toggled, comments written and deleted, in all
    Workers,    \* processes that run the flush job
    NoWorker,
    FaultSets   \* bound: the failures a behaviour may meet together

ASSUME MetricsAssumption ==
    /\ Kind \in {"POST", "GOODS"}
    /\ Stored \subseteq Items
    /\ IsFiniteSet(Comments) /\ OnItem \in [Comments -> Stored]
    /\ MaxRequests \in Nat
    /\ NoWorker \notin Workers
    /\ FaultSets \subseteq SUBSET {"crash", "db", "redis", "ttl"}

Fields == {"view", "favorite", "comment"}
TruthFields == {"favorite", "comment"}
Zero == [f \in Fields |-> 0]
NoTruth == [f \in TruthFields |-> 0]

VARIABLES
    faults,     \* the failures that this behaviour meets
    favorites,  \* rows of user_favorite
    comment,    \* rows of comment: "none", "live" or "deleted"
    row,        \* post_metrics or goods_metrics
    delta,      \* metrics:{kind}:{id}
    active,     \* metrics:active_{kind}s_set
    todo,       \* what every request under way has still to do
    changes,    \* toggles and deletions so far
    holder,     \* metrics:flush_{kind}_lock
    flush,      \* the flush of every worker: where it is and what it has read
    seen,       \* history: views counted
    owed,       \* history: views in the table that Redis still counts as well
    interrupted \* history: items whose flush failed between table and Redis

tableVars == <<faults, favorites, comment, row>>
requestVars == <<todo, changes>>
flushVars == <<holder, flush>>
historyVars == <<seen, owed, interrupted>>
vars == <<faults, favorites, comment, row, delta, active, todo, changes, holder, flush,
          seen, owed, interrupted>>

Idle == [at |-> "idle", ids |-> {}, left |-> {},
         truth |-> [i \in Items |-> NoTruth], batch |-> [i \in Items |-> Zero]]

Init ==
    /\ faults \in FaultSets
    /\ favorites = {}
    /\ comment = [c \in Comments |-> "none"]
    /\ row = [i \in Items |-> Zero]
    /\ delta = [i \in Items |-> Zero]
    /\ active = {}
    /\ todo = [s \in Slots |-> <<>>]
    /\ changes = 0
    /\ holder = NoWorker
    /\ flush = [w \in Workers |-> Idle]
    /\ seen = [i \in Items |-> 0]
    /\ owed = [i \in Items |-> 0]
    /\ interrupted = {}

-----------------------------------------------------------------------------
(* Requests *)

Count(i, f, n) == [do |-> "count", item |-> i, field |-> f, by |-> n]
Mark(i) == [do |-> "mark", item |-> i]
Add(r) == [do |-> "add", row |-> r]
Drop(r) == [do |-> "drop", row |-> r]
Erase(c) == [do |-> "erase", comment |-> c]

\* incr_post_view, incr_post_favorite, ...: the hash first, then the set.
Incr(i, f, n) == <<Count(i, f, n), Mark(i)>>

Begin(s, script) ==
    /\ todo[s] = <<>>
    /\ todo' = [todo EXCEPT ![s] = script]
    /\ UNCHANGED <<faults, favorites, row, delta, active, holder, flush,
                   seen, owed, interrupted>>

\* Bound: requests, those under way included, that leave something to flush.
Room ==
    SumFunction(seen) + changes + Cardinality({c \in Comments : comment[c] # "none"})
        + Cardinality({t \in Slots : todo[t] # <<>>}) < MaxRequests

\* The detail page of goods counts the view before it looks for the goods.
View(s, i) ==
    /\ i \in Stored \/ Kind = "GOODS"
    /\ Room
    /\ Begin(s, Incr(i, "view", 1))
    /\ UNCHANGED <<comment, changes>>

FavoritesOf(u, i) == {r \in favorites : r.user = u /\ r.item = i}

\* toggle_favorite decides on what it reads, and writes later.
ToggleFavorite(s, u, i) ==
    /\ i \in Stored
    /\ Room
    /\ changes' = changes + 1
    /\ \/ \E r \in FavoritesOf(u, i) : Begin(s, <<Drop(r)>> \o Incr(i, "favorite", -1))
       \/ /\ FavoritesOf(u, i) = {}
          /\ Begin(s, <<Add([user |-> u, item |-> i, id |-> changes])>>
                      \o Incr(i, "favorite", 1))
    /\ UNCHANGED comment

CreateComment(s, c) ==
    /\ comment[c] = "none"
    /\ Room
    /\ comment' = [comment EXCEPT ![c] = "live"]
    /\ Begin(s, Incr(OnItem[c], "comment", 1))
    /\ UNCHANGED changes

\* A comment that is deleted already may be deleted again; comments on goods
\* are not discounted.
DeleteComment(s, c) ==
    /\ comment[c] # "none"
    /\ Room
    /\ changes' = changes + 1
    /\ Begin(s, (IF Kind = "POST" THEN Incr(OnItem[c], "comment", -1) ELSE <<>>)
                \o <<Erase(c)>>)
    /\ UNCHANGED comment

Pop(s) == todo' = [todo EXCEPT ![s] = Tail(@)]

DoCount(s) ==
    /\ todo[s] # <<>> /\ Head(todo[s]).do = "count"
    /\ LET t == Head(todo[s]) IN
         /\ delta' = [delta EXCEPT ![t.item][t.field] = @ + t.by]
         /\ seen' = [seen EXCEPT ![t.item] = IF t.field = "view" THEN @ + 1 ELSE @]
    /\ Pop(s)
    /\ UNCHANGED <<faults, favorites, comment, row, active, changes, holder, flush, owed,
                   interrupted>>

DoMark(s) ==
    /\ todo[s] # <<>> /\ Head(todo[s]).do = "mark"
    /\ active' = active \cup {Head(todo[s]).item}
    /\ Pop(s)
    /\ UNCHANGED <<faults, favorites, comment, row, delta, changes, holder, flush, seen, owed,
                   interrupted>>

\* The unique index turns the second of two equal favourites away, uncounted.
DoAdd(s) ==
    /\ todo[s] # <<>> /\ Head(todo[s]).do = "add"
    /\ LET r == Head(todo[s]).row IN
         IF FavoritesOf(r.user, r.item) # {}
         THEN todo' = [todo EXCEPT ![s] = <<>>] /\ UNCHANGED favorites
         ELSE Pop(s) /\ favorites' = favorites \cup {r}
    /\ UNCHANGED <<faults, comment, row, delta, active, changes, holder, flush, seen, owed,
                   interrupted>>

\* Deleting a favourite that is gone already only warns.
DoDrop(s) ==
    /\ todo[s] # <<>> /\ Head(todo[s]).do = "drop"
    /\ favorites' = favorites \ {Head(todo[s]).row}
    /\ Pop(s)
    /\ UNCHANGED <<faults, comment, row, delta, active, changes, holder, flush, seen, owed,
                   interrupted>>

DoErase(s) ==
    /\ todo[s] # <<>> /\ Head(todo[s]).do = "erase"
    /\ comment' = [comment EXCEPT ![Head(todo[s]).comment] = "deleted"]
    /\ Pop(s)
    /\ UNCHANGED <<faults, favorites, row, delta, active, changes, holder, flush, seen, owed,
                   interrupted>>

\* What follows the commands to Redis: at most an erasure, at the end.
AfterRedis(script) ==
    LET last == script[Len(script)] IN IF last.do = "erase" THEN <<last>> ELSE <<>>

\* Redis fails: the exception is swallowed (or ends the request), and what is
\* left for Redis is skipped.
SkipRedis(s) ==
    /\ "redis" \in faults
    /\ todo[s] # <<>> /\ Head(todo[s]).do \in {"count", "mark"}
    /\ todo' = [todo EXCEPT ![s] = AfterRedis(@)]
    /\ UNCHANGED <<faults, favorites, comment, row, delta, active, changes, holder, flush, seen,
                   owed, interrupted>>

\* The process stops in the middle of the request.
LoseRequest(s) ==
    /\ "crash" \in faults
    /\ todo[s] # <<>>
    /\ todo' = [todo EXCEPT ![s] = <<>>]
    /\ UNCHANGED <<faults, favorites, comment, row, delta, active, changes, holder, flush, seen,
                   owed, interrupted>>

-----------------------------------------------------------------------------
(* The flush job *)

At(w, step) == flush[w].at = step
GoTo(w, step) == flush' = [flush EXCEPT ![w].at = step]
Finish(w) == flush' = [flush EXCEPT ![w] = [Idle EXCEPT !.at = "release"]]

Acquire(w) ==
    /\ At(w, "idle")
    /\ holder = NoWorker
    /\ holder' = w
    /\ GoTo(w, "scan")
    /\ UNCHANGED <<tableVars, delta, active, requestVars, historyVars>>

Scan(w) ==
    /\ At(w, "scan")
    /\ IF active = {} THEN Finish(w)
       ELSE flush' = [flush EXCEPT ![w].at = "sift", ![w].ids = active]
    /\ UNCHANGED <<tableVars, delta, active, requestVars, holder, historyVars>>

\* Ids without a row are wiped from Redis.
Sift(w) ==
    /\ At(w, "sift")
    /\ LET ghosts == flush[w].ids \ Stored IN
         /\ active' = active \ ghosts
         /\ delta' = [i \in Items |-> IF i \in ghosts THEN Zero ELSE delta[i]]
    /\ IF flush[w].ids \cap Stored = {} THEN Finish(w)
       ELSE flush' = [flush EXCEPT ![w].at = "truth", ![w].ids = @ \cap Stored]
    /\ UNCHANGED <<tableVars, requestVars, holder, historyVars>>

Truth(i) ==
    [f \in TruthFields |->
        IF f = "favorite" THEN Cardinality({r \in favorites : r.item = i})
        ELSE Cardinality({c \in Comments : comment[c] = "live" /\ OnItem[c] = i})]

ReadTruth(w) ==
    /\ At(w, "truth")
    /\ flush' = [flush EXCEPT ![w].at = "deltas",
                              ![w].truth = [i \in Items |->
                                  IF i \in flush[w].ids THEN Truth(i) ELSE NoTruth]]
    /\ UNCHANGED <<tableVars, delta, active, requestVars, holder, historyVars>>

\* Items whose counters are all zero are only taken out of the active set.
ReadDeltas(w) ==
    /\ At(w, "deltas")
    /\ LET batch == [i \in Items |-> IF i \in flush[w].ids THEN delta[i] ELSE Zero] IN
         IF \A i \in Items : batch[i] = Zero
         THEN Finish(w) /\ active' = active \ flush[w].ids
         ELSE /\ flush' = [flush EXCEPT ![w].at = "upsert", ![w].batch = batch,
                                        ![w].left = {i \in Items : batch[i] # Zero}]
              /\ UNCHANGED active
    /\ UNCHANGED <<tableVars, delta, requestVars, holder, historyVars>>

AtLeastZero(n) == IF n < 0 THEN 0 ELSE n

\* Slip: what waits in Redis is taken off the truth, as if it were shown twice.
Upserted_Subtracts(w, i) ==
    LET b == flush[w].batch[i] IN
    [f \in Fields |-> IF f = "view" THEN AtLeastZero(row[i].view + b.view)
                      ELSE flush[w].truth[i][f] - b[f]]

Upserted(w, i) ==
    LET b == flush[w].batch[i] IN
    [f \in Fields |-> IF f = "view" THEN AtLeastZero(row[i].view + b.view)
                      ELSE flush[w].truth[i][f]]

\* One row: the driver sends the rows of this statement one by one, and each is
\* committed by itself.
Upsert(w) ==
    /\ At(w, "upsert")
    /\ \E i \in flush[w].left :
          LET left == flush[w].left \ {i} IN
          /\ row' = [row EXCEPT ![i] = Upserted(w, i)]
          /\ owed' = [owed EXCEPT ![i] = @ + flush[w].batch[i].view]
          /\ flush' = [flush EXCEPT ![w].left = left,
                                   ![w].at = IF left = {} THEN "deduct" ELSE "upsert",
                                   ![w].truth = IF left = {} THEN Idle.truth ELSE @]
    /\ UNCHANGED <<faults, favorites, comment, delta, active, requestVars, holder, seen,
                   interrupted>>

\* Slip: the hash is emptied instead of reduced by what was flushed.
Deduct_Resets(w) ==
    /\ At(w, "deduct")
    /\ delta' = [i \in Items |-> IF flush[w].batch[i] = Zero THEN delta[i] ELSE Zero]
    /\ owed' = [i \in Items |-> owed[i] - flush[w].batch[i].view]
    /\ GoTo(w, "clean")
    /\ UNCHANGED <<tableVars, active, requestVars, holder, seen, interrupted>>

Deduct(w) ==
    /\ At(w, "deduct")
    /\ delta' = [i \in Items |-> [f \in Fields |-> delta[i][f] - flush[w].batch[i][f]]]
    /\ owed' = [i \in Items |-> owed[i] - flush[w].batch[i].view]
    /\ flush' = [flush EXCEPT ![w].at = "clean", ![w].batch = Idle.batch]
    /\ UNCHANGED <<tableVars, active, requestVars, holder, seen, interrupted>>

Clean(w) ==
    /\ At(w, "clean")
    /\ active' = active \ flush[w].ids
    /\ Finish(w)
    /\ UNCHANGED <<tableVars, delta, requestVars, holder, historyVars>>

\* The lock is released only by the worker that still holds it.
Release(w) ==
    /\ At(w, "release")
    /\ holder' = IF holder = w THEN NoWorker ELSE holder
    /\ flush' = [flush EXCEPT ![w] = Idle]
    /\ UNCHANGED <<tableVars, delta, active, requestVars, historyVars>>

\* The views of item i are in the table and not yet taken out of Redis.
Between(w, i) ==
    /\ flush[w].at \in {"upsert", "deduct"}
    /\ i \notin flush[w].left /\ flush[w].batch[i].view # 0

\* Bound: an item is hit between the table and Redis once at most.
Interrupt(w) ==
    LET hit == {i \in Items : Between(w, i)} IN
    /\ hit \cap interrupted = {}
    /\ interrupted' = interrupted \cup hit

\* A command to the database or to Redis fails: the flush is given up, and the
\* rows it has written stay (the rollback finds nothing to undo).
Fail(w) ==
    /\ \/ "db" \in faults /\ flush[w].at \in {"sift", "truth", "upsert", "deduct"}
       \/ "redis" \in faults /\ flush[w].at \in {"scan", "deltas", "deduct", "clean"}
    /\ Finish(w)
    /\ Interrupt(w)
    /\ UNCHANGED <<tableVars, delta, active, requestVars, holder, seen, owed>>

\* The worker stops in the middle of its flush, and leaves the lock behind.
Crash(w) ==
    /\ "crash" \in faults
    /\ ~At(w, "idle")
    /\ flush' = [flush EXCEPT ![w] = Idle]
    /\ Interrupt(w)
    /\ UNCHANGED <<tableVars, delta, active, requestVars, holder, seen, owed>>

\* Slip: the lock is set without a time to live.
ExpireLock_Never ==
    /\ holder # NoWorker
    /\ UNCHANGED vars

\* The lock's 60 s are over: its holder stopped, or ("ttl") takes longer.
ExpireLock ==
    /\ holder # NoWorker
    /\ "ttl" \in faults \/ At(holder, "idle")
    /\ holder' = NoWorker
    /\ UNCHANGED <<tableVars, delta, active, requestVars, flush, historyVars>>

-----------------------------------------------------------------------------
Request(s) ==
    \/ \E i \in Items : View(s, i)
    \/ \E u \in Users, i \in Items : ToggleFavorite(s, u, i)
    \/ \E c \in Comments : CreateComment(s, c) \/ DeleteComment(s, c)

\* hydrate_posts_with_metrics: what a page says of item i.
Shown(i, f) == LET n == row[i][f] + delta[i][f] IN IF n > 0 THEN n ELSE 0

Continue(s) == DoCount(s) \/ DoMark(s) \/ DoAdd(s) \/ DoDrop(s) \/ DoErase(s)

FlushStep(w) ==
    \/ Scan(w)
    \/ Sift(w)
    \/ ReadTruth(w)
    \/ ReadDeltas(w)
    \/ Upsert(w)
    \/ Deduct(w)
    \/ Clean(w)
    \/ Release(w)

Next ==
    \/ \E s \in Slots : Request(s) \/ Continue(s) \/ SkipRedis(s) \/ LoseRequest(s)
    \/ \E w \in Workers : Acquire(w) \/ FlushStep(w) \/ Fail(w) \/ Crash(w)
    \/ ExpireLock

Spec == Init /\ [][Next]_vars

\* The scheduler starts a flush every minute and runs it to its end; Redis
\* drops the lock of a holder that is gone.
FlushFairness ==
    /\ \A w \in Workers : WF_vars(FlushStep(w))
    /\ WF_vars(\E w \in Workers : Acquire(w))
    /\ WF_vars(ExpireLock)

FairSpec == Spec /\ FlushFairness

-----------------------------------------------------------------------------
(* Properties *)

FavoriteRow == [user : Users, item : Stored, id : Nat]
Task ==
    [do : {"count"}, item : Items, field : {"view"}, by : {1}]
    \cup [do : {"count"}, item : Items, field : TruthFields, by : {-1, 1}]
    \cup [do : {"mark"}, item : Items]
    \cup [do : {"add", "drop"}, row : FavoriteRow]
    \cup [do : {"erase"}, comment : Comments]

Counters == [Fields -> Int]
Steps == {"idle", "scan", "sift", "truth", "deltas", "upsert", "deduct", "clean", "release"}

TypeOK ==
    /\ faults \in FaultSets
    /\ \A r \in favorites : r \in FavoriteRow
    /\ comment \in [Comments -> {"none", "live", "deleted"}]
    /\ row \in [Items -> [Fields -> Nat]]
    /\ delta \in [Items -> Counters]
    /\ active \subseteq Items
    /\ todo \in [Slots -> Seq(Task)]
    /\ changes \in Nat
    /\ holder \in Workers \cup {NoWorker}
    /\ flush \in [Workers -> [at : Steps, ids : SUBSET Items, left : SUBSET Items,
                              truth : [Items -> [TruthFields -> Nat]],
                              batch : [Items -> Counters]]]
    /\ seen \in [Items -> Nat]
    /\ owed \in [Items -> Int]
    /\ interrupted \subseteq Items

(* Views are neither lost nor invented: for every item that exists the durable
   counter and the Redis counter add up to the views counted, which is what a
   page shows, but for what a flush has written to its row and not yet taken out
   of Redis, and for items whose flush failed in between.  Requests, failures,
   a crash and two flushes at once (the lock expired) leave it so; three at once
   do not: AtLeastZero may then cut a batch that was taken out of Redis too often. *)
ViewsConserved ==
    \A i \in Stored :
        /\ row[i].view + delta[i].view = seen[i] + owed[i]
        /\ owed[i] = 0 => Shown(i, "view") = seen[i]
        /\ owed[i] # 0 =>
             \/ i \in interrupted
             \/ \E w \in Workers : Between(w, i)

(* Flushing goes on for ever: a worker that stops while it holds the lock, a
   failure anywhere in a flush and an early end of it all leave the lock to be
   taken again. *)
FlushGoesOn == []<>(\E w \in Workers : At(w, "scan"))

=============================================================================
