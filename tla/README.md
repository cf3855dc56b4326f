# Verification of the campus marketplace backend

TLA+ models of the honguo-buddy backend, their TLC runs, and theorems about
them checked by TLAPS. Paths below are relative to the repository root;
`order_service.py` and the like are in `app/services/` unless said otherwise.

    tlc -config <run>.cfg <module>.tla     one of the runs of the table below
    tlapm <component>_proofs.tla           the proofs of one component

## 1. The system

One FastAPI process (Dockerfile: a single uvicorn worker) with asynchronous
handlers, a MySQL database reached through SQLAlchemy, and Redis. In the same
process run the scheduler (`main.py:77-125`: withdrawal of expired items and
flush of counters every minute, release of reviews every hour), the delayed
queue worker (`core/cleantask.py`) and a subscriber for changed configuration.
Nothing stops an operator from running several such processes; the Redis locks
in the code are there for it.

Two facts about sessions shape everything else:

* `db/base.py:19` opens connections with AUTOCOMMIT. A `SELECT ... FOR UPDATE`
  holds its row lock for that statement only, and whatever a handler has
  flushed stays written when the handler raises afterwards.
* the session flushes pending changes before every query, so "set a field, then
  query" writes the field before the query's result is looked at.

### Components

| component | state | operations | talks to | correct when |
|---|---|---|---|---|
| Orders (`order_service.py`) | order rows with status; credit log and score | apply, approve, reject, start fulfilment, submit and accept delivery, complete by force, cancel | posts and goods (status writes), users (credit), delay queue, Redis quota | an order only moves forward; a completion pays its seller once; nobody applies twice; post and goods status agree with the orders |
| Posts (`post_service.py`, `api/post.py`) | status, direction, slots, expiry, deleted | suspend, resume, edit, delete, withdraw expired | orders (pending applications block edits) | a recruiting post has room, an exclusive one does not recruit |
| Goods (`goods_service.py`) | status, lock inside `template_data`, expiry, deleted | delist, relist, edit, delete, withdraw expired | orders | goods being sold stay locked, off the shelf, with one buyer; no lock outlives its purchase |
| Delayed queue (`core/delay_queue.py`, `core/cleantask.py`) | two Redis sorted sets | enqueue, claim due members, handle | orders, reviews | every order awaiting confirmation is settled in the end |
| Scheduler (`main.py`) | none of its own | expiry job, flush job, review release job | posts, goods, metrics, reviews | jobs may repeat and race requests without harm |
| Database sessions (`db/base.py`) | connections | autocommit, flush, refresh | all | what documentation calls atomic is |
| Redis locks (`core/redis_atomic.py`) | lock keys with TTL, counters | acquire, release with token, count | quick cancellations, auth | only lost locks and uncounted cancellations exceed the daily quota |
| Metrics (`metrics_service.py`, counting parts of `social_service.py`, `comment_service.py`) | Redis hash per item, active set, durable counters, flush lock | count, toggle, comment, flush step by step | tables of favourites and comments | no view is lost or counted twice; flushing never stops |
| Reviews (`order_review_service.py`, `reputation_service.py`) | reviews, hidden or released; reputation | review, follow up, release by queue and by job | orders, delay queue | double blindness; each review counted once |
| Authentication (`auth_service.py`, `sms_service.py`, `api/auth.py`) | tokens in Redis; codes with their attempts and send limits | log in, log out, clean up; send and verify a code | users, caches | one token counts; guesses are bounded where they are counted; a code works once, but for requests that end before deleting it |
| Users (`user_service.py`, `api/user.py`) | user rows; four cached views of each in Redis | read, change, delete, bind, upload | authentication, reputation | a page shows the latest row, or is old for a known reason |
| Social, history | favourites, follows, visited list | toggles | metrics | counters agree with the tables |
| Chat, blacklist (`chat_service.py`, `blacklist_service.py`) | chats with a preview, messages, blocks | open, send, recall, page, mark, hide, broadcast, block | attachments, orders (buyers) | nothing gets through a block; previews and pages are true; a broadcast counts whom it reached |
| Dynamic configuration (`core/dynamic_config.py`, `config_service.py`) | rows, a copy per process, a Redis channel | seed, load, update, publish, hear | all settings | processes converge |
| Attachments, comments, categories, search, feedback, WeChat, HTTP plumbing | single rows or none | single-row writes and queries | - | see section 7 |

### What is hard

1. Long sequences of legal calls: the status of a post or goods is recomputed
   by reject and cancel from other orders, whatever it was before; approval
   looks neither at the post's status nor at its free slots.
2. Failing requests that leave partial effects (autocommit).
3. Three parties complete one order - buyer, administrator, worker - with stale
   tasks left behind in the queue.
4. A task is removed from the queue before it is handled.
5. Counters live in two stores; a flush is a sequence of commands to both that
   races requests, may stop anywhere, and may be overtaken when its lock expires.
6. Interleaved handlers that both pass a check before either writes: completions,
   applications, reviews, completions of different orders that move one score.
7. Locks in Redis that expire after three seconds under a holder that goes on.
8. Copies of a row in Redis that are filled and dropped by different requests.
9. Checks made in one statement and relied on in a later one (blacklist, codes).

Every hazard, at its line and with the properties that cover it, is in
`PROJECT.json` under "hazards".

## 2. Modules

| module | what it is |
|---|---|
| `OrderBook` | orders, posts, goods, credit, the auto-confirm queue: one action per handler, job or worker step |
| `OrderLifecycle` | abstract: what is promised about one order and about credit |
| `OrderSessions` | the handlers of single orders statement by statement, and the quota of quick cancellations under its lock |
| `Reviews` | double-blind reviews and the three that release them, statement by statement |
| `Metrics` | counters of one kind of item: one action per Redis command or SQL statement |
| `Tokens` | the tokens of one user in Redis, command by command |
| `Codes` | the one-time codes of one address, command by command |
| `Caches` | what Redis caches about one user, and who reads, changes and drops it |
| `Chat` | chats, messages, blacklist, broadcast, statement by statement |
| `DynamicConfig` | business parameters in the table and in the memory of several processes |
| `MC...` | small instances of each of these |
| `OrderBook_proofs` | types, credit, one order per applicant, tasks, refinement of `OrderLifecycle`; exclusive posts, room on posts, locks and purchases of goods |
| `OrderSessions_proofs`, `Reviews_proofs`, `Tokens_proofs`, `Codes_proofs`, `Caches_proofs`, `Chat_proofs`, `SharedState_proofs` (of `Metrics` and `DynamicConfig`) | types and the safety properties of these modules |

`OrderBook` takes a handler as one step, the other modules a statement or a
command. They meet in what they share: `OrderSessions` keeps of `OrderBook` one
order's handlers and takes them apart, `Reviews` starts from an order that
`OrderBook` completes, `Caches` takes from `Tokens` that a request is let in, from
`Codes` that a code was accepted, from `Reviews` that reviews were released.

### 2.1 OrderBook

State: `order` (what is fixed at creation: item, initiator, buyer, seller,
trigger) and `status` are the order table; `pstatus`, `direction`, `slots` the
posts; `gstatus`, `locked` the goods; `deleted` and `expired` flags of both;
`credit` the score of a user and `entries` the rows of his credit log; `queue` the sorted set of auto-confirm tasks,
`claimed` the member in the worker's hands; `used` today's counters of quick
cancellations. Two variables are history: `uncredited`, the orders completed without
moving the seller's score, and `unlogged`, those whose award moved the score and then
failed to write its entry: the two statements of `_add_credit` commit one by one
(`order_service.py:1421-1424`), and its failure is passed over (line 758).

| code | action |
|---|---|
| `create_order`, post and goods branch; `batch_accept_posts` is several of these with commits in between | `ApplyToPost`, `ApplyForGoods` |
| `promote_goods_order_to_ongoing` | `BuyGoods` |
| `approve_order`, both triggers | `ApproveApplication`, `ApproveCollective` |
| `reject_order` | `RejectOrder` |
| `start_collective_fulfillment` | `StartFulfilment` |
| `submit_delivery` (with or without the enqueue) | `SubmitDelivery` |
| `accept_delivery`, `force_complete_order_by_admin` | `AcceptDelivery`, `ForceComplete`; `CompleteOrphan` when the post is deleted |
| `process_delayed_queues_once`, `auto_confirm_overdue_order_by_id` | `ClaimTask`, `AutoConfirm`, `SkipTask`, `LoseTask` |
| `cancel_order` | `CancelPostOrder`, `CancelGoodsOrder`, `CancelOrphan` |
| suspend, resume, update, delete, delist, relist, update of items | actions of the same names |
| the expiry job, and the reads that write an expired item's status | `AutoSuspendExpired`, `ReadItem` |
| time | `Expire`, `NewDay` |

Abstractions. Prices, texts, templates, addresses and notifications are left
out. Who calls a handler is a parameter only where it changes the state (the
applicant; the quota of the one who cancels); a check that only turns a wrong
caller away is not modelled. Whether a cancellation is within ten minutes of
the order's creation is chosen freely: an order is cancelled at most once, so no
choice contradicts another. The worker has one task in hand at a time, and
when a task falls due is left open. `update_status`,
`auto_confirm_overdue_orders` and `_record_post_cancel` are called by nothing
and are not modelled; the DISPUTED status and the cancellation cool-down they
alone would set never occur. The read marks of the seller are left out.

A handler runs to its end in one action. That is exact for what the properties
here are about - sequences of calls, partial failures, the queue - and leaves out
what happens when two handlers interleave; section 7.

### 2.2 OrderLifecycle

An order is placed once, its parties never change, it moves forward along
PENDING, ONGOING, CONFIRMED, COMPLETED or ends CANCELED or REJECTED, several
applicants may be turned away together but nobody already taken is, and
credit moves only when an order completes, by one award for its seller.
`OrderBook` implements it with the identity on `order`, `status` and `credit`.

### 2.3 Metrics

State: `favorites` and `comment` are the tables the counters are derived from;
`row` is `post_metrics` or `goods_metrics`; `delta` the Redis hash of every
item, `active` the Redis set of items to flush, `holder` the flush lock;
`todo[s]` what a request under way has still to do, one Redis command or SQL
statement at a time; `flush[w]` where a worker's flush is, and the ids, true
counts and hash it has read. History: `seen` (views counted in Redis), `owed`
(views in the table that Redis still holds too), `interrupted` (items whose
row a flush had written when it ended before the deduction). `faults` is chosen once, from `FaultSets`.

A request (`View`, `ToggleFavorite`, `CreateComment`, `DeleteComment`) reads,
decides, and then does its steps (`DoCount`, `DoMark`, `DoAdd`, `DoDrop`,
`DoErase`) with anything in between. The flush is `Acquire`, `Scan`, `Sift`,
`ReadTruth`, `ReadDeltas`, `Upsert`, `Deduct`, `Clean`, `Release`, the order of
`_flush_post_metrics`; `Fail` is an exception at any of these commands (the lock
is released), `Crash` the end of the process (it is not), `ExpireLock` the TTL.
When a commit fails at "deduct" the table has been written: autocommit.

Handlers and flush of posts and of goods are copies of each other; `Kind` tells
them apart where they differ. The rows of the upsert are sent one by one, because
its VALUES call functions, and each is final when it is sent (`metrics_service.py:397-412`,
`:500-520`): `Upsert` writes one row, `left` are the rows still to be written, and a flush
that ends among them has written some of its batch. `Deduct` is one MULTI pipeline. `incr_post_upvote` is called by nothing
and no flush reads what it would count.

Handlers that show an item add the two counters (`Shown`, `hydrate_posts_with_metrics`).

### 2.4 OrderSessions

Orders on posts, with `status`, the seller's `credit`, the `log` of credit
entries, the `queue`; `at[s]` the statement a session sends next, `kind[s]` its
handler, `on[s]` its order, `base[s]` the score it read with the order, `quota[s]`
the user whose quota it counts against. `used` and `lock` are the Redis keys
`order:cancel:limit:{uid}` and its lock. History: `met`, the pairs of orders whose
handlers were under way together; `overtaken` and `stopped`; `quick`, the quick
cancellations that were written; `missed`, those of them that their handler ended before
counting; `unlogged`, the awards whose handler ended before their entry.

`Apply`, `Decide`, `Submit`, `Accept`, `ForceComplete`, `Claim` and `Cancel` read and decide;
`Write`, `ReadItem`, `AddCredit` (the score), `AddEntry` (the log), `Enqueue`, `Count`,
`Release` write later what was decided. A quick cancellation goes through `Acquire` (or `GiveUp`) and `CheckQuota`
first. `Stop` ends a session anywhere, `Expire` is the lock's TTL, `DeletePost` takes
the post away in between. The post's status is left to `OrderBook`; so are approvals of
applications and the start of fulfilment, which write several orders.

### 2.5 Reviews

`review` and `visible` are the rows, `task` the sorted set of
`queue:review_double_blind` with its scores, `completed` and `since` what is read of the
orders; `at`, `on`, `kind`, `user`, `seen` describe the requests, the queue's worker and the
hourly job, `due` the orders the job still has before it. Any user may have several
requests under way. `failed` and `doubled` are history: orders on which a request ended
after its insertion, and orders on which two requests of one user were both about to insert
his initial review, having found none. A request
inserts (`Insert`), counts the initial reviews (`CountInitials`), queues a task after the
first (`Enqueue`), and like the worker (`ClaimRelease`) and the job (`StartJob`,
`TakeNext`) judges, reads and publishes (`Judge`, `ReadReviews`, `Publish`). Days are the
clock's unit. ADDITIONAL reviews and REPLYs are handled like follow-ups.

### 2.6 Tokens

One user's `live` tokens (`token:{t}`), the one that counts (`latest`,
`user_token:{uid}`) and the lock. Login: `Acquire`, `ReadOld`, `DropOld`, `SetToken`,
`SetLatest`, `Recheck`, `Undo`, `Release`; logout without the lock: `Admit`,
`ReadLatest`, `DropToken`, `Forget`; the clean-up: `Clean`, `Acquire`, `Compare`,
`DropForgotten`. A token is the second it is issued in, because a JWT of the same
user and expiry is the same string (`core/security.py:29`). Histories say what ran
together; `given` is what logins returned.

### 2.7 Codes

`send_email_verify_code`/`verify_email_code`, `send_code`/`verify_code` for
telephones and `send_admin_login_code`/`verify_admin_login_code` are copies of one protocol;
`channel` tells where they differ. A code is a number; the stored record is `code`,
`tries`, `owner`; `rate` the key that limits sending; `lock` the lock of the check;
`holder` the user row the code is for. Sending: `TakeRate`, `Store`, `Mail`,
`Withdraw`. Checking: `Acquire`, one of `LookRefused`, `LookSpent`, `LookWrong`, `LookRight`,
then `Note` or `Discard`, or `BindEmail` / `BindPhone` and `Consume`, `FreeRate`, `Release`.
The check of an administrator's code counts no guesses (`auth_service.py:597-610`): there
`LookWrong` changes nothing but the history `wrong`, and only `MaxGuesses`, a bound of the
model, ends the guessing. An address is bound, and committed, before its code is deleted
(`auth_service.py:490-493`): the history `used` counts the acceptance when it binds,
`unspent` the requests that end before the deletion.

### 2.8 Caches

`now[k]` counts the changes of the columns key `k` shows, `cached[k]` is the count of
the row the cached copy was built from. `Kinds` are the handlers; `Shows` says which keys
show what a handler changes, `Droppers` and `Refillers` what it does afterwards. A
request is let in (`Admit`, `Note`), reads through (`Check`, `Look`, `Load`, `Fill`) or
writes (`Get`, `Write`, `Reload`, `Drop`, `DropFails`, `Rebuild`, `Refill`). A refill shows
the row as the session read it before the drops: SQLAlchemy's identity map does not
read it again. `late`, `kept` and `early` are history.

### 2.9 Chat

The chats of a publisher and his buyers: `open` rows, `msgs`, the preview `text` and
`time`, `blocks`. `Open`, `Send`, `Read`, `Recall` and `Broadcast` begin a request; its
statements follow (`CheckBlock`, `Find`, `Create`, `Insert`, `Bind`, `Preview`,
`Withdraw`, `Look`, `Cover`, `Page`). `Fail` is what a failing INSERT does to a
session: everybody else's request ends, the broadcast goes on with a session that is
`broken`. A message records in `cast` whether a broadcast wrote it, and in `barred` who
had blocked its sender when it was asked for and ever since. Marking read, hiding, blocking and unblocking are single statements.

### 2.10 DynamicConfig

`stored` is the table, `cache[p]` the copy of a process, `inbox[p]` the refresh
messages it has not handled. A process starts through `Enter`, `LookForRows`, `Seed`,
`LoadFirst`, `InstallFirst`, `Subscribe`; its listener takes a message and loads
(`Hear`) and installs (`Install`); an update goes through `Commit`, `Reread`, `LoadOwn`,
`InstallOwn`, `Publish`. A load is two steps, so two of them may overtake each other.
`Stop` and `Disconnect` end a process and a subscription. The specification is
`ConfigSpec`, so that the proofs of two components can share a module.

## 3. Runs

| run | instance | shows |
|---|---|---|
| `posts` | a post with 1-2 slots, two guests, 3 orders; admin, deletion, edits, expiry, suspension; failing credit statements | types; no duplicate orders; exclusivity; a post that recruits has room; lifecycle |
| `goods` | a goods, two guests, 3 orders; delisting, relisting, edits of status and expiry, deletion, quick cancellations; all failures | score and log follow the completions whatever the seller does and whoever completes; the lock ends with the purchase |
| `settles` | a post and a goods, 3 orders; deletion, administrator, edits of the slots; fair worker, no failures | a purchase holds the goods for its buyer; tasks are kept; every order awaiting confirmation is settled |
| `sessions` | three orders of one seller on one post, two of them by one applicant; two sessions; one pair of orders whose handlers overlap; one lock lost, session stopped or post deleted | handlers in sequence pay once; what overlapping ones break is bounded; quick cancellations exceed the quota by the lost locks and the uncounted ones only |
| `reviews` | one order, two requests of either party at a time, two reviews, the worker and the job; failing requests and Redis | nothing is shown early; double blindness breaks by two racing requests of one user only; two reviews release each other; all appear in the end |
| `views` | two goods, one with a comment, and an id that does not exist, two requests one after the other, two workers; either crash + database + Redis failures, or early expiry of the lock | no view is lost or invented; flushing never stops |
| `tokens` | three logins, logouts or clean-ups at a time, two seconds, one mishap | one token is left; logins agree; what was refused is not revived |
| `codes` | two users, one address, two requests at a time, two codes, two attempts, one mishap, each channel | guesses are bounded where they are counted; the last code alone works, and once but for requests that end before deleting it |
| `caches` | two requests of eight kinds at a time, two writes, every failure | a page is old for a known reason; a deleted user stays gone |
| `chat` | a publisher and two buyers, two requests at a time, two messages, one change of the blacklist, one stop; eight mixes of operations | blocks hold; previews are honest; pages are complete; a broadcast counts whom it reached |
| `config` | two processes, two updates of two keys, two stops, every failure | a process that missed no message ends with the table's values |

One run exhibits a statement of the documentation that the code does not keep;
`PROJECT.json`, "findings", has the quotation.

| run | stated | what happens |
|---|---|---|
| `double_award` | prompt/prompt-code:242-250: automatic and manual completion must not both take effect | two completions read CONFIRMED, both write a credit entry |

Where the two meet, `sessions` says how far it goes: only overlapping handlers of one
order pay it twice (`PaidOnce`), and the score may then have lost awards of the log; it is
ahead of the log only by entries still to be inserted and by those that a stop or a failed
statement cut off (`ScoreFollowsLog`).

### Other disagreements seen and not turned into runs

* A cancelled purchase leaves the goods off the shelf (`order_service.py:1257`;
  prompt/prompt-code:647 has them back on sale).
* Relisting ignores the lock of a purchase, so a second buyer may get the goods
  (`goods_service.py:269`; prompt/prompt-code:645).
* Fulfilment starts when a COMPLETED order is all there is (`order_service.py:1165`;
  README.md:3148 wants an ONGOING one).
* Approval does not look at `max_accepters` (`order_service.py:1059-1090`;
  `schemas/post.py:26` calls it the largest number accepted).
* A completion whose post has been deleted does not reward its seller
  (`order_service.py:747`; `core/dynamic_config.py:40`).
* A favourite committed, flushed, then counted is shown twice until the next flush
  (`metrics_service.py:356`; prompt/prompt-code:949 says that the hash holds only what
  is not persisted yet).
* Rejecting or cancelling reopens a suspended post (README.md:2717 reads otherwise).
* The comment counter of goods is never discounted and a comment deleted twice is
  discounted twice (`comment_service.py:187`), until the item's next flush.
* The cancel and the submit-delivery routes select `Goods.title`, a column that does not
  exist (`api/order.py:341`, `:434`), after the change has been committed.
* A block stops messages of the blocked user only; the blocker may still write
  (README.md:1680 has it stop both). A broadcast ignores the blacklist: the message of a
  publisher reaches a buyer who has blocked him (`chat_service.py:374`). `BlockHolds` is
  about messages sent to one person, and says so.
* The preview is dated by a second reading of the clock (`chat_service.py:200`), and a recall
  covers it only when the two agree (line 291): a preview written a second after its message
  goes on showing it when it has been recalled, with no race at all. `PreviewHonest` excepts
  these previews.
* Nothing limits the guesses at the code that lets an administrator in, but its lifetime
  (`auth_service.py:597-610`); the other two channels count them. `GuessesBounded` is about
  these two.
* A request that ends after it has bound an address and before it deletes the code
  (`auth_service.py:490-493`) leaves a code that is accepted once more; `LatestCodeOnce`
  counts such requests.
* A quick cancellation is counted after it was written: one on a deleted post, or whose
  process stops in between, is CANCELED and never counted (`order_service.py:1273`).
  `QuotaKept` counts them in `missed`.
* A credit entry that fails leaves its award in the score (`order_service.py:1421-1424`).
  `CreditMatchesCompletions` and `ScoreFollowsLog` count such awards in `unlogged`.
* A broadcast goes on after one buyer's failure, but a failed INSERT - the buyer opens
  the chat at that moment - leaves the database session unusable until rollback, which
  nobody calls: no later buyer is reached (`chat_service.py:380`; README.md:3535 says
  that one buyer's failure does not affect the others). `BroadcastCounts` has the exception.
* Every message of a broadcast binds the same attachments: each takes them from the one
  before, and only the last buyer's keeps them.
* A message whose attachments are refused stays stored, without preview.
* The total of unread messages counts chats that the list hides because of the blacklist.
* Two requests of one user at a time may write two initial reviews and release them
  before the other party has written (`order_review_service.py:41`; models/orderreview.py:46
  shows them once both have written or the period is over; no unique index stops it).
  `BothReviewed` excepts the orders where that race took place (`doubled`), and no others.
* A released review never refreshes the cached reputation: the function written for it
  is called by nothing (`reputation_service.py:7`). `kept` counts it among the causes.
* The profile cached at authentication is never hit: `_json` is bound later in the
  same function (`api/auth.py:91-121`), the read raises UnboundLocalError and the
  handler swallows it, against its docstring (`api/auth.py:36`).
* The avatar upload drops none of the keys that show the avatar (prompt/prompt-code:787);
  `swagger_login` drops none either, because its result has no `userId`.
* A process that loads the configuration while an update is published, or whose update
  fails between commit and publication, is left behind until the next one
  (README.md:545 has all instances refreshed at once); two processes that seed an empty table
  together: one fails to start; the listener's task is not restarted when it ends.

### Bounds

* `MaxOrders` 3: orders on different items meet only in `credit` and
  `used`, so one item and the smallest number of orders where three parties
  (one pending, one under way, one finished) meet are what the properties need.
* `SlotChoices` {1, 2}: one slot makes every approval close the post, two leave a
  partly filled one.
* `LightningLimit` 1: the counter reaches its limit at once.
* `Ops` and `Faults` select the operations and failures of an instance; among
  them the passing runs enable all but "edit_lock", the edit that overwrites the
  lock itself: with it a lock without buyer is what the edit asks for. No theorem but the
  four that say so depends on them. `PurchaseHeld` is for goods that are neither relisted nor
  edited, and the tasks of `settles` for a Redis and a worker that do not fail; what goes
  wrong otherwise is among the disagreements above and in the hazards.
* Guests are interchangeable (symmetry) except in runs with a liveness property.
* `MaxMet` 1: one pair of orders overlaps; two sessions race on it, and the third
  order is served before or after. The third order begins CONFIRMED, so that it can be
  completed three ways or cancelled; the other two begin before their creation.
* One `Hasty` user and `Limit` 1: his first quick cancellation reaches the quota.
* `MaxMishaps` 1 in `sessions`, `tokens`, `codes`: one lock lost or one request ended. The
  properties say what each further one may cost.
* `MaxSeconds` 1 in `tokens` and `chat`: two seconds, so that two logins or messages fall
  into one or into two.
* `MaxReviews` 2, `BlindDays` and `MaxTime` 1: two initial reviews of two parties or of one,
  or a review and a follow-up, before and after the deadline. What a third review does that
  is written among the statements of the second's release is left to the theorems: with
  three reviews the invariants pass in a minute and a half and `ReviewsAppear` in four.
* `MaxAttempts` 2 and two codes: one guess that is counted, one that is the last.
  `MaxGuesses` 4 lets the uncounted channel pass the bound of the counted ones.
* `PageSize` 1 with two messages: a page boundary between any two. `Mixes` takes the
  operations of `chat` in the groups that share state; all together are beyond TLC here.
* The `Kinds` of `caches` leave out `verify_email`, `delete_me`, `upload`,
  `login`, `swagger_login` and `add_credit`, whose steps are among those of `bind_phone`,
  `delete_user_admin` and `release_reviews`, on other keys or behind another guard; the
  theorems cover all kinds.
* `MaxRequests` 2, over views, toggled favourites and comments written or deleted: a view
  flushed and one counted meanwhile, views of two goods in one batch, or a favourite set and
  withdrawn. Two stored goods give the upsert two rows, so that a flush may end between
  them. Requests come through one slot, one after the other: they race the flushes of two
  workers, and through Redis' atomic increments they would race each other no further.
* `Interrupt`: a row is written and not deducted at most once for each item.
* `FaultSets` keeps failures and early lock expiry apart, and `views` has two workers.
  Beyond these two bounds `ViewsConserved` fails, and so would the code: `GREATEST(0, ...)`
  (`metrics_service.py:404`) clamps the durable counter when a batch that has become
  negative, through a double deduction, is written twice. TLC finds it with three workers
  whose locks expire early and two views. Without early expiry neither bound matters
  (`ViewsCorrect`).

### Fairness

`FairSpec` of `OrderBook` is weakly fair to the worker's `Claim` and `Handle`:
`watch_delayed_queues_task` loops for the life of the process. No user,
administrator or job is assumed to act. `FairSpec` of `Metrics` is weakly fair to
the steps of a flush that has begun, to some worker's starting one (the
scheduler does every 60 s, `main.py:95-104`) and to the expiry of the lock (its
TTL). `FairSpec` of `Reviews` is weakly fair to the clock and to the hourly job's start
and steps (`main.py:77-86`), not to the requests nor to the queue's worker: the job
alone shows every review. Nothing is assumed of requests, failures or crashes.

Deadlock is checked where the system never stops: the expiry job is always possible, in
`Metrics`, `Reviews`, `Tokens`, `Codes` and `Caches` some process can always act.
`sessions`, `chat` and `config` end when the bounded orders, messages or updates are used
up (`CHECK_DEADLOCK FALSE`).

## 4. Proofs

All theorems hold for every value of the constants - numbers of users, items, orders,
sessions, processes, keys, updates; choice of limits - and, unless stated, every set of
operations and failures. They rest on the named assumptions of each module: sets that are finite where they are counted,
disjoint sets, numbers of their types, names that are none of the values.

| theorem | argument |
|---|---|
| `OrderBook_proofs` | |
| `TypeCorrect` | induction; `TypeOK` says besides that an order with a status has a row, which every other proof uses |
| `CreditCorrect` | every step is a paid completion, an unpaid one, or leaves the set of credited orders and all scores alone (`StepKinds`); a paid completion adds an order to exactly one seller's set, and to his log unless the entry fails. Strengthened with: what is noted as unpaid or unlogged is completed, so none is paid or entered again |
| `OneOrderCorrect` | inductive with types: orders become live only by being created, and the duplicate check sees every live order |
| `TasksKept` | no "enqueue" and no "worker" failures: a task leaves the queue into the worker's hands and those when the order is no longer awaiting confirmation |
| `Refinement` | initial states map to initial states; every step to one of `Place`, `Decide`, `Deliver`, `Complete`, `Cancel` or a stutter |
| `ExclusiveCorrect` | inductive with types: an application is approved while it is pending, so no other is under way; each later writer of the post's status finds an order in hand |
| `RoomCorrect` | no edit of the number of slots: a post becomes recruiting only with a free slot, and orders are taken only together with a new count. Cardinalities of the sets of orders are bounded with `FiniteSetTheorems` |
| `LockCorrect` | no "edit_lock": whoever ends a purchase drops the lock, unless the goods are deleted |
| `HeldCorrect` | neither "relist" nor "edit_goods" |
| `OrderSessions_proofs` | |
| `TypeCorrect` | induction, with the steps of every handler (`PhaseInv`) and who holds the quota's lock (`LockInv`) |
| `QuotaCorrect` | a user's counter, the cancellation in its turn and those that go on without the lock are together at most the limit and the locks lost (`QuotaInv`); every quick cancellation that was written is counted, about to be, or missed (`WrittenInv`) |
| `PaidOnceCorrect` | while no two handlers have met on an order, what one of them has read of it still holds when it writes (`PaidInv`): the entry it adds is the first |
| `RivalsCorrect` | an order claims the applicant's place while it is live or its handler is about to write it so; two rivals that never met do not both claim it (`RivalInv`) |
| `ScoreCorrect` | no score, nor one that a completion has read and will write back, exceeds the awards in the log, those whose entry is still to be inserted and those cut off before it; while no two handlers on the seller's orders have met, one of them at most is under way and what it has read is the score (`ScoreInv`) |
| `Tokens_proofs` | |
| `TypeCorrect` | induction, with the commands of every session in order |
| `OneTokenCorrect`, `RevivalCorrect` | until a lock expires or a session stops, only the holder works under it (`LockInv`); while nothing goes wrong each command finds in Redis what the one before it left (`SmoothInv`) |
| `LoginsCorrect` | logins may overtake each other's lock: every token in Redis was given out or belongs to a login that is still to recheck it, and the one that counts is there or about to be replaced (`AgreeInv`) |
| `Codes_proofs` | |
| `TypeCorrect` | induction |
| `GuessesCorrect` | a budget (`BudgetInv`): the wrong guesses made, those the stored record still allows, and what each session that lost its lock may add - a guess, and an old count written back - stay within one round for the code and one for each lock lost, and a guess for each stopped request, on the two channels that count guesses. `FiniteSetTheorems` count the sessions |
| `LatestCorrect` | codes are numbered as they are stored (`NumberInv`); what a session settles is the last code, and one accepted more often than it was left behind is being deleted, or neither stored nor in anybody's hands (`OnceInv`) |
| `Reviews_proofs` | |
| `TypeCorrect` | induction; a process at work has an order |
| `ReleasedCorrect` | strengthened with: a process that reads or publishes works on an order that was ready (`Cleared`), and what is ready stays ready, since reviews are not deleted and time does not go back |
| `NoneLeftBehindCorrect` | inductive: the request that brings the second initial review counts it, and whoever counts two goes on to publish all it reads |
| `BothReviewedCorrect` | on an order that was not doubled nobody writes two initial reviews (`OneInitialEach`: of his requests past the check one at most is on its way to insert, and while it is he has none), so two are one of each party |
| `Caches_proofs` | |
| `TypeCorrect`, `StaleCorrect` | induction with: only a session between its write and its last drop owes drops; readers alone read through; a write that makes a key old is followed by its drop, or marks it |
| `DeletedCorrect` | a request that begins after the deletion never reaches a step that fills (`Barred`) |
| `Chat_proofs` | |
| `TypeCorrect` | induction, with the steps of every request (`PhaseInv`), the chat each one is about and the two users every message is between (`PairInv`), the message a request has written (`MineInv`). Messages last: a step adds one at the end, or recalls, reads or hides some (`Grown`) |
| `BlockCorrect` | who blocks when a request begins and ever since is among those the check turns away (`BarredInv`); a message that is no broadcast has just been inserted by a request past the check (`FreshMsgs`) |
| `PreviewCorrect` | if a preview has the second of its message, and that one is recalled, a recall has still to look at the preview or to cover it, or it is in `late` (`Showing`). A lemma for each step that writes a preview, recalls or ends a recall; every other step is `Quiet` |
| `PagesCorrect` | what a reader was to get and may still see is got or below his cursor, and everything got is at the cursor or above (`Following`). A page holds all that is newer than its oldest message (`PageOf`, by well-founded descent over the ids), and everything when there is no more than a page |
| `CastCorrect` | every buyer is still to come, the present one, or reached or failed (`CastInv`) |
| `SharedState_proofs` | |
| `TypeCorrect`, of `Metrics` | induction; favourites are finitely many, so what a flush counts is a number |
| `ViewsCorrect` | while no lock expires early: the worker at work holds the lock (`Mutual`), so the batch it has read is in Redis until it takes it out (`Batches`), and row by row what it has written of it is all that is owed in between (`Owing`); then the durable counter is never clamped and the sums stand (`Sums`). For any number of workers, requests, failures and crashes; the guard of `Interrupt`, a bound, is not used |
| `ConfigTypeCorrect`, `SettledCorrect` | induction with `Current`: when no update is under way and the inbox is empty, a process holds the table's values or has just loaded them. An update that is answered has put a message into every subscriber's inbox, and the load that follows reads after it |

The inductive invariants of `OrderSessions`, `Tokens`, `Codes` and `Metrics` (`IInv`), and of
`Chat` all but the part of `PairInv` that says who may have written a message, were
invariants of the component's run before they were proved. Only model-checked:
`ConfirmedSettles`, `FlushGoesOn` and `ReviewsAppear`, liveness under fairness, which the
prover does not reach; and `ViewsConserved` when a lock expires under one of two flushes,
which does not hold of three (section 3).

## 5. What the results rest on

* One handler at a time in `OrderBook`; `OrderSessions` says what of it survives
  interleaving for the handlers of single orders, not for those that write several.
  The properties of posts and goods therefore say nothing of two handlers that race on
  one item.
* Redis commands and SQL statements are atomic; a MULTI pipeline takes effect
  as a whole or not at all; MySQL's unique indexes hold.
* At most one worker of the delayed queue. Two would be safe against each other
  in the claim (`zrem` returns 1 for one of them) but not in the handler.
* A key that has a TTL may go at any time (locks, codes, tokens, cached pages).

## 6. Plan

1. Proofs over the unbounded models of what sessions add to `OrderBook`: that a handler of
   `OrderSessions` run alone does what `OrderBook` says (a refinement, for one session).
2. Publishing and its quotas, checked before they are taken (`api/post.py:132-151`), as
   sessions on one publisher.
3. The handlers that write several orders (approval of an application, start of
   fulfilment, purchase) statement by statement, over `OrderSessions`.
4. A second kind of reader in `Metrics`, who reads the hash and the row in two commands.

## 7. Not modelled, and why

* Publishing and its quotas, interleaved handlers that write several orders: planned.
* Registration and the calls to WeChat: an external service and one insertion.
* Follows and the browsing history: a toggle on a table that only listings read, and one
  bounded Redis list per user.
* Storing and serving files; categories, feedback, contacts: single-row writes
  without a protocol.
* Search, listings, statistics pages: queries only.
* WeChat notifications: calls to an external service in background tasks whose
  failure is logged; the cached access token is their only state.
* Exception mapping, logging, schemas, date formatting: no state.
