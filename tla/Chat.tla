-------------------------------- MODULE Chat --------------------------------
(***************************************************************************)
(* Private messages between two users and the blacklist that stops them.   *)
(* A chat exists once for two users; it keeps a preview of its last        *)
(* message, which a recall covers when the preview is of the same second.  *)
(* A publisher sends one message to every buyer of a post, in one request  *)
(* and on one database session.  Every step is one SQL statement: another  *)
(* request may run between two of them.                                    *)
(***************************************************************************)
EXTENDS Integers, Sequences, FiniteSets, FiniteSetsExt

CONSTANTS
    Users,
    Publisher,
    Sessions,       \* requests at the same time
    PageSize,
    RecallSeconds,  \* RECALL_TTL_SECONDS
    Mixes,          \* bound: what goes on together
    MaxMessages, MaxSeconds, MaxBlocks, MaxStops    \* bounds

ASSUME PublisherAssumption == Publisher \in Users
ASSUME BoundsAssumption ==
    {PageSize, RecallSeconds, MaxMessages, MaxSeconds, MaxBlocks, MaxStops} \subseteq Nat /\ PageSize > 0

Buyers == Users \ {Publisher}
Chats == {{Publisher, b} : b \in Buyers}      \* bound: buyers have no chats of their own
NoText == 0
RecallText == -1
Ids == 1 .. MaxMessages
Message == [chat : Chats, by : Users, second : 0 .. MaxSeconds,
            read : BOOLEAN, recalled : BOOLEAN, hidden : SUBSET Users,
            cast : BOOLEAN, barred : SUBSET Users]

VARIABLES
    mix,        \* what goes on in this behaviour
    clock,      \* seconds, the precision of the time columns
    open,       \* the chats that have a row
    msgs,       \* the messages, in the order of their ids
    text, time, \* the preview of every chat: the message shown, and its second
    blocks,     \* <<who, whom>>: the blacklist
    at, kind, who, peer,    \* the step of each request, what it does, for whom, with whom
    mine,       \* the message it has written or read
    barred,     \* history: who blocks the other one since the request turned to him
    todo,       \* the buyers it still has to send to
    broken,     \* its database session has to be rolled back, and is not
    counted, reached, failed,  \* the buyers counted; history: those that got a message,
                               \*   and those whose own message failed
    cursor, got, \* the page a reader is at, and what it has got
    due,        \* history: what it was to get
    blocked,    \* history: changes of the blacklist
    late,       \* history: messages recalled before their preview was written, or whose recall stopped
    overran,    \* history: a recall covered the preview of another message
    stopped     \* history: requests that ended between two steps

pageVars == <<cursor, got, due>>
castVars == <<todo, broken, counted, reached, failed>>
chatVars == <<open, msgs, text, time>>
historyVars == <<blocked, late, overran, stopped>>
vars == <<mix, clock, open, msgs, text, time, blocks, at, kind, who, peer, mine, barred, todo, broken,
          counted, reached, failed, cursor, got, due, blocked, late, overran, stopped>>

Init ==
    /\ mix \in Mixes
    /\ clock = 0 /\ msgs = <<>>
    /\ IF mix \cap {"open", "cast"} = {} THEN \E c \in Chats : open = {c} ELSE open = {}
    /\ text = [c \in Chats |-> NoText] /\ time = [c \in Chats |-> -1]
    /\ blocks = {}
    /\ at = [s \in Sessions |-> "idle"] /\ kind = [s \in Sessions |-> "none"]
    /\ who = [s \in Sessions |-> Publisher] /\ peer = [s \in Sessions |-> Publisher]
    /\ mine = [s \in Sessions |-> 0] /\ barred = [s \in Sessions |-> {}]
    /\ todo = [s \in Sessions |-> {}] /\ broken = [s \in Sessions |-> FALSE]
    /\ counted = [s \in Sessions |-> {}] /\ reached = [s \in Sessions |-> {}]
    /\ failed = [s \in Sessions |-> {}]
    /\ cursor = [s \in Sessions |-> 0] /\ got = [s \in Sessions |-> <<>>]
    /\ due = [s \in Sessions |-> {}]
    /\ blocked = 0 /\ late = {} /\ overran = FALSE /\ stopped = 0

At(s, step) == at[s] = step
GoTo(s, step) == at' = [at EXCEPT ![s] = step]
\* The request goes on, and knows no more than before.
GoOn(s, step) ==
    /\ GoTo(s, step)
    /\ UNCHANGED <<kind, who, peer, mine, barred, todo, broken, counted, reached, failed,
                   cursor, got, due>>
ChatOf(s) == {who[s], peer[s]}
Blocking(u, v) == {x \in {u, v} : <<x, CHOOSE y \in {u, v} : y # x>> \in blocks}

Begin(s, k, u, v, m, step) ==
    /\ At(s, "idle") /\ k \in mix
    /\ GoTo(s, step)
    /\ kind' = [kind EXCEPT ![s] = k]
    /\ who' = [who EXCEPT ![s] = u]
    /\ peer' = [peer EXCEPT ![s] = v]
    /\ mine' = [mine EXCEPT ![s] = m]
    /\ barred' = [barred EXCEPT ![s] = IF u = v THEN {} ELSE Blocking(u, v)]

End(s) ==
    /\ GoTo(s, "idle")
    /\ kind' = [kind EXCEPT ![s] = "none"]
    /\ who' = [who EXCEPT ![s] = Publisher]
    /\ peer' = [peer EXCEPT ![s] = Publisher]
    /\ mine' = [mine EXCEPT ![s] = 0]
    /\ barred' = [barred EXCEPT ![s] = {}]
    /\ todo' = [todo EXCEPT ![s] = {}] /\ broken' = [broken EXCEPT ![s] = FALSE]
    /\ counted' = [counted EXCEPT ![s] = {}] /\ reached' = [reached EXCEPT ![s] = {}]
    /\ failed' = [failed EXCEPT ![s] = {}]
    /\ cursor' = [cursor EXCEPT ![s] = 0] /\ got' = [got EXCEPT ![s] = <<>>]
    /\ due' = [due EXCEPT ![s] = {}]

-----------------------------------------------------------------------------
(* Opening a chat *)

\* Nobody opens a chat with himself, or with somebody who has blocked him.
Open(s, u, v) ==
    /\ {u, v} \in Chats
    /\ Begin(s, "open", u, v, 0, "check")
    /\ UNCHANGED <<mix, clock, chatVars, blocks, castVars, pageVars, historyVars>>

Send(s, u, v) ==
    /\ {u, v} \in open
    /\ Begin(s, "send", u, v, 0, "check")
    /\ UNCHANGED <<mix, clock, chatVars, blocks, castVars, pageVars, historyVars>>

\* Slip: the sender's own blacklist is looked at.
CheckBlock_Swapped(s) ==
    /\ At(s, "check")
    /\ IF <<who[s], peer[s]>> \in blocks
       THEN End(s)
       ELSE GoOn(s, IF kind[s] = "open" THEN "find" ELSE "insert")
    /\ UNCHANGED <<mix, clock, chatVars, blocks, historyVars>>

CheckBlock(s) ==
    /\ At(s, "check")
    /\ IF <<peer[s], who[s]>> \in blocks
       THEN End(s)
       ELSE GoOn(s, IF kind[s] = "open" THEN "find" ELSE "insert")
    /\ UNCHANGED <<mix, clock, chatVars, blocks, historyVars>>

Find(s) ==
    /\ At(s, "find")
    /\ IF kind[s] = "open" /\ ChatOf(s) \in open
       THEN End(s)
       ELSE GoOn(s, IF ChatOf(s) \in open THEN "insert" ELSE "create")
    /\ UNCHANGED <<mix, clock, chatVars, blocks, historyVars>>

Fail(s) ==
    /\ failed' = [failed EXCEPT ![s] = @ \cup {peer[s]}]
    /\ GoTo(s, "next")
    /\ UNCHANGED <<kind, who, peer, mine, barred, todo, counted, reached, pageVars>>

\* The row of the chat is unique; a failed INSERT leaves the database session
\* to be rolled back, which a broadcast does not do.
Create(s) ==
    /\ At(s, "create")
    /\ open' = open \cup {ChatOf(s)}
    /\ CASE kind[s] = "open" -> End(s)
         [] kind[s] = "cast" /\ ChatOf(s) \in open -> Fail(s) /\ broken' = [broken EXCEPT ![s] = TRUE]
         [] OTHER -> GoOn(s, "insert")
    /\ UNCHANGED <<mix, clock, msgs, text, time, blocks, historyVars>>

-----------------------------------------------------------------------------
(* Sending *)

Insert(s) ==
    /\ At(s, "insert")
    /\ Len(msgs) < MaxMessages
    /\ msgs' = Append(msgs, [chat |-> ChatOf(s), by |-> who[s], second |-> clock, read |-> FALSE,
                             recalled |-> FALSE, hidden |-> {}, cast |-> kind[s] = "cast", barred |-> barred[s]])
    /\ mine' = [mine EXCEPT ![s] = Len(msgs')]
    /\ reached' = IF kind[s] = "cast" THEN [reached EXCEPT ![s] = @ \cup {peer[s]}] ELSE reached
    /\ GoTo(s, "bind")
    /\ UNCHANGED <<mix, clock, open, text, time, blocks, kind, who, peer, barred, todo, broken, counted, failed,
                   pageVars, historyVars>>

\* Attachments that are not the sender's are refused when the message is stored.
Bind(s) ==
    /\ At(s, "bind")
    /\ \/ GoOn(s, "preview")
       \/ kind[s] = "cast" /\ Fail(s) /\ UNCHANGED broken
       \/ kind[s] = "send" /\ End(s)
    /\ UNCHANGED <<mix, clock, chatVars, blocks, historyVars>>

\* Slip: the second is rounded up.
Preview_Later(s) ==
    /\ At(s, "preview")
    /\ text' = [text EXCEPT ![ChatOf(s)] = mine[s]]
    /\ time' = [time EXCEPT ![ChatOf(s)] = clock + 1]
    /\ GoTo(s, "next")
    /\ UNCHANGED <<mix, clock, open, msgs, blocks, kind, who, peer, mine, barred, castVars, pageVars, historyVars>>

Preview(s) ==
    /\ At(s, "preview")
    /\ text' = [text EXCEPT ![ChatOf(s)] = mine[s]]
    /\ time' = [time EXCEPT ![ChatOf(s)] = clock]
    /\ late' = IF msgs[mine[s]].recalled THEN late \cup {mine[s]} ELSE late
    /\ IF kind[s] = "cast"
       THEN /\ counted' = [counted EXCEPT ![s] = @ \cup {peer[s]}]
            /\ GoTo(s, "next")
            /\ UNCHANGED <<kind, who, peer, mine, barred, todo, broken, reached, failed, pageVars>>
       ELSE End(s)
    /\ UNCHANGED <<mix, clock, open, msgs, blocks, blocked, overran, stopped>>

\* To every buyer of the post, whoever has blocked whom.
Broadcast(s) ==
    /\ Begin(s, "cast", Publisher, Publisher, 0, "next")
    /\ todo' = [todo EXCEPT ![s] = Buyers]
    /\ UNCHANGED <<mix, clock, chatVars, blocks, broken, counted, reached, failed, pageVars, historyVars>>

\* Slip: the buyer is taken off the list when the next one is.
NextBuyer_Last(s) ==
    /\ At(s, "next")
    /\ \E b \in todo[s] :
          /\ todo' = [todo EXCEPT ![s] = @ \ {b, peer[s]}]
          /\ peer' = [peer EXCEPT ![s] = b]
          /\ GoTo(s, IF Cardinality(todo[s]) = 1 THEN "report" ELSE "find")
    /\ UNCHANGED <<mix, clock, chatVars, blocks, kind, who, mine, barred, broken, counted, reached, failed,
                   pageVars, historyVars>>

NextBuyer(s) ==
    /\ At(s, "next")
    /\ IF todo[s] = {} \/ broken[s]
       THEN GoTo(s, "report") /\ UNCHANGED <<peer, todo, barred>>
       ELSE \E b \in todo[s] :
               /\ peer' = [peer EXCEPT ![s] = b]
               /\ barred' = [barred EXCEPT ![s] = Blocking(Publisher, b)]
               /\ todo' = [todo EXCEPT ![s] = @ \ {b}]
               /\ GoTo(s, "find")
    /\ UNCHANGED <<mix, clock, chatVars, blocks, kind, who, mine, broken, counted, reached, failed,
                   pageVars, historyVars>>

Report(s) ==
    /\ At(s, "report")
    /\ End(s)
    /\ UNCHANGED <<mix, clock, chatVars, blocks, historyVars>>

-----------------------------------------------------------------------------
(* Recalling *)

Recall(s, m) ==
    /\ m \in DOMAIN msgs
    /\ clock - msgs[m].second <= RecallSeconds
    /\ \E u \in msgs[m].chat \ {msgs[m].by} : Begin(s, "recall", msgs[m].by, u, m, "withdraw")
    /\ UNCHANGED <<mix, clock, chatVars, blocks, castVars, pageVars, historyVars>>

Withdraw(s) ==
    /\ At(s, "withdraw")
    /\ msgs' = [msgs EXCEPT ![mine[s]].recalled = TRUE]
    /\ GoTo(s, "look")
    /\ UNCHANGED <<mix, clock, open, text, time, blocks, kind, who, peer, mine, barred, castVars, pageVars, historyVars>>

\* Slip: only a preview that is newer than the message is covered.
Look_Newer(s) ==
    /\ At(s, "look")
    /\ IF time[ChatOf(s)] > msgs[mine[s]].second
       THEN GoOn(s, "cover")
       ELSE End(s)
    /\ UNCHANGED <<mix, clock, chatVars, blocks, historyVars>>

Look(s) ==
    /\ At(s, "look")
    /\ IF time[ChatOf(s)] = msgs[mine[s]].second
       THEN GoOn(s, "cover")
       ELSE End(s)
    /\ UNCHANGED <<mix, clock, chatVars, blocks, historyVars>>

Cover(s) ==
    /\ At(s, "cover")
    /\ text' = [text EXCEPT ![ChatOf(s)] = RecallText]
    /\ overran' = (overran \/ time[ChatOf(s)] # msgs[mine[s]].second)
    /\ End(s)
    /\ UNCHANGED <<mix, clock, open, msgs, time, blocks, blocked, late, stopped>>

-----------------------------------------------------------------------------
(* Reading, page by page from the newest message *)

Visible(u, c) == {m \in DOMAIN msgs : msgs[m].chat = c /\ u \notin msgs[m].hidden}

Read(s, u, v) ==
    /\ {u, v} \in open
    /\ Begin(s, "read", u, v, 0, "page")
    /\ cursor' = [cursor EXCEPT ![s] = MaxMessages + 1]
    /\ due' = [due EXCEPT ![s] = Visible(u, {u, v})]
    /\ UNCHANGED <<mix, clock, chatVars, blocks, castVars, got, historyVars>>

Newest(n, S) == {m \in S : Cardinality({x \in S : x > m}) < n}

\* Slip: the next page begins below the message that was too many.
Page_SkipsOne(s) ==
    /\ At(s, "page")
    /\ LET rest == {m \in Visible(who[s], ChatOf(s)) : m < cursor[s]}
           page == Newest(PageSize, rest)
       IN  /\ got' = [got EXCEPT ![s] = Append(@, page)]
           /\ IF Cardinality(rest) > PageSize
              THEN cursor' = [cursor EXCEPT ![s] = Max(rest \ page)] /\ UNCHANGED at
              ELSE GoTo(s, "paged") /\ UNCHANGED cursor
    /\ UNCHANGED <<mix, clock, chatVars, blocks, kind, who, peer, mine, barred, castVars, due, historyVars>>

Page(s) ==
    /\ At(s, "page")
    /\ LET rest == {m \in Visible(who[s], ChatOf(s)) : m < cursor[s]}
           page == Newest(PageSize, rest)
       IN  /\ got' = [got EXCEPT ![s] = Append(@, page)]
           /\ IF Cardinality(rest) > PageSize
              THEN cursor' = [cursor EXCEPT ![s] = Min(page)] /\ UNCHANGED at
              ELSE GoTo(s, "paged") /\ UNCHANGED cursor
    /\ UNCHANGED <<mix, clock, chatVars, blocks, kind, who, peer, mine, barred, castVars, due, historyVars>>

Paged(s) ==
    /\ At(s, "paged")
    /\ End(s)
    /\ UNCHANGED <<mix, clock, chatVars, blocks, historyVars>>

\* All messages of the other one, those that arrived a moment ago too.
MarkRead(u, c) ==
    /\ "mark" \in mix
    /\ u \in c /\ c \in open
    /\ \E m \in DOMAIN msgs : msgs[m].chat = c /\ msgs[m].by # u /\ ~msgs[m].read
    /\ msgs' = [m \in DOMAIN msgs |->
                   IF msgs[m].chat = c /\ msgs[m].by # u THEN [msgs[m] EXCEPT !.read = TRUE] ELSE msgs[m]]
    /\ UNCHANGED <<mix, clock, open, text, time, blocks, at, kind, who, peer, mine, barred, castVars, pageVars, historyVars>>

DeleteLocal(u, m) ==
    /\ "hide" \in mix
    /\ u \in msgs[m].chat /\ u \notin msgs[m].hidden
    /\ msgs' = [msgs EXCEPT ![m].hidden = @ \cup {u}]
    /\ UNCHANGED <<mix, clock, open, text, time, blocks, at, kind, who, peer, mine, barred, castVars, pageVars, historyVars>>

-----------------------------------------------------------------------------
(* The blacklist, time and failures *)

AddToBlacklist(u, v) ==
    /\ "block" \in mix
    /\ {u, v} \in Chats /\ <<u, v>> \notin blocks /\ blocked < MaxBlocks
    /\ blocks' = blocks \cup {<<u, v>>}
    /\ blocked' = blocked + 1
    /\ UNCHANGED <<mix, clock, chatVars, at, kind, who, peer, mine, barred, castVars, pageVars, late, overran, stopped>>

RemoveFromBlacklist(u, v) ==
    /\ <<u, v>> \in blocks
    /\ blocks' = blocks \ {<<u, v>>}
    /\ barred' = [s \in Sessions |-> IF ChatOf(s) = {u, v} THEN barred[s] \ {u} ELSE barred[s]]
    /\ UNCHANGED <<mix, clock, chatVars, at, kind, who, peer, mine, castVars, pageVars, historyVars>>

Tick ==
    /\ clock < MaxSeconds
    /\ clock' = clock + 1
    /\ UNCHANGED <<mix, chatVars, blocks, at, kind, who, peer, mine, barred, castVars, pageVars, historyVars>>

Stop(s) ==
    /\ ~At(s, "idle") /\ stopped < MaxStops
    /\ stopped' = stopped + 1
    /\ late' = IF kind[s] = "recall" THEN late \cup {mine[s]} ELSE late
    /\ End(s)
    /\ UNCHANGED <<mix, clock, chatVars, blocks, blocked, overran>>

Next ==
    \/ \E s \in Sessions :
          \/ \E u \in Users, v \in Users : Open(s, u, v) \/ Send(s, u, v) \/ Read(s, u, v)
          \/ CheckBlock(s) \/ Find(s) \/ Create(s) \/ Insert(s) \/ Bind(s) \/ Preview(s)
          \/ Broadcast(s) \/ NextBuyer(s) \/ Report(s)
          \/ \E m \in DOMAIN msgs : Recall(s, m)
          \/ Withdraw(s) \/ Look(s) \/ Cover(s)
          \/ Page(s) \/ Paged(s) \/ Stop(s)
    \/ \E u \in Users : (\E c \in Chats : MarkRead(u, c)) \/ (\E m \in DOMAIN msgs : DeleteLocal(u, m))
    \/ \E u \in Users, v \in Users : AddToBlacklist(u, v) \/ RemoveFromBlacklist(u, v)
    \/ Tick

Spec == Init /\ [][Next]_vars

-----------------------------------------------------------------------------
(* Properties *)

Steps == {"idle", "check", "find", "create", "insert", "bind", "preview", "next", "report",
          "withdraw", "look", "cover", "page", "paged"}

TypeOK ==
    /\ mix \in Mixes
    /\ clock \in 0 .. MaxSeconds
    /\ open \subseteq Chats
    /\ msgs \in Seq(Message) /\ Len(msgs) <= MaxMessages
    /\ text \in [Chats -> Ids \cup {NoText, RecallText}]
    /\ time \in [Chats -> -1 .. MaxSeconds]
    /\ blocks \subseteq Users \X Users
    /\ at \in [Sessions -> Steps]
    /\ kind \in [Sessions -> {"none", "open", "send", "cast", "recall", "read"}]
    /\ who \in [Sessions -> Users] /\ peer \in [Sessions -> Users]
    /\ mine \in [Sessions -> 0 .. MaxMessages]
    /\ barred \in [Sessions -> SUBSET Users] /\ todo \in [Sessions -> SUBSET Users]
    /\ broken \in [Sessions -> BOOLEAN]
    /\ counted \in [Sessions -> SUBSET Users] /\ reached \in [Sessions -> SUBSET Users]
    /\ failed \in [Sessions -> SUBSET Users]
    /\ cursor \in [Sessions -> 0 .. MaxMessages + 1]
    /\ got \in [Sessions -> Seq(SUBSET Ids)] /\ due \in [Sessions -> SUBSET Ids]
    /\ blocked \in Nat /\ late \subseteq Ids /\ overran \in BOOLEAN /\ stopped \in Nat

(* Nobody gets a message sent to him alone from somebody he blocked before it
   was asked for and has blocked ever since.  A publisher's broadcast does not
   look at the blacklist and reaches a buyer who has blocked him. *)
BlockHolds == \A m \in DOMAIN msgs : ~msgs[m].cast => msgs[m].barred \subseteq {msgs[m].by}

(* When no recall is under way, the preview does not go on showing a message of
   its own second that was recalled, unless the recall came before the preview
   or stopped; and it says "recalled" only for a message of that second, unless
   the preview changed between the recall's look at it and its write.  A preview
   written a second after its message is not promised anything: the recall
   compares two readings of the clock and leaves it as it is. *)
PreviewHonest ==
    (\A s \in Sessions : kind[s] # "recall") => \A c \in Chats :
        /\ text[c] \in Ids /\ msgs[text[c]].recalled =>
              text[c] \in late \/ msgs[text[c]].second # time[c]
        /\ text[c] = RecallText /\ ~overran =>
              \E m \in DOMAIN msgs : msgs[m].chat = c /\ msgs[m].recalled /\ msgs[m].second = time[c]

(* A reader who has paged to the end has seen every message that was there and
   is still visible, once, whatever was sent or deleted while he read. *)
PagesComplete ==
    \A s \in Sessions : At(s, "paged") =>
        /\ due[s] \cap Visible(who[s], ChatOf(s)) \subseteq UNION {got[s][i] : i \in DOMAIN got[s]}
        /\ \A i, j \in DOMAIN got[s] : i # j => got[s][i] \cap got[s][j] = {}

(* A broadcast reports the buyers it has reached; it misses one only when that
   one's message failed or its database session was broken. *)
BroadcastCounts ==
    \A s \in Sessions : At(s, "report") =>
        /\ counted[s] = reached[s] \ failed[s]
        /\ ~broken[s] => reached[s] \cup failed[s] = Buyers
=============================================================================
