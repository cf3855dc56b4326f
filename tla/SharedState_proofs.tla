-------------------------- MODULE SharedState_proofs --------------------------
(***************************************************************************)
(* What server processes share through the database and Redis, for any     *)
(* number of processes: the counters of Metrics, whose views are neither   *)
(* lost nor invented, and the parameters of DynamicConfig, which a process *)
(* that has heard of every update has as they are in the table.            *)
(***************************************************************************)
EXTENDS Metrics, DynamicConfig, FiniteSetTheorems, TLAPS

\* What flush says of a worker.
FlushRecord == [at : Steps, ids : SUBSET Items, left : SUBSET Items,
                truth : [Items -> [TruthFields -> Nat]],
                batch : [Items -> Counters]]

-----------------------------------------------------------------------------
(* Types *)

\* What the script of a request is made of.
LEMMA Scripts ==
  /\ \A i \in Items : Incr(i, "view", 1) \in Seq(Task)
  /\ \A i \in Items, n \in {-1, 1} :
        /\ Incr(i, "favorite", n) \in Seq(Task)
        /\ Incr(i, "comment", n) \in Seq(Task)
  /\ \A r \in FavoriteRow : <<Add(r)>> \in Seq(Task) /\ <<Drop(r)>> \in Seq(Task)
  /\ \A c \in Comments : <<Erase(c)>> \in Seq(Task)
  <1>1. \A i \in Items : Count(i, "view", 1) \in Task /\ Mark(i) \in Task
    BY DEF Count, Mark, Task
  <1>2. \A i \in Items, n \in {-1, 1} :
           Count(i, "favorite", n) \in Task /\ Count(i, "comment", n) \in Task
    BY DEF Count, Task, TruthFields
  <1>3. \A r \in FavoriteRow : Add(r) \in Task /\ Drop(r) \in Task
    BY DEF Add, Drop, Task
  <1>4. \A c \in Comments : Erase(c) \in Task
    BY DEF Erase, Task
  <1>. QED
    BY <1>1, <1>2, <1>3, <1>4 DEF Incr

\* The heads of a script, by kind.
LEMMA Heads ==
  ASSUME TypeOK, NEW s \in Slots, todo[s] # <<>>
  PROVE  /\ Head(todo[s]) \in Task
         /\ Tail(todo[s]) \in Seq(Task)
         /\ Head(todo[s]).do = "count" =>
              /\ Head(todo[s]).item \in Items
              /\ \/ Head(todo[s]).field = "view" /\ Head(todo[s]).by = 1
                 \/ Head(todo[s]).field \in TruthFields /\ Head(todo[s]).by \in {-1, 1}
         /\ Head(todo[s]).do = "mark" => Head(todo[s]).item \in Items
         /\ Head(todo[s]).do \in {"add", "drop"} => Head(todo[s]).row \in FavoriteRow
         /\ Head(todo[s]).do = "erase" => Head(todo[s]).comment \in Comments
  <1>1. todo[s] \in Seq(Task)
    BY DEF TypeOK
  <1>2. Head(todo[s]) \in Task /\ Tail(todo[s]) \in Seq(Task)
    BY <1>1
  <1>. QED
    BY <1>2 DEF Task

LEMMA AfterRedisType ==
  ASSUME NEW q \in Seq(Task), q # <<>>
  PROVE  AfterRedis(q) \in Seq(Task)
  <1>1. q[Len(q)] \in Task
    OBVIOUS
  <1>. QED
    BY <1>1 DEF AfterRedis

\* A request that begins has a script, and counts the change it makes.
LEMMA RequestTypes ==
  ASSUME TypeOK, NEW s \in Slots, Request(s)
  PROVE  TypeOK'
  <1>. USE DEF TypeOK
  <1>1. ASSUME NEW script \in Seq(Task), Begin(s, script),
               comment' \in [Comments -> {"none", "live", "deleted"}], changes' \in Nat
        PROVE  TypeOK'
    BY <1>1 DEF Begin
  <1>2. ASSUME NEW i \in Items, View(s, i) PROVE TypeOK'
    <2>1. Incr(i, "view", 1) \in Seq(Task)
      BY Scripts
    <2>. QED
      BY <1>1, <1>2, <2>1 DEF View
  <1>3. ASSUME NEW u \in Users, NEW i \in Items, ToggleFavorite(s, u, i) PROVE TypeOK'
    <2>1. i \in Stored /\ changes' \in Nat /\ UNCHANGED comment
      BY <1>3 DEF ToggleFavorite
    <2>2. ASSUME NEW r \in FavoritesOf(u, i), Begin(s, <<Drop(r)>> \o Incr(i, "favorite", -1))
          PROVE  TypeOK'
      <3>1. r \in FavoriteRow
        BY DEF FavoritesOf
      <3>2. <<Drop(r)>> \o Incr(i, "favorite", -1) \in Seq(Task)
        BY <3>1, Scripts
      <3>. QED
        BY <1>1, <2>1, <2>2, <3>2
    <2>3. CASE Begin(s, <<Add([user |-> u, item |-> i, id |-> changes])>>
                        \o Incr(i, "favorite", 1))
      <3>1. [user |-> u, item |-> i, id |-> changes] \in FavoriteRow
        BY <2>1 DEF FavoriteRow
      <3>2. <<Add([user |-> u, item |-> i, id |-> changes])>> \o Incr(i, "favorite", 1)
              \in Seq(Task)
        BY <3>1, Scripts
      <3>. QED
        BY <1>1, <2>1, <2>3, <3>2
    <2>. QED
      BY <1>3, <2>2, <2>3 DEF ToggleFavorite
  <1>4. ASSUME NEW c \in Comments, CreateComment(s, c) PROVE TypeOK'
    <2>1. OnItem[c] \in Items
      BY MetricsAssumption
    <2>2. Incr(OnItem[c], "comment", 1) \in Seq(Task)
      BY <2>1, Scripts
    <2>. QED
      BY <1>1, <1>4, <2>2 DEF CreateComment
  <1>5. ASSUME NEW c \in Comments, DeleteComment(s, c) PROVE TypeOK'
    <2>1. OnItem[c] \in Items
      BY MetricsAssumption
    <2>2. Incr(OnItem[c], "comment", -1) \in Seq(Task) /\ <<Erase(c)>> \in Seq(Task)
      BY <2>1, Scripts
    <2>. DEFINE script == (IF Kind = "POST" THEN Incr(OnItem[c], "comment", -1) ELSE <<>>)
                          \o <<Erase(c)>>
    <2>3. script \in Seq(Task)
      BY <2>2
    <2>4. Begin(s, script) /\ changes' \in Nat /\ UNCHANGED comment
      BY <1>5 DEF DeleteComment
    <2>5. comment' \in [Comments -> {"none", "live", "deleted"}]
      BY <2>4
    <2>. HIDE DEF script
    <2>. QED
      BY <1>1, <2>3, <2>4, <2>5
  <1>. QED
    BY <1>2, <1>3, <1>4, <1>5 DEF Request

LEMMA ContinueTypes ==
  ASSUME TypeOK, NEW s \in Slots, Continue(s) \/ SkipRedis(s) \/ LoseRequest(s)
  PROVE  TypeOK'
  <1>. USE DEF TypeOK
  <1>1. CASE DoCount(s)
    <2>. DEFINE t == Head(todo[s])
    <2>1. /\ t.item \in Items /\ t.field \in Fields /\ t.by \in Int
          /\ Tail(todo[s]) \in Seq(Task)
      BY <1>1, Heads DEF DoCount, Fields, TruthFields
    <2>2. delta' \in [Items -> Counters]
      <3>. HIDE DEF t
      <3>1. delta' = [delta EXCEPT ![t.item][t.field] = @ + t.by]
        BY <1>1 DEF DoCount, t
      <3>. QED
        BY <2>1, <3>1 DEF Counters
    <2>3. seen' \in [Items -> Nat]
      BY <1>1, <2>1 DEF DoCount
    <2>. QED
      BY <1>1, <2>1, <2>2, <2>3 DEF DoCount, Pop
  <1>2. CASE DoMark(s)
    <2>1. Head(todo[s]).item \in Items /\ Tail(todo[s]) \in Seq(Task)
      BY <1>2, Heads DEF DoMark
    <2>. QED
      BY <1>2, <2>1 DEF DoMark, Pop
  <1>3. CASE DoAdd(s)
    <2>1. Head(todo[s]).row \in FavoriteRow /\ Tail(todo[s]) \in Seq(Task)
      BY <1>3, Heads DEF DoAdd
    <2>. DEFINE r == Head(todo[s]).row
    <2>2. CASE FavoritesOf(r.user, r.item) # {}
      <3>1. todo' = [todo EXCEPT ![s] = <<>>] /\ UNCHANGED favorites
        BY <1>3, <2>2 DEF DoAdd
      <3>. QED
        BY <1>3, <3>1 DEF DoAdd
    <2>3. CASE FavoritesOf(r.user, r.item) = {}
      <3>1. todo' = [todo EXCEPT ![s] = Tail(@)] /\ favorites' = favorites \cup {r}
        BY <1>3, <2>3 DEF DoAdd, Pop
      <3>. QED
        BY <1>3, <2>1, <3>1 DEF DoAdd
    <2>. QED
      BY <2>2, <2>3
  <1>4. CASE DoDrop(s)
    <2>1. Tail(todo[s]) \in Seq(Task)
      BY <1>4, Heads DEF DoDrop
    <2>. QED
      BY <1>4, <2>1 DEF DoDrop, Pop
  <1>5. CASE DoErase(s)
    <2>1. Tail(todo[s]) \in Seq(Task)
      BY <1>5, Heads DEF DoErase
    <2>. QED
      BY <1>5, <2>1 DEF DoErase, Pop
  <1>6. CASE SkipRedis(s)
    <2>1. AfterRedis(todo[s]) \in Seq(Task)
      BY <1>6, AfterRedisType DEF SkipRedis
    <2>. QED
      BY <1>6, <2>1 DEF SkipRedis
  <1>7. CASE LoseRequest(s)
    BY <1>7 DEF LoseRequest
  <1>. QED
    BY <1>1, <1>2, <1>3, <1>4, <1>5, <1>6, <1>7 DEF Continue

\* Favourites are finitely many: each request adds one at most.
LEMMA FiniteStep ==
  ASSUME IsFiniteSet(favorites), [Next]_vars
  PROVE  IsFiniteSet(favorites')
  <1>1. ASSUME NEW r, favorites' = favorites \cup {r} \/ favorites' = favorites \ {r}
        PROVE  IsFiniteSet(favorites')
    <2>1. favorites \ {r} \subseteq favorites
      OBVIOUS
    <2>2. IsFiniteSet(favorites \ {r})
      BY <2>1, FS_Subset
    <2>. QED
      BY <1>1, <2>2, FS_AddElement
  <1>2. ASSUME NEW s \in Slots, DoAdd(s) PROVE IsFiniteSet(favorites')
    BY <1>1, <1>2 DEF DoAdd
  <1>3. ASSUME NEW s \in Slots, DoDrop(s) PROVE IsFiniteSet(favorites')
    BY <1>1, <1>3 DEF DoDrop
  <1>4. ASSUME UNCHANGED favorites PROVE IsFiniteSet(favorites')
    BY <1>4
  <1>5. ASSUME NEW s \in Slots, Request(s) PROVE UNCHANGED favorites
    BY <1>5 DEF Request, View, ToggleFavorite, CreateComment, DeleteComment, Begin
  <1>6. ASSUME NEW s \in Slots,
               DoCount(s) \/ DoMark(s) \/ DoErase(s) \/ SkipRedis(s) \/ LoseRequest(s)
        PROVE  UNCHANGED favorites
    BY <1>6 DEF DoCount, DoMark, DoErase, SkipRedis, LoseRequest
  <1>7. ASSUME NEW w \in Workers, Acquire(w) \/ FlushStep(w) \/ Fail(w) \/ Crash(w)
        PROVE  UNCHANGED favorites
    BY <1>7 DEF Acquire, FlushStep, Scan, Sift, ReadTruth, ReadDeltas, Upsert, Deduct, Clean,
                Release, Fail, Crash, tableVars
  <1>8. CASE ExpireLock \/ UNCHANGED vars
    BY <1>8 DEF ExpireLock, tableVars, vars
  <1>. QED
    BY <1>2, <1>3, <1>4, <1>5, <1>6, <1>7, <1>8 DEF Next, Continue

\* The counts a flush reads from the tables are numbers.
LEMMA TruthType ==
  ASSUME IsFiniteSet(favorites), NEW i \in Items
  PROVE  Truth(i) \in [TruthFields -> Nat]
  <1>1. IsFiniteSet({r \in favorites : r.item = i})
    BY FS_Subset
  <1>2. IsFiniteSet({c \in Comments : comment[c] = "live" /\ OnItem[c] = i})
    BY MetricsAssumption, FS_Subset
  <1>3. /\ Cardinality({r \in favorites : r.item = i}) \in Nat
        /\ Cardinality({c \in Comments : comment[c] = "live" /\ OnItem[c] = i}) \in Nat
    BY <1>1, <1>2, FS_CardinalityType
  <1>. QED
    BY <1>3 DEF Truth

LEMMA IdleType == \A step \in Steps : [Idle EXCEPT !.at = step] \in FlushRecord
  <1>1. Idle.truth \in [Items -> [TruthFields -> Nat]] /\ Idle.batch \in [Items -> Counters]
    BY DEF Idle, NoTruth, Zero, Counters
  <1>. QED
    BY <1>1 DEF Idle, FlushRecord

\* The flush of a worker goes on, or ends.
LEMMA FlushTypes ==
  ASSUME TypeOK, IsFiniteSet(favorites), NEW w \in Workers,
         Acquire(w) \/ FlushStep(w) \/ Fail(w) \/ Crash(w)
  PROVE  TypeOK'
  <1>1. flush \in [Workers -> FlushRecord] /\ flush[w] \in FlushRecord
    BY DEF TypeOK, FlushRecord
  <1>2. Idle \in FlushRecord /\ [Idle EXCEPT !.at = "release"] \in FlushRecord
    <2>1. Idle = [Idle EXCEPT !.at = "idle"]
      BY DEF Idle
    <2>. QED
      BY <2>1, IdleType DEF Steps
  <1>3. ASSUME NEW f \in FlushRecord, flush' = [flush EXCEPT ![w] = f]
        PROVE  flush' \in [Workers -> [at : Steps, ids : SUBSET Items, left : SUBSET Items,
                              truth : [Items -> [TruthFields -> Nat]],
                              batch : [Items -> Counters]]]
    BY <1>1, <1>3 DEF FlushRecord
  <1>4. ASSUME Finish(w)
        PROVE  flush' \in [Workers -> [at : Steps, ids : SUBSET Items, left : SUBSET Items,
                              truth : [Items -> [TruthFields -> Nat]],
                              batch : [Items -> Counters]]]
    BY <1>2, <1>3, <1>4 DEF Finish
  <1>5. CASE Acquire(w)
    <2>1. [flush[w] EXCEPT !.at = "scan"] \in FlushRecord
      BY <1>1 DEF FlushRecord, Steps
    <2>2. flush' = [flush EXCEPT ![w] = [flush[w] EXCEPT !.at = "scan"]]
      BY <1>1, <1>5 DEF Acquire, GoTo
    <2>. QED
      BY <1>3, <1>5, <2>1, <2>2 DEF Acquire, TypeOK, tableVars, requestVars, historyVars
  <1>6. CASE Scan(w)
    <2>1. [flush[w] EXCEPT !.at = "sift", !.ids = active] \in FlushRecord
      BY <1>1 DEF FlushRecord, Steps, TypeOK
    <2>2. Finish(w) \/ flush' = [flush EXCEPT ![w] = [flush[w] EXCEPT !.at = "sift", !.ids = active]]
      BY <1>1, <1>6 DEF Scan
    <2>. QED
      BY <1>3, <1>4, <1>6, <2>1, <2>2 DEF Scan, TypeOK, tableVars, requestVars, historyVars
  <1>7. CASE Sift(w)
    <2>1. [flush[w] EXCEPT !.at = "truth", !.ids = @ \cap Stored] \in FlushRecord
      BY <1>1 DEF FlushRecord, Steps
    <2>2. Finish(w) \/ flush' = [flush EXCEPT ![w] =
                                    [flush[w] EXCEPT !.at = "truth", !.ids = @ \cap Stored]]
      BY <1>1, <1>7 DEF Sift
    <2>3. active' \subseteq Items /\ delta' \in [Items -> Counters]
      BY <1>7 DEF Sift, TypeOK, Zero, Counters
    <2>. QED
      BY <1>3, <1>4, <1>7, <2>1, <2>2, <2>3 DEF Sift, TypeOK, tableVars, requestVars, historyVars
  <1>8. CASE ReadTruth(w)
    <2>. DEFINE truth == [i \in Items |-> IF i \in flush[w].ids THEN Truth(i) ELSE NoTruth]
    <2>1. truth \in [Items -> [TruthFields -> Nat]]
      BY TruthType DEF NoTruth
    <2>2. flush' = [flush EXCEPT ![w] = [flush[w] EXCEPT !.at = "deltas", !.truth = truth]]
      BY <1>1, <1>8 DEF ReadTruth
    <2>. HIDE DEF truth
    <2>3. [flush[w] EXCEPT !.at = "deltas", !.truth = truth] \in FlushRecord
      BY <1>1, <2>1 DEF FlushRecord, Steps
    <2>. QED
      BY <1>3, <1>8, <2>2, <2>3 DEF ReadTruth, TypeOK, tableVars, requestVars, historyVars
  <1>9. CASE ReadDeltas(w)
    <2>. DEFINE batch == [i \in Items |-> IF i \in flush[w].ids THEN delta[i] ELSE Zero]
                rows == {i \in Items : batch[i] # Zero}
    <2>1. batch \in [Items -> Counters] /\ rows \subseteq Items
      BY DEF TypeOK, Zero, Counters
    <2>2. /\ \/ Finish(w)
             \/ flush' = [flush EXCEPT ![w] =
                              [flush[w] EXCEPT !.at = "upsert", !.batch = batch, !.left = rows]]
          /\ active' \subseteq Items
      BY <1>1, <1>9 DEF ReadDeltas, TypeOK
    <2>. HIDE DEF batch, rows
    <2>3. [flush[w] EXCEPT !.at = "upsert", !.batch = batch, !.left = rows] \in FlushRecord
      BY <1>1, <2>1 DEF FlushRecord, Steps
    <2>. QED
      BY <1>3, <1>4, <1>9, <2>2, <2>3 DEF ReadDeltas, TypeOK, tableVars, requestVars, historyVars
  <1>10. CASE Upsert(w)
    <2>1. PICK i \in flush[w].left :
              /\ row' = [row EXCEPT ![i] = Upserted(w, i)]
              /\ owed' = [owed EXCEPT ![i] = @ + flush[w].batch[i].view]
              /\ flush' = [flush EXCEPT ![w].left = flush[w].left \ {i},
                     ![w].at = IF flush[w].left \ {i} = {} THEN "deduct" ELSE "upsert",
                     ![w].truth = IF flush[w].left \ {i} = {} THEN Idle.truth ELSE @]
      BY <1>10 DEF Upsert
    <2>. DEFINE left == flush[w].left \ {i}
                step == IF left = {} THEN "deduct" ELSE "upsert"
                truth == IF left = {} THEN Idle.truth ELSE flush[w].truth
    <2>2. left \subseteq Items /\ step \in Steps /\ truth \in [Items -> [TruthFields -> Nat]] /\ i \in Items
      BY <1>1, <1>2 DEF FlushRecord, Steps
    <2>3. flush' = [flush EXCEPT ![w] = [flush[w] EXCEPT !.left = left, !.at = step, !.truth = truth]]
      BY <1>1, <2>1
    <2>. HIDE DEF left, step, truth
    <2>4. [flush[w] EXCEPT !.left = left, !.at = step, !.truth = truth] \in FlushRecord
      BY <1>1, <2>2 DEF FlushRecord
    <2>5. flush[w].batch[i].view \in Int /\ row[i].view \in Nat
      BY <1>1, <2>2 DEF FlushRecord, Counters, Fields, TypeOK
    <2>6. AtLeastZero(row[i].view + flush[w].batch[i].view) \in Nat
      BY <2>5 DEF AtLeastZero
    <2>7. \A f \in Fields : f # "view" => flush[w].truth[i][f] \in Nat
      BY <1>1, <2>2 DEF FlushRecord, Fields, TruthFields
    <2>8. Upserted(w, i) \in [Fields -> Nat]
      BY <2>6, <2>7 DEF Upserted
    <2>9. row' \in [Items -> [Fields -> Nat]]
      BY <2>1, <2>2, <2>8 DEF TypeOK
    <2>10. owed' \in [Items -> Int]
      <3>1. owed \in [Items -> Int]
        BY DEF TypeOK
      <3>2. owed[i] + flush[w].batch[i].view \in Int
        BY <2>2, <2>5, <3>1
      <3>. QED
        BY <2>1, <3>1, <3>2
    <2>. QED
      BY <1>3, <1>10, <2>3, <2>4, <2>9, <2>10 DEF Upsert, TypeOK, requestVars
  <1>11. CASE Deduct(w)
    <2>1. [flush[w] EXCEPT !.at = "clean", !.batch = Idle.batch] \in FlushRecord
      BY <1>1, <1>2 DEF FlushRecord, Steps
    <2>2. flush' = [flush EXCEPT ![w] = [flush[w] EXCEPT !.at = "clean", !.batch = Idle.batch]]
      BY <1>1, <1>11 DEF Deduct
    <2>3. \A i \in Items, f \in Fields : flush[w].batch[i][f] \in Int /\ delta[i][f] \in Int
      BY <1>1 DEF FlushRecord, Counters, TypeOK
    <2>4. delta' \in [Items -> Counters]
      BY <1>11, <2>3 DEF Deduct, Counters
    <2>5. owed' \in [Items -> Int]
      BY <1>11, <2>3 DEF Deduct, TypeOK, Fields
    <2>. QED
      BY <1>3, <1>11, <2>1, <2>2, <2>4, <2>5 DEF Deduct, TypeOK, tableVars, requestVars
  <1>12. CASE Clean(w)
    BY <1>4, <1>12 DEF Clean, TypeOK, tableVars, requestVars, historyVars
  <1>13. CASE Release(w)
    BY <1>2, <1>3, <1>13 DEF Release, TypeOK, tableVars, requestVars, historyVars
  <1>14. CASE Fail(w)
    BY <1>4, <1>14 DEF Fail, Interrupt, TypeOK, tableVars, requestVars
  <1>15. CASE Crash(w)
    BY <1>2, <1>3, <1>15 DEF Crash, Interrupt, TypeOK, tableVars, requestVars
  <1>. QED
    BY <1>5, <1>6, <1>7, <1>8, <1>9, <1>10, <1>11, <1>12, <1>13, <1>14, <1>15 DEF FlushStep

\* Types.
LEMMA TypeStep ==
  ASSUME TypeOK, IsFiniteSet(favorites), [Next]_vars
  PROVE  TypeOK'
  <1>1. CASE ExpireLock
    BY <1>1 DEF ExpireLock, TypeOK, tableVars, requestVars, historyVars
  <1>2. CASE UNCHANGED vars
    BY <1>2 DEF vars, TypeOK
  <1>. QED
    BY <1>1, <1>2, RequestTypes, ContinueTypes, FlushTypes DEF Next

-----------------------------------------------------------------------------
(* Views, as long as no lock expires under a worker that goes on *)

\* The worker at work holds the lock.
Mutual == \A w \in Workers : ~At(w, "idle") => holder = w

\* What a flush is about to write, and then to take out of Redis, is there.
Batches ==
    \A i \in Stored :
        /\ delta[i].view >= 0
        /\ \A w \in Workers : flush[w].at \in {"upsert", "deduct"} =>
               /\ flush[w].batch[i].view >= 0
               /\ flush[w].batch[i].view <= delta[i].view
        /\ \A w \in Workers : At(w, "deduct") => i \notin flush[w].left

\* The row of item i is written, if its batch has one.
Wrote(w, i) == flush[w].at \in {"upsert", "deduct"} /\ i \notin flush[w].left

\* Redis counts again what has been written and not taken out.
Owing ==
    \A i \in Stored \ interrupted :
        /\ \A w \in Workers : Wrote(w, i) => owed[i] = flush[w].batch[i].view
        /\ (\A w \in Workers : ~Wrote(w, i)) => owed[i] = 0

Sums == \A i \in Stored : row[i].view + delta[i].view = seen[i] + owed[i]

Ledger == Mutual /\ Batches /\ Owing /\ Sums

IInv ==
    /\ TypeOK
    /\ IsFiniteSet(favorites)
    /\ "ttl" \notin faults => Ledger

\* The numbers above are numbers.
LEMMA Numbers ==
  ASSUME TypeOK
  PROVE  /\ Stored \subseteq Items
         /\ \A i \in Items : /\ row[i].view \in Nat /\ delta[i].view \in Int
                             /\ seen[i] \in Nat /\ owed[i] \in Int
                             /\ \A w \in Workers : flush[w].batch[i].view \in Int
  BY MetricsAssumption DEF TypeOK, Fields, Counters

\* Nobody works next to a worker at work.
LEMMA Alone ==
  ASSUME Mutual, NEW w \in Workers, ~At(w, "idle")
  PROVE  \A v \in Workers : v # w => At(v, "idle")
  BY DEF Mutual

LEMMA MutualStep ==
  ASSUME TypeOK, "ttl" \notin faults, Mutual, [Next]_vars
  PROVE  Mutual'
  <1>. USE DEF Mutual, At
  <1>1. CASE UNCHANGED <<holder, flush>>
    BY <1>1
  <1>2. ASSUME NEW s \in Slots, Request(s) PROVE UNCHANGED <<holder, flush>>
    BY <1>2 DEF Request, View, ToggleFavorite, CreateComment, DeleteComment, Begin
  <1>3. ASSUME NEW s \in Slots, Continue(s) \/ SkipRedis(s) \/ LoseRequest(s)
        PROVE  UNCHANGED <<holder, flush>>
    BY <1>3 DEF Continue, DoCount, DoMark, DoAdd, DoDrop, DoErase, SkipRedis, LoseRequest
  <1>4. ASSUME NEW w \in Workers, Acquire(w) PROVE Mutual'
    <2>1. \A v \in Workers : At(v, "idle")
      BY <1>4, MetricsAssumption DEF Acquire
    <2>. QED
      BY <1>4, <2>1 DEF Acquire, GoTo, TypeOK
  <1>5. ASSUME NEW w \in Workers, UNCHANGED holder, ~At(w, "idle"),
               NEW f, flush' = [flush EXCEPT ![w] = f]
        PROVE  Mutual'
    BY <1>5 DEF TypeOK
  <1>6. ASSUME NEW w \in Workers,
               \/ Scan(w) \/ Sift(w) \/ ReadTruth(w) \/ ReadDeltas(w) \/ Upsert(w)
               \/ Deduct(w) \/ Clean(w) \/ Fail(w) \/ Crash(w)
        PROVE  Mutual'
    <2>1. UNCHANGED holder /\ ~At(w, "idle")
      BY <1>6 DEF Scan, Sift, ReadTruth, ReadDeltas, Upsert, Deduct, Clean, Fail, Crash
    <2>2. \E f : flush' = [flush EXCEPT ![w] = f]
      BY <1>6 DEF Scan, Sift, ReadTruth, ReadDeltas, Upsert, Deduct, Clean, Fail, Crash, Finish
    <2>. QED
      BY <1>5, <2>1, <2>2
  <1>7. ASSUME NEW w \in Workers, Release(w) PROVE Mutual'
    <2>1. \A v \in Workers : v # w => At(v, "idle")
      BY <1>7, Alone DEF Release
    <2>2. \A v \in Workers : flush'[v].at = "idle"
      BY <1>7, <2>1 DEF Release, TypeOK, Idle
    <2>. QED
      BY <2>2
  <1>8. CASE ExpireLock
    <2>1. \A v \in Workers : At(v, "idle")
      BY <1>8 DEF ExpireLock
    <2>. QED
      BY <1>8, <2>1 DEF ExpireLock
  <1>. QED
    BY <1>1, <1>2, <1>3, <1>4, <1>6, <1>7, <1>8 DEF Next, FlushStep, vars

\* A view adds one to the hash, and to the views counted.
LEMMA CountStep ==
  ASSUME TypeOK, Ledger, NEW s \in Slots, DoCount(s)
  PROVE  Batches' /\ Owing' /\ Sums'
  <1>. DEFINE t == Head(todo[s])
  <1>1. /\ t.item \in Items
        /\ \/ t.field = "view" /\ t.by = 1
           \/ t.field \in TruthFields /\ t.by \in {-1, 1}
    BY Heads DEF DoCount
  <1>2. /\ delta' = [delta EXCEPT ![t.item][t.field] = @ + t.by]
        /\ seen' = [seen EXCEPT ![t.item] = IF t.field = "view" THEN @ + 1 ELSE @]
        /\ UNCHANGED <<row, flush, owed, interrupted>>
    BY DEF DoCount
  <1>. HIDE DEF t
  <1>3. \A i \in Items : \/ delta'[i].view = delta[i].view /\ seen'[i] = seen[i]
                         \/ delta'[i].view = delta[i].view + 1 /\ seen'[i] = seen[i] + 1
    <2>1. CASE t.field = "view" /\ t.by = 1
      <3>1. /\ delta' = [delta EXCEPT ![t.item]["view"] = @ + 1]
            /\ seen' = [seen EXCEPT ![t.item] = @ + 1]
        BY <1>2, <2>1
      <3>2. \A i \in Items : seen'[i] = IF i = t.item THEN seen[i] + 1 ELSE seen[i]
        BY <3>1 DEF TypeOK
      <3>3. \A i \in Items : delta'[i] = IF i = t.item THEN [delta[i] EXCEPT !["view"] = @ + 1]
                                        ELSE delta[i]
        BY <3>1 DEF TypeOK
      <3>4. \A i \in Items : [delta[i] EXCEPT !["view"] = @ + 1].view = delta[i].view + 1
        BY DEF TypeOK, Counters, Fields
      <3>. QED
        BY <3>2, <3>3, <3>4
    <2>2. CASE t.field \in TruthFields
      <3>1. \A i \in Items : delta'[i].view = delta[i].view
        BY <1>1, <1>2, <2>2 DEF TypeOK, Counters, Fields, TruthFields
      <3>2. \A i \in Items : seen'[i] = seen[i]
        <4>1. t.field # "view"
          BY <2>2 DEF TruthFields
        <4>2. seen' = [seen EXCEPT ![t.item] = seen[t.item]]
          BY <1>2, <4>1
        <4>. QED
          BY <4>2 DEF TypeOK
      <3>. QED
        BY <3>1, <3>2
    <2>. QED
      BY <1>1, <2>1, <2>2
  <1>4. Batches'
    <2>1. \A i \in Stored : delta[i].view <= delta'[i].view
      BY <1>3, Numbers
    <2>2. flush' = flush
      BY <1>2
    <2>3. ASSUME NEW i \in Stored PROVE delta'[i].view >= 0
      <3>1. delta[i].view \in Int /\ delta'[i].view \in Int /\ delta[i].view >= 0
        BY <1>3, Numbers DEF Ledger, Batches
      <3>. QED
        BY <2>1, <3>1
    <2>4. ASSUME NEW i \in Stored, NEW v \in Workers, flush[v].at \in {"upsert", "deduct"}
          PROVE  flush[v].batch[i].view >= 0 /\ flush[v].batch[i].view <= delta'[i].view
      <3>1. /\ delta[i].view \in Int /\ delta'[i].view \in Int
            /\ flush[v].batch[i].view \in Int
        BY <1>3, Numbers
      <3>. QED
        BY <2>1, <2>4, <3>1 DEF Ledger, Batches
    <2>5. \A i \in Stored, v \in Workers : flush'[v].at = "deduct" => i \notin flush'[v].left
      BY <2>2 DEF Ledger, Batches, At
    <2>. QED
      BY <2>2, <2>3, <2>4, <2>5 DEF Batches, At
  <1>5. Owing'
    BY <1>2 DEF Ledger, Owing, Wrote
  <1>6. Sums'
    <2>. SUFFICES ASSUME NEW i \in Stored
                  PROVE  row'[i].view + delta'[i].view = seen'[i] + owed'[i]
      BY DEF Sums
    <2>1. row[i].view + delta[i].view = seen[i] + owed[i]
      BY DEF Ledger, Sums
    <2>2. /\ row[i].view \in Nat /\ delta[i].view \in Int
          /\ seen[i] \in Nat /\ owed[i] \in Int /\ i \in Items
      BY Numbers
    <2>3. row' = row /\ owed' = owed
      BY <1>2
    <2>. QED
      BY <1>3, <2>1, <2>2, <2>3
  <1>. QED
    BY <1>4, <1>5, <1>6

\* What a flush begins to write is there, and what it has no row for is nothing.
Ready(w, f) ==
    f.at = "upsert" =>
        /\ ~At(w, "idle")
        /\ \A i \in Stored : /\ f.batch[i].view >= 0 /\ f.batch[i].view <= delta[i].view
                             /\ i \notin f.left => f.batch[i].view = 0

\* A worker that is neither writing nor about to take a batch out of Redis moves on.
LEMMA MoveStep ==
  ASSUME TypeOK, Ledger, NEW w \in Workers,
         UNCHANGED <<row, seen, owed, interrupted>>,
         \A i \in Stored : delta'[i].view = delta[i].view,
         flush[w].at \notin {"upsert", "deduct"},
         NEW f, flush' = [flush EXCEPT ![w] = f], f.at # "deduct", Ready(w, f)
  PROVE  Batches' /\ Owing' /\ Sums'
  <1>0. \A v \in Workers : flush'[v] = IF v = w THEN f ELSE flush[v]
    BY DEF TypeOK
  <1>1. Batches'
    <2>. SUFFICES ASSUME NEW i \in Stored, NEW v \in Workers
                  PROVE  /\ delta'[i].view >= 0
                         /\ flush'[v].at \in {"upsert", "deduct"} =>
                               /\ flush'[v].batch[i].view >= 0
                               /\ flush'[v].batch[i].view <= delta'[i].view
                         /\ flush'[v].at = "deduct" => i \notin flush'[v].left
      BY DEF Batches, At
    <2>1. CASE v = w
      BY <1>0, <2>1 DEF Ledger, Batches, Ready
    <2>2. CASE v # w
      BY <1>0, <2>2 DEF Ledger, Batches, At
    <2>. QED
      BY <2>1, <2>2
  <1>2. Owing'
    <2>. SUFFICES ASSUME NEW i \in Stored \ interrupted
                  PROVE  /\ \A v \in Workers : Wrote(v, i)' => owed[i] = flush'[v].batch[i].view
                         /\ (\A v \in Workers : ~Wrote(v, i)') => owed[i] = 0
      BY DEF Owing
    <2>1. CASE f.at = "upsert"
      <3>1. \A v \in Workers : v # w => At(v, "idle")
        BY <2>1, Alone DEF Ledger, Ready
      <3>2. \A v \in Workers : ~Wrote(v, i)
        BY <3>1 DEF Wrote, At
      <3>3. owed[i] = 0
        BY <3>2 DEF Ledger, Owing
      <3>4. \A v \in Workers : Wrote(v, i)' => v = w /\ i \notin f.left
        BY <1>0, <3>2 DEF Wrote
      <3>. QED
        BY <1>0, <2>1, <3>3, <3>4 DEF Ready
    <2>2. CASE f.at # "upsert"
      <3>1. \A v \in Workers : /\ Wrote(v, i)' <=> Wrote(v, i)
                               /\ Wrote(v, i) => flush'[v] = flush[v]
        BY <1>0, <2>2 DEF Wrote
      <3>. QED
        BY <3>1 DEF Ledger, Owing
    <2>. QED
      BY <2>1, <2>2
  <1>3. Sums'
    BY DEF Ledger, Sums
  <1>. QED
    BY <1>1, <1>2, <1>3

\* One row of the batch goes into the table, and is owed.
LEMMA UpsertStep ==
  ASSUME TypeOK, Ledger, NEW w \in Workers, Upsert(w)
  PROVE  Batches' /\ Owing' /\ Sums'
  <1>1. /\ At(w, "upsert") /\ UNCHANGED <<delta, seen, interrupted>>
        /\ \E k \in flush[w].left :
              /\ row' = [row EXCEPT ![k] = Upserted(w, k)]
              /\ owed' = [owed EXCEPT ![k] = @ + flush[w].batch[k].view]
              /\ flush' = [flush EXCEPT ![w].left = flush[w].left \ {k},
                     ![w].at = IF flush[w].left \ {k} = {} THEN "deduct" ELSE "upsert",
                     ![w].truth = IF flush[w].left \ {k} = {} THEN Idle.truth ELSE @]
    BY DEF Upsert
  <1>2. PICK k \in flush[w].left :
              /\ row' = [row EXCEPT ![k] = Upserted(w, k)]
              /\ owed' = [owed EXCEPT ![k] = @ + flush[w].batch[k].view]
              /\ flush' = [flush EXCEPT ![w].left = flush[w].left \ {k},
                     ![w].at = IF flush[w].left \ {k} = {} THEN "deduct" ELSE "upsert",
                     ![w].truth = IF flush[w].left \ {k} = {} THEN Idle.truth ELSE @]
    BY <1>1
  <1>3. k \in Items
    BY DEF TypeOK
  <1>4. \A v \in Workers : v # w => At(v, "idle")
    BY <1>1, Alone DEF At, Ledger
  <1>5. /\ flush'[w].batch = flush[w].batch /\ flush'[w].left = flush[w].left \ {k}
        /\ flush'[w].at = IF flush[w].left \ {k} = {} THEN "deduct" ELSE "upsert"
        /\ \A v \in Workers : v # w => flush'[v] = flush[v]
    BY <1>2 DEF TypeOK
  <1>6. /\ \A i \in Stored : flush[w].batch[i].view >= 0 /\ flush[w].batch[i].view <= delta[i].view
        /\ \A i \in Stored : delta[i].view >= 0
    BY <1>1 DEF Ledger, Batches, At
  <1>7. Batches'
    <2>. SUFFICES ASSUME NEW i \in Stored, NEW v \in Workers
                  PROVE  /\ delta'[i].view >= 0
                         /\ flush'[v].at \in {"upsert", "deduct"} =>
                               /\ flush'[v].batch[i].view >= 0
                               /\ flush'[v].batch[i].view <= delta'[i].view
                         /\ flush'[v].at = "deduct" => i \notin flush'[v].left
      BY DEF Batches, At
    <2>1. CASE v = w
      BY <1>1, <1>5, <1>6, <2>1
    <2>2. CASE v # w
      BY <1>1, <1>4, <1>5, <1>6, <2>2 DEF At
    <2>. QED
      BY <2>1, <2>2
  <1>8. Owing'
    <2>. SUFFICES ASSUME NEW i \in Stored \ interrupted
                  PROVE  /\ \A v \in Workers : Wrote(v, i)' => owed'[i] = flush'[v].batch[i].view
                         /\ (\A v \in Workers : ~Wrote(v, i)') => owed'[i] = 0
      BY <1>1 DEF Owing
    <2>1. \A v \in Workers : v # w => ~Wrote(v, i) /\ ~Wrote(v, i)'
      BY <1>4, <1>5 DEF Wrote, At
    <2>2. CASE i = k
      <3>1. Wrote(w, i)' /\ ~Wrote(w, i)
        BY <1>5, <2>2 DEF Wrote
      <3>2. owed[i] = 0
        BY <2>1, <3>1 DEF Ledger, Owing
      <3>3. owed'[i] = owed[i] + flush[w].batch[i].view
        BY <1>2, <1>3, <2>2 DEF TypeOK
      <3>4. flush[w].batch[i].view \in Int
        BY Numbers
      <3>5. owed'[i] = flush[w].batch[i].view
        BY <3>2, <3>3, <3>4
      <3>. QED
        BY <1>5, <2>1, <3>1, <3>5
    <2>3. CASE i # k
      <3>1. Wrote(w, i)' <=> Wrote(w, i)
        BY <1>1, <1>5, <2>3 DEF Wrote, At
      <3>2. owed'[i] = owed[i]
        BY <1>2, <2>3, Numbers DEF TypeOK
      <3>. QED
        BY <1>5, <2>1, <3>1, <3>2 DEF Ledger, Owing
    <2>. QED
      BY <2>2, <2>3
  <1>9. Sums'
    <2>. SUFFICES ASSUME NEW i \in Stored
                  PROVE  row'[i].view + delta'[i].view = seen'[i] + owed'[i]
      BY DEF Sums
    <2>1. row[i].view + delta[i].view = seen[i] + owed[i]
      BY DEF Ledger, Sums
    <2>2. /\ i \in Items /\ row[i].view \in Nat /\ delta[i].view \in Int
          /\ seen[i] \in Nat /\ owed[i] \in Int /\ flush[w].batch[i].view \in Int
      BY Numbers
    <2>3. delta' = delta /\ seen' = seen
      BY <1>1
    <2>4. CASE i = k
      <3>1. owed'[i] = owed[i] + flush[w].batch[i].view
        BY <1>2, <2>2, <2>4 DEF TypeOK
      <3>2. row'[i] = Upserted(w, i)
        BY <1>2, <2>2, <2>4 DEF TypeOK
      <3>3. row'[i].view = AtLeastZero(row[i].view + flush[w].batch[i].view)
        BY <3>2 DEF Upserted, Fields
      <3>4. row'[i].view = row[i].view + flush[w].batch[i].view
        BY <1>6, <2>2, <3>3 DEF AtLeastZero
      <3>. QED
        BY <2>1, <2>2, <2>3, <3>1, <3>4
    <2>5. CASE i # k
      <3>1. owed'[i] = owed[i] /\ row'[i] = row[i]
        BY <1>2, <2>2, <2>5 DEF TypeOK
      <3>. QED
        BY <2>1, <2>3, <3>1
    <2>. QED
      BY <2>4, <2>5
  <1>. QED
    BY <1>7, <1>8, <1>9

\* The batch leaves Redis, and is owed no more.
LEMMA DeductStep ==
  ASSUME TypeOK, Ledger, NEW w \in Workers, Deduct(w)
  PROVE  Batches' /\ Owing' /\ Sums'
  <1>1. /\ delta' = [i \in Items |-> [f \in Fields |-> delta[i][f] - flush[w].batch[i][f]]]
        /\ owed' = [i \in Items |-> owed[i] - flush[w].batch[i].view]
        /\ flush' = [flush EXCEPT ![w].at = "clean", ![w].batch = Idle.batch]
        /\ At(w, "deduct") /\ UNCHANGED <<row, seen, interrupted>>
    BY DEF Deduct, tableVars
  <1>2. \A v \in Workers : v # w => At(v, "idle")
    BY <1>1, Alone DEF At, Ledger
  <1>3. \A v \in Workers : flush'[v].at \in {"clean", "idle"}
    BY <1>1, <1>2 DEF TypeOK, At
  <1>4. \A i \in Items : delta'[i].view = delta[i].view - flush[w].batch[i].view
    BY <1>1 DEF Fields
  <1>5. \A i \in Stored : flush[w].batch[i].view <= delta[i].view
    BY <1>1 DEF Ledger, Batches, At
  <1>6. Batches'
    BY <1>3, <1>4, <1>5, Numbers DEF Batches, At
  <1>7. \A i \in Stored \ interrupted : owed[i] = flush[w].batch[i].view
    <2>1. \A i \in Stored : Wrote(w, i)
      BY <1>1 DEF Ledger, Batches, Wrote, At
    <2>. QED
      BY <2>1 DEF Ledger, Owing
  <1>8. Owing'
    <2>1. \A i \in Stored \ interrupted : owed'[i] = 0
      BY <1>1, <1>7, Numbers
    <2>. QED
      BY <1>1, <1>3, <2>1 DEF Owing, Wrote
  <1>9. Sums'
    <2>. SUFFICES ASSUME NEW i \in Stored
                  PROVE  row'[i].view + delta'[i].view = seen'[i] + owed'[i]
      BY DEF Sums
    <2>1. owed'[i] = owed[i] - flush[w].batch[i].view
      BY <1>1, Numbers
    <2>2. row[i].view + delta[i].view = seen[i] + owed[i]
      BY DEF Ledger, Sums
    <2>. QED
      <3>1. /\ i \in Items /\ row[i].view \in Nat /\ delta[i].view \in Int
            /\ seen[i] \in Nat /\ owed[i] \in Int /\ flush[w].batch[i].view \in Int
        BY Numbers
      <3>2. row' = row /\ seen' = seen
        BY <1>1
      <3>. QED
        BY <1>4, <2>1, <2>2, <3>1, <3>2
  <1>. QED
    BY <1>6, <1>8, <1>9

\* A flush ends early: what it owes stays owed, and is on record.
LEMMA InterruptStep ==
  ASSUME TypeOK, Ledger, NEW w \in Workers, Fail(w) \/ Crash(w)
  PROVE  Batches' /\ Owing' /\ Sums'
  <1>. DEFINE hit == {i \in Items : Between(w, i)}
  <1>1. interrupted' = interrupted \cup hit /\ UNCHANGED <<row, delta, seen, owed>>
    BY DEF Fail, Crash, Interrupt, tableVars
  <1>2. ~At(w, "idle")
    BY DEF Fail, Crash, At
  <1>3. \A v \in Workers : v # w => At(v, "idle")
    BY <1>2, Alone DEF Ledger
  <1>4. flush'[w].at \in {"idle", "release"} /\ \A v \in Workers : v # w => flush'[v] = flush[v]
    BY DEF Fail, Crash, Finish, Idle, TypeOK
  <1>5. \A v \in Workers : flush'[v].at \in {"idle", "release"}
    BY <1>3, <1>4 DEF At
  <1>6. Batches'
    BY <1>1, <1>5 DEF Ledger, Batches, At
  <1>7. ASSUME NEW i \in Stored \ interrupted'
        PROVE  owed[i] = 0
    <2>1. i \in Items /\ i \notin interrupted /\ ~Between(w, i)
      BY <1>1, Numbers
    <2>2. CASE Wrote(w, i)
      <3>1. flush[w].batch[i].view = 0
        BY <2>1, <2>2 DEF Between, Wrote
      <3>. QED
        BY <2>1, <2>2, <3>1 DEF Ledger, Owing
    <2>3. CASE ~Wrote(w, i)
      <3>1. \A v \in Workers : ~Wrote(v, i)
        BY <1>3, <2>3 DEF Wrote, At
      <3>. QED
        BY <2>1, <3>1 DEF Ledger, Owing
    <2>. QED
      BY <2>2, <2>3
  <1>8. Owing'
    <2>1. \A i \in Stored, v \in Workers : ~Wrote(v, i)'
      BY <1>5 DEF Wrote
    <2>. QED
      BY <1>1, <1>7, <2>1 DEF Owing
  <1>9. Sums'
    BY <1>1 DEF Ledger, Sums
  <1>. QED
    BY <1>6, <1>8, <1>9

LEMMA LedgerStep ==
  ASSUME TypeOK, "ttl" \notin faults, Ledger, [Next]_vars
  PROVE  Ledger'
  <1>1. ASSUME UNCHANGED <<row, delta, flush, seen, owed, interrupted>>
        PROVE  Batches' /\ Owing' /\ Sums'
    BY <1>1 DEF Ledger, Batches, Owing, Sums, Wrote, At
  <1>2. ASSUME NEW s \in Slots, Request(s) PROVE Batches' /\ Owing' /\ Sums'
    BY <1>1, <1>2 DEF Request, View, ToggleFavorite, CreateComment, DeleteComment, Begin
  <1>3. ASSUME NEW s \in Slots,
               \/ DoMark(s) \/ DoAdd(s) \/ DoDrop(s) \/ DoErase(s)
               \/ SkipRedis(s) \/ LoseRequest(s)
        PROVE  Batches' /\ Owing' /\ Sums'
    BY <1>1, <1>3 DEF DoMark, DoAdd, DoDrop, DoErase, SkipRedis, LoseRequest
  <1>4. ASSUME NEW w \in Workers, Acquire(w) \/ Scan(w) \/ ReadTruth(w) \/ Clean(w) \/ Release(w)
        PROVE  Batches' /\ Owing' /\ Sums'
    <2>1. UNCHANGED <<row, delta, seen, owed, interrupted>> /\ flush[w].at \notin {"upsert", "deduct"}
      BY <1>4 DEF Acquire, Scan, ReadTruth, Clean, Release, At, tableVars, historyVars
    <2>2. \E f : flush' = [flush EXCEPT ![w] = f] /\ f.at \notin {"upsert", "deduct"}
      <3>1. CASE Acquire(w)
        <4>1. flush' = [flush EXCEPT ![w] = [flush[w] EXCEPT !.at = "scan"]]
          BY <3>1 DEF Acquire, GoTo
        <4>2. [flush[w] EXCEPT !.at = "scan"].at = "scan"
          BY DEF TypeOK
        <4>. QED
          BY <4>1, <4>2
      <3>2. CASE Scan(w) /\ ~Finish(w)
        <4>1. flush' = [flush EXCEPT ![w] = [flush[w] EXCEPT !.at = "sift", !.ids = active]]
          BY <3>2 DEF Scan
        <4>2. [flush[w] EXCEPT !.at = "sift", !.ids = active].at = "sift"
          BY DEF TypeOK
        <4>. QED
          BY <4>1, <4>2
      <3>3. CASE ReadTruth(w)
        <4>. DEFINE truth == [i \in Items |-> IF i \in flush[w].ids THEN Truth(i) ELSE NoTruth]
        <4>1. flush' = [flush EXCEPT ![w] = [flush[w] EXCEPT !.at = "deltas", !.truth = truth]]
          BY <3>3 DEF ReadTruth
        <4>. HIDE DEF truth
        <4>2. [flush[w] EXCEPT !.at = "deltas", !.truth = truth].at = "deltas"
          BY DEF TypeOK
        <4>. QED
          BY <4>1, <4>2
      <3>4. CASE Finish(w)
        <4>1. flush' = [flush EXCEPT ![w] = [Idle EXCEPT !.at = "release"]]
          BY <3>4 DEF Finish
        <4>2. [Idle EXCEPT !.at = "release"].at = "release"
          BY DEF Idle
        <4>. QED
          BY <4>1, <4>2
      <3>5. CASE Release(w)
        <4>1. flush' = [flush EXCEPT ![w] = Idle]
          BY <3>5 DEF Release
        <4>2. Idle.at = "idle"
          BY DEF Idle
        <4>. QED
          BY <4>1, <4>2
      <3>. QED
        BY <1>4, <3>1, <3>2, <3>3, <3>4, <3>5 DEF Clean
    <2>. QED
      BY <2>1, <2>2, MoveStep DEF Ready
  <1>5. ASSUME NEW w \in Workers, Sift(w) PROVE Batches' /\ Owing' /\ Sums'
    <2>1. UNCHANGED <<row, seen, owed, interrupted>> /\ flush[w].at \notin {"upsert", "deduct"}
      BY <1>5 DEF Sift, At, tableVars, historyVars
    <2>2. \A i \in Stored : delta'[i].view = delta[i].view
      BY <1>5, MetricsAssumption DEF Sift
    <2>3. CASE Finish(w)
      <3>1. [Idle EXCEPT !.at = "release"].at = "release"
        BY DEF Idle
      <3>. QED
        BY <2>1, <2>2, <2>3, <3>1, MoveStep DEF Finish, Ready
    <2>4. CASE flush' = [flush EXCEPT ![w].at = "truth", ![w].ids = @ \cap Stored]
      <3>. DEFINE f == [flush[w] EXCEPT !.at = "truth", !.ids = @ \cap Stored]
      <3>1. flush' = [flush EXCEPT ![w] = f] /\ f.at = "truth"
        BY <2>4 DEF TypeOK
      <3>. HIDE DEF f
      <3>. QED
        BY <2>1, <2>2, <3>1, MoveStep DEF Ready
    <2>. QED
      BY <1>5, <2>3, <2>4 DEF Sift
  <1>6. ASSUME NEW w \in Workers, ReadDeltas(w) PROVE Batches' /\ Owing' /\ Sums'
    <2>1. UNCHANGED <<row, delta, seen, owed, interrupted>> /\ flush[w].at \notin {"upsert", "deduct"}
      BY <1>6 DEF ReadDeltas, At, tableVars, historyVars
    <2>. DEFINE batch == [i \in Items |-> IF i \in flush[w].ids THEN delta[i] ELSE Zero]
    <2>2. CASE Finish(w)
      <3>1. [Idle EXCEPT !.at = "release"].at = "release"
        BY DEF Idle
      <3>. QED
        BY <2>1, <2>2, <3>1, MoveStep DEF Finish, Ready
    <2>. DEFINE rows == {i \in Items : batch[i] # Zero}
    <2>3. CASE flush' = [flush EXCEPT ![w].at = "upsert", ![w].batch = batch, ![w].left = rows]
      <3>. DEFINE f == [flush[w] EXCEPT !.at = "upsert", !.batch = batch, !.left = rows]
      <3>1. \A i \in Stored : i \in Items /\ delta[i].view \in Int /\ delta[i].view >= 0
        BY Numbers DEF Ledger, Batches
      <3>2. Zero.view = 0
        BY DEF Zero, Fields
      <3>3. \A i \in Stored : /\ batch[i].view >= 0 /\ batch[i].view <= delta[i].view
                              /\ i \notin rows => batch[i].view = 0
        BY <3>1, <3>2
      <3>4. ~At(w, "idle")
        BY <1>6 DEF ReadDeltas, At
      <3>. HIDE DEF batch, rows
      <3>5. flush' = [flush EXCEPT ![w] = f] /\ f.at = "upsert" /\ f.batch = batch /\ f.left = rows
        BY <2>3 DEF TypeOK
      <3>. HIDE DEF f
      <3>6. \A i \in Stored : /\ f.batch[i].view >= 0 /\ f.batch[i].view <= delta[i].view
                              /\ i \notin f.left => f.batch[i].view = 0
        BY <3>3, <3>5
      <3>7. \A i \in Stored : delta'[i].view = delta[i].view
        BY <2>1
      <3>8. f.at # "deduct"
        BY <3>5
      <3>9. /\ UNCHANGED <<row, seen, owed, interrupted>> /\ flush[w].at \notin {"upsert", "deduct"}
            /\ flush' = [flush EXCEPT ![w] = f]
        BY <2>1, <3>5
      <3>10. Ready(w, f)
        BY <3>4, <3>6 DEF Ready
      <3>. QED
        BY <3>7, <3>8, <3>9, <3>10, MoveStep
    <2>. QED
      BY <1>6, <2>2, <2>3 DEF ReadDeltas
  <1>7. ASSUME NEW s \in Slots, DoCount(s) PROVE Batches' /\ Owing' /\ Sums'
    BY <1>7, CountStep
  <1>8. ASSUME NEW w \in Workers, Upsert(w) \/ Deduct(w) \/ Fail(w) \/ Crash(w)
        PROVE  Batches' /\ Owing' /\ Sums'
    BY <1>8, UpsertStep, DeductStep, InterruptStep
  <1>9. ASSUME ExpireLock \/ UNCHANGED vars
        PROVE  Batches' /\ Owing' /\ Sums'
    BY <1>1, <1>9 DEF ExpireLock, tableVars, historyVars, vars
  <1>10. Batches' /\ Owing' /\ Sums'
    BY <1>2, <1>3, <1>4, <1>5, <1>6, <1>7, <1>8, <1>9 DEF Next, FlushStep, Continue
  <1>11. Mutual'
    BY MutualStep DEF Ledger
  <1>. QED
    BY <1>10, <1>11 DEF Ledger

LEMMA InitInv == Init => IInv
  <1> SUFFICES ASSUME Init PROVE IInv
    OBVIOUS
  <1>1. TypeOK
    <2>1. Zero \in [Fields -> Nat] /\ Zero \in Counters
      BY DEF Zero, Counters
    <2>2. Idle \in FlushRecord
      <3>1. Idle = [Idle EXCEPT !.at = "idle"]
        BY DEF Idle
      <3>. QED
        BY <3>1, IdleType DEF Steps
    <2>. QED
      BY <2>1, <2>2 DEF Init, TypeOK, FlushRecord
  <1>2. IsFiniteSet(favorites)
    BY FS_EmptySet DEF Init
  <1>3. \A w \in Workers : At(w, "idle")
    BY DEF Init, At, Idle
  <1>4. \A i \in Items : /\ row[i].view = 0 /\ delta[i].view = 0
                        /\ seen[i] = 0 /\ owed[i] = 0
    BY DEF Init, Zero, Fields
  <1>5. Stored \subseteq Items
    BY MetricsAssumption
  <1>6. Ledger
    BY <1>3, <1>4, <1>5 DEF Ledger, Mutual, Batches, Owing, Sums, Wrote, At
  <1>. QED
    BY <1>1, <1>2, <1>6 DEF IInv

(* Types, and the sums while no lock expires early, are inductive together:
   what a flush writes stays in Redis until the same flush takes it out, and
   nobody else writes meanwhile. *)
THEOREM Invariant == Spec => []IInv
  <1>1. IInv /\ [Next]_vars => IInv'
    <2> SUFFICES ASSUME IInv, [Next]_vars PROVE IInv'
      OBVIOUS
    <2>1. UNCHANGED faults
      BY DEF Next, Request, View, ToggleFavorite, CreateComment, DeleteComment, Begin, Continue,
             DoCount, DoMark, DoAdd, DoDrop, DoErase, SkipRedis, LoseRequest, Acquire, FlushStep,
             Scan, Sift, ReadTruth, ReadDeltas, Upsert, Deduct, Clean, Release, Fail, Crash,
             ExpireLock, tableVars, vars
    <2>. QED
      BY <2>1, TypeStep, FiniteStep, LedgerStep DEF IInv
  <1>. QED
    BY InitInv, <1>1, PTL DEF Spec

(* Every variable keeps its type: of the flush job, the durable counters are
   natural numbers whatever Redis holds. *)
THEOREM TypeCorrect == Spec => []TypeOK
  BY Invariant, PTL DEF IInv

(* As long as no lock expires under a worker that goes on, views are neither
   lost nor invented, for any number of workers, requests, items, failures and
   crashes, a flush that stops between two of its rows included: the table and
   Redis together say what was counted, but for the rows of a flush that are
   written and not yet taken out of Redis. *)
THEOREM ViewsCorrect == Spec => []("ttl" \notin faults => ViewsConserved)
  <1>1. IInv => ("ttl" \notin faults => ViewsConserved)
    <2> SUFFICES ASSUME IInv, "ttl" \notin faults, NEW i \in Stored
                 PROVE  /\ row[i].view + delta[i].view = seen[i] + owed[i]
                        /\ owed[i] = 0 => Shown(i, "view") = seen[i]
                        /\ owed[i] # 0 =>
                             \/ i \in interrupted
                             \/ \E w \in Workers : Between(w, i)
      BY DEF ViewsConserved
    <2>1. row[i].view + delta[i].view = seen[i] + owed[i]
      BY DEF IInv, Ledger, Sums
    <2>2. /\ row[i].view \in Nat /\ delta[i].view \in Int
          /\ seen[i] \in Nat /\ owed[i] \in Int
      BY Numbers DEF IInv
    <2>3. owed[i] = 0 => Shown(i, "view") = seen[i]
      BY <2>1, <2>2 DEF Shown
    <2>4. ASSUME owed[i] # 0, i \notin interrupted
          PROVE  \E w \in Workers : Between(w, i)
      <3>1. PICK w \in Workers : Wrote(w, i)
        BY <2>4 DEF IInv, Ledger, Owing
      <3>2. flush[w].batch[i].view # 0
        BY <2>4, <3>1 DEF IInv, Ledger, Owing
      <3>. QED
        BY <3>1, <3>2 DEF Between, Wrote
    <2>. QED
      BY <2>1, <2>3, <2>4
  <1>. QED
    BY Invariant, <1>1, PTL

-----------------------------------------------------------------------------
(* The dynamic configuration *)

\* Updates that are being served.
Announcing == {u \in Updates : at[u] \notin {"new", "done"}}

\* Only a process that serves requests handles messages.
ListensUp == \A p \in Procs : listener[p] = "install" => phase[p] = "up"

\* A process that has missed nothing, and to which nothing is on its way, holds
\* the table's values, or is about to install them.
Current ==
    \A p \in Procs \ behind :
        /\ phase[p] \in {"install", "up"} /\ inbox[p] = 0 /\ Announcing = {}
        => IF phase[p] = "install" \/ listener[p] = "install"
           THEN loaded[p] = stored ELSE cache[p] = stored

ConfigInv == ConfigTypeOK /\ ListensUp /\ Current

\* The next update has a number.
LEMMA NumberIsNat == Number \in Nat
  <1>. DEFINE Begun == {u \in Updates : at[u] # "new"}
  <1>1. IsFiniteSet(Begun)
    BY UpdatesAssumption, FS_Subset
  <1>. QED
    BY <1>1, FS_CardinalityType DEF Number

LEMMA ConfigInitInv == ConfigInit => ConfigInv
  <1> SUFFICES ASSUME ConfigInit PROVE ConfigInv
    OBVIOUS
  <1>1. ConfigTypeOK
    <2>1. 0 \in 0 .. MaxStops /\ Defaults \in Values
      BY BoundAssumption DEF Defaults, Values
    <2>. QED
      BY <2>1 DEF ConfigInit, ConfigTypeOK
  <1>. QED
    BY <1>1 DEF ConfigInit, ConfigInv, ListensUp, Current

\* Types.
LEMMA ConfigTypeStep ==
  ASSUME ConfigTypeOK, [ConfigNext]_configVars
  PROVE  ConfigTypeOK'
  <1>. USE DEF ConfigTypeOK, Values, Enter, Proceed, Unannounced, rowVars, procVars, updateVars
  <1>1. ASSUME NEW p \in Procs, LookForRows(p) PROVE ConfigTypeOK'
    BY <1>1 DEF LookForRows
  <1>2. ASSUME NEW p \in Procs, Seed(p) PROVE ConfigTypeOK'
    BY <1>2 DEF Seed
  <1>3. ASSUME NEW p \in Procs, LoadFirst(p) PROVE ConfigTypeOK'
    BY <1>3 DEF LoadFirst
  <1>4. ASSUME NEW p \in Procs, InstallFirst(p) PROVE ConfigTypeOK'
    BY <1>4 DEF InstallFirst
  <1>5. ASSUME NEW p \in Procs, Subscribe(p) PROVE ConfigTypeOK'
    BY <1>5 DEF Subscribe
  <1>6. ASSUME NEW p \in Procs, Hear(p) PROVE ConfigTypeOK'
    BY <1>6 DEF Hear
  <1>7. ASSUME NEW p \in Procs, HearInVain(p) PROVE ConfigTypeOK'
    BY <1>7 DEF HearInVain
  <1>8. ASSUME NEW p \in Procs, Install(p) PROVE ConfigTypeOK'
    BY <1>8 DEF Install
  <1>9. ASSUME NEW p \in Procs, Stop(p) PROVE ConfigTypeOK'
    <2>1. stops' \in 0 .. MaxStops
      BY <1>9, BoundAssumption DEF Stop
    <2>. QED
      BY <1>9, <2>1 DEF Stop
  <1>10. ASSUME NEW p \in Procs, Disconnect(p) PROVE ConfigTypeOK'
    <2>1. stops' \in 0 .. MaxStops
      BY <1>10, BoundAssumption DEF Disconnect
    <2>. QED
      BY <1>10, <2>1 DEF Disconnect
  <1>11. ASSUME NEW u \in Updates, Commit(u) PROVE ConfigTypeOK'
    <2>1. Number + 1 \in Nat
      BY NumberIsNat
    <2>. QED
      BY <1>11, <2>1 DEF Commit
  <1>12. ASSUME NEW u \in Updates, Reread(u) PROVE ConfigTypeOK'
    BY <1>12 DEF Reread
  <1>13. ASSUME NEW u \in Updates, LoadOwn(u) PROVE ConfigTypeOK'
    BY <1>13 DEF LoadOwn
  <1>14. ASSUME NEW u \in Updates, InstallOwn(u) PROVE ConfigTypeOK'
    BY <1>14 DEF InstallOwn
  <1>15. ASSUME NEW u \in Updates, Publish(u) PROVE ConfigTypeOK'
    BY <1>15 DEF Publish
  <1>16. ASSUME NEW u \in Updates, FailUpdate(u) PROVE ConfigTypeOK'
    BY <1>16 DEF FailUpdate
  <1>17. CASE UNCHANGED configVars
    BY <1>17 DEF configVars
  <1>. QED
    BY <1>1, <1>2, <1>3, <1>4, <1>5, <1>6, <1>7, <1>8, <1>9, <1>10, <1>11, <1>12, <1>13, <1>14, <1>15, <1>16, <1>17 DEF ConfigNext, StartUp, Listen, Serve

\* The listener works in a process that is up.
LEMMA ListensStep ==
  ASSUME ConfigTypeOK, ListensUp, [ConfigNext]_configVars
  PROVE  ListensUp'
  <1>. USE DEF ConfigTypeOK, ListensUp, Up, Enter, Proceed, Unannounced, rowVars, procVars, updateVars
  <1>1. ASSUME NEW p \in Procs, LookForRows(p) PROVE ListensUp'
    BY <1>1 DEF LookForRows
  <1>2. ASSUME NEW p \in Procs, Seed(p) PROVE ListensUp'
    BY <1>2 DEF Seed
  <1>3. ASSUME NEW p \in Procs, LoadFirst(p) PROVE ListensUp'
    BY <1>3 DEF LoadFirst
  <1>4. ASSUME NEW p \in Procs, InstallFirst(p) PROVE ListensUp'
    BY <1>4 DEF InstallFirst
  <1>5. ASSUME NEW p \in Procs, Subscribe(p) PROVE ListensUp'
    BY <1>5 DEF Subscribe
  <1>6. ASSUME NEW p \in Procs, Hear(p) PROVE ListensUp'
    BY <1>6 DEF Hear
  <1>7. ASSUME NEW p \in Procs, HearInVain(p) PROVE ListensUp'
    BY <1>7 DEF HearInVain
  <1>8. ASSUME NEW p \in Procs, Install(p) PROVE ListensUp'
    BY <1>8 DEF Install
  <1>9. ASSUME NEW p \in Procs, Stop(p) PROVE ListensUp'
    BY <1>9 DEF Stop
  <1>10. ASSUME NEW p \in Procs, Disconnect(p) PROVE ListensUp'
    BY <1>10 DEF Disconnect
  <1>11. ASSUME NEW u \in Updates, Commit(u) PROVE ListensUp'
    BY <1>11 DEF Commit
  <1>12. ASSUME NEW u \in Updates, Reread(u) PROVE ListensUp'
    BY <1>12 DEF Reread
  <1>13. ASSUME NEW u \in Updates, LoadOwn(u) PROVE ListensUp'
    BY <1>13 DEF LoadOwn
  <1>14. ASSUME NEW u \in Updates, InstallOwn(u) PROVE ListensUp'
    BY <1>14 DEF InstallOwn
  <1>15. ASSUME NEW u \in Updates, Publish(u) PROVE ListensUp'
    BY <1>15 DEF Publish
  <1>16. ASSUME NEW u \in Updates, FailUpdate(u) PROVE ListensUp'
    BY <1>16 DEF FailUpdate
  <1>17. CASE UNCHANGED configVars
    BY <1>17 DEF configVars
  <1>. QED
    BY <1>1, <1>2, <1>3, <1>4, <1>5, <1>6, <1>7, <1>8, <1>9, <1>10, <1>11, <1>12, <1>13, <1>14, <1>15, <1>16, <1>17 DEF ConfigNext, StartUp, Listen, Serve

\* No step leaves a process with other values and nothing on its way.
LEMMA CurrentStep ==
  ASSUME ConfigInv, [ConfigNext]_configVars
  PROVE  Current'
  <1>. USE DEF ConfigInv, ConfigTypeOK, ListensUp, Current, Announcing, Up, Enter, Proceed, Unannounced, rowVars, procVars, updateVars
  <1>1. ASSUME NEW p \in Procs, LookForRows(p) PROVE Current'
    BY <1>1 DEF LookForRows
  <1>2. ASSUME NEW p \in Procs, Seed(p) PROVE Current'
    BY <1>2 DEF Seed
  <1>3. ASSUME NEW p \in Procs, LoadFirst(p) PROVE Current'
    BY <1>3 DEF LoadFirst
  <1>4. ASSUME NEW p \in Procs, InstallFirst(p) PROVE Current'
    BY <1>4 DEF InstallFirst
  <1>5. ASSUME NEW p \in Procs, Subscribe(p) PROVE Current'
    BY <1>5 DEF Subscribe
  <1>6. ASSUME NEW p \in Procs, Hear(p) PROVE Current'
    BY <1>6 DEF Hear
  <1>7. ASSUME NEW p \in Procs, HearInVain(p) PROVE Current'
    BY <1>7 DEF HearInVain
  <1>8. ASSUME NEW p \in Procs, Install(p) PROVE Current'
    BY <1>8 DEF Install
  <1>9. ASSUME NEW p \in Procs, Stop(p) PROVE Current'
    BY <1>9 DEF Stop
  <1>10. ASSUME NEW p \in Procs, Disconnect(p) PROVE Current'
    BY <1>10 DEF Disconnect
  <1>11. ASSUME NEW u \in Updates, Commit(u) PROVE Current'
    BY <1>11 DEF Commit
  <1>12. ASSUME NEW u \in Updates, Reread(u) PROVE Current'
    BY <1>12 DEF Reread
  <1>13. ASSUME NEW u \in Updates, LoadOwn(u) PROVE Current'
    BY <1>13 DEF LoadOwn
  <1>14. ASSUME NEW u \in Updates, InstallOwn(u) PROVE Current'
    BY <1>14 DEF InstallOwn
  <1>15. ASSUME NEW u \in Updates, Publish(u) PROVE Current'
    <2>1. \A p \in Procs \ behind' : inbox'[p] > 0
      BY <1>15 DEF Publish
    <2>. QED
      BY <2>1
  <1>16. ASSUME NEW u \in Updates, FailUpdate(u) PROVE Current'
    BY <1>16 DEF FailUpdate
  <1>17. CASE UNCHANGED configVars
    BY <1>17 DEF configVars
  <1>. QED
    BY <1>1, <1>2, <1>3, <1>4, <1>5, <1>6, <1>7, <1>8, <1>9, <1>10, <1>11, <1>12, <1>13, <1>14, <1>15, <1>16, <1>17 DEF ConfigNext, StartUp, Listen, Serve

(* The types, what a listener has heard and what a process serves are inductive together. *)
THEOREM ConfigInvariant == ConfigSpec => []ConfigInv
  <1>1. ConfigInv /\ [ConfigNext]_configVars => ConfigInv'
    BY ConfigTypeStep, ListensStep, CurrentStep DEF ConfigInv
  <1>. QED
    BY ConfigInitInv, <1>1, PTL DEF ConfigSpec

(* Every variable keeps its type, for any number of processes and updates. *)
THEOREM ConfigTypeCorrect == ConfigSpec => []ConfigTypeOK
  BY ConfigInvariant, PTL DEF ConfigInv

(* A process that missed no refresh ends up with the values in the table. *)
THEOREM SettledCorrect == ConfigSpec => []SettledAgrees
  <1>1. ConfigInv => SettledAgrees
    BY DEF ConfigInv, ConfigTypeOK, Current, Announcing, SettledAgrees, Calm, Up
  <1>. QED
    BY ConfigInvariant, <1>1, PTL
===============================================================================
