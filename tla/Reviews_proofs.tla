---------------------------- MODULE Reviews_proofs ----------------------------
(***************************************************************************)
(* Proofs about Reviews, for any number of users, orders and requests and  *)
(* any interleaving of their statements.                                   *)
(***************************************************************************)
EXTENDS Reviews, TLAPS

LEMMA TypeInit == Init => TypeOK
  BY BoundsAssumption DEF Init, TypeOK, Steps, Kinds, Written

LEMMA InsertedRow ==
    ASSUME TypeOK, NEW s \in Sessions, Insert(s)
    PROVE  \E r \in ReviewIds, row \in ReviewRow :
              /\ review[r] = NoReview
              /\ row.order = on[s] /\ row.reviewer = user[s] /\ row.kind = kind[s]
              /\ review' = [review EXCEPT ![r] = row]
  <1>1. PICK r \in ReviewIds, u \in PartiesOf[on[s]] \ {user[s]} :
          /\ review[r] = NoReview
          /\ review' = [review EXCEPT ![r] =
                [order |-> on[s], reviewer |-> user[s], reviewee |-> u, kind |-> kind[s]]]
    BY DEF Insert, NextId
  <1>2. on[s] \in Orders /\ kind[s] \in Kinds /\ user[s] \in Users
    BY DEF TypeOK, Processes, Insert, At
  <1>3. PartiesOf[on[s]] \subseteq Users
    BY <1>2, PartiesAssumption
  <1>. DEFINE row == [order |-> on[s], reviewer |-> user[s], reviewee |-> u, kind |-> kind[s]]
  <1>4. row \in ReviewRow
    BY <1>1, <1>2, <1>3 DEF ReviewRow
  <1>. QED
    BY <1>1, <1>4

LEMMA TypeStep == TypeOK /\ [Next]_vars => TypeOK'
  <1> SUFFICES ASSUME TypeOK, [Next]_vars PROVE TypeOK'
    OBVIOUS
  <1> USE DEF Steps, Kinds, GoTo, Begin, End, At, Processes, clockVars, reviewVars, procVars, Written
  <1>1. CASE Tick
    BY <1>1 DEF Tick, TypeOK
  <1>2. ASSUME NEW o \in Orders, Complete(o) PROVE TypeOK'
    BY <1>2 DEF Complete, TypeOK
  <1>3. ASSUME NEW o \in Orders, ClaimRelease(o) PROVE TypeOK'
    BY <1>3 DEF ClaimRelease, TypeOK
  <1>4. ASSUME NEW s \in Sessions, NEW o \in Orders, NEW k \in Kinds, NEW u \in Users,
               Submit(s, o, k, u)
        PROVE  TypeOK'
    <2>1. doubled' \subseteq Orders
      BY <1>4 DEF Submit, TypeOK
    <2>. QED
      BY <1>4, <2>1 DEF Submit, TypeOK
  <1>5. ASSUME NEW s \in Sessions, Insert(s) PROVE TypeOK'
    <2>1. PICK r \in ReviewIds, row \in ReviewRow : review' = [review EXCEPT ![r] = row]
      BY <1>5, InsertedRow
    <2>2. review' \in [ReviewIds -> ReviewRow \cup {NoReview}] /\ Written \subseteq Written'
      BY <2>1, NamesAssumption DEF TypeOK, Written
    <2>. QED
      BY <1>5, <2>2 DEF TypeOK, Insert
  <1>6. ASSUME NEW s \in Sessions, CountInitials(s) PROVE TypeOK'
    BY <1>6 DEF CountInitials, TypeOK
  <1>7. ASSUME NEW s \in Sessions, Enqueue(s) PROVE TypeOK'
    <2>1. task' \in [Orders -> Int]
      BY <1>7, BoundsAssumption DEF Enqueue, TypeOK
    <2>. QED
      BY <1>7, <2>1 DEF Enqueue, TypeOK
  <1>8. ASSUME NEW p \in Processes, Judge(p) PROVE TypeOK'
    BY <1>8 DEF Judge, TypeOK
  <1>9. ASSUME NEW p \in Processes, ReadReviews(p) PROVE TypeOK'
    BY <1>9 DEF ReadReviews, ReviewsOn, TypeOK
  <1>10. ASSUME NEW p \in Processes, Publish(p) PROVE TypeOK'
    BY <1>10 DEF Publish, TypeOK
  <1>11. ASSUME NEW p \in Processes, Stop(p) PROVE TypeOK'
    <2>1. failed' \subseteq Orders
      BY <1>11 DEF Stop, TypeOK
    <2>. QED
      BY <1>11, <2>1 DEF Stop, TypeOK, Written
  <1>12. CASE StartJob
    BY <1>12 DEF StartJob, TypeOK
  <1>13. CASE TakeNext
    BY <1>13 DEF TakeNext, TypeOK
  <1>14. CASE UNCHANGED vars
    BY <1>14 DEF vars, TypeOK
  <1>. QED
    BY <1>1, <1>2, <1>3, <1>4, <1>5, <1>6, <1>7, <1>8, <1>9, <1>10, <1>11, <1>12, <1>13, <1>14
       DEF Next, CreateReview, Release, TypeOK

\* Every variable keeps its type; a process at work has an order, and what it
\* has read exists.
THEOREM TypeCorrect == Spec => []TypeOK
  <1>1. Init => TypeOK
    BY TypeInit
  <1>2. TypeOK /\ [Next]_vars => TypeOK'
    BY TypeStep
  <1>. QED
    BY <1>1, <1>2, PTL DEF Spec

-----------------------------------------------------------------------------
(* Rows are only added, and what may be shown stays so *)

LEMMA RowsStay ==
    ASSUME TypeOK, [Next]_vars
    PROVE  /\ Written \subseteq Written'
           /\ \A r \in Written : review'[r] = review[r]
           /\ \A o \in Orders : ReviewsOn(o) \subseteq ReviewsOn(o)'
  <1>1. ASSUME NEW s \in Sessions, Insert(s)
        PROVE  Written \subseteq Written' /\ \A r \in Written : review'[r] = review[r]
    <2>1. PICK r \in ReviewIds, row \in ReviewRow :
            review[r] = NoReview /\ review' = [review EXCEPT ![r] = row]
      BY <1>1, InsertedRow
    <2>. QED
      BY <2>1, NamesAssumption DEF Written, TypeOK
  <1>2. ASSUME UNCHANGED review
        PROVE  Written \subseteq Written' /\ \A r \in Written : review'[r] = review[r]
    BY <1>2 DEF Written
  <1>3. Written \subseteq Written' /\ \A r \in Written : review'[r] = review[r]
    BY <1>1, <1>2 DEF Next, CreateReview, Release, Tick, Complete, ClaimRelease, Submit,
       CountInitials, Enqueue, Judge, ReadReviews, Publish, Stop, StartJob, TakeNext, vars,
       reviewVars
  <1>. QED
    BY <1>3 DEF ReviewsOn

LEMMA ReadyStays ==
    ASSUME TypeOK, [Next]_vars, NEW o \in Orders
    PROVE  /\ TwoInitials(o) => TwoInitials(o)'
           /\ Overdue(o) => Overdue(o)'
  <1>1. TwoInitials(o) => TwoInitials(o)'
    BY RowsStay DEF TwoInitials, Initials, ReviewsOn
  <1>2. ASSUME Tick PROVE Overdue(o) => Overdue(o)'
    BY <1>2, BoundsAssumption DEF Tick, Overdue, TypeOK
  <1>3. ASSUME NEW q \in Orders, Complete(q) PROVE Overdue(o) => Overdue(o)'
    BY <1>3 DEF Complete, Overdue, TypeOK
  <1>4. ASSUME UNCHANGED clockVars PROVE Overdue(o) => Overdue(o)'
    BY <1>4 DEF clockVars, Overdue
  <1>5. Tick \/ (\E q \in Orders : Complete(q)) \/ UNCHANGED <<now, completed, since>>
    BY DEF Next, CreateReview, Release, ClaimRelease, Submit, Insert, CountInitials, Enqueue,
       Judge, ReadReviews, Publish, Stop, StartJob, TakeNext, vars, clockVars
  <1>. QED
    BY <1>1, <1>2, <1>3, <1>4, <1>5 DEF clockVars

-----------------------------------------------------------------------------
(* Nothing is shown early *)

\* A process past its check works on an order that may be shown, and has read
\* reviews of that order only.
Cleared ==
    \A p \in Processes :
        /\ at[p] \in {"read", "publish"} => Ready(on[p])
        /\ \A r \in seen[p] : at[p] = "publish" /\ review[r].order = on[p]

LEMMA ClearedStep ==
    ASSUME TypeOK, Cleared, [Next]_vars
    PROVE  Cleared'
  <1>. DEFINE Unmoved(p) == at'[p] = at[p] /\ on'[p] = on[p] /\ seen'[p] = seen[p]
              Fresh(p) == at'[p] \notin {"read", "publish"} /\ seen'[p] = {}
              Clear(p) == /\ at[p] \in {"read", "publish"} => Ready(on[p])
                          /\ \A r \in seen[p] : at[p] = "publish" /\ review[r].order = on[p]
  <1>1. ASSUME NEW p \in Processes, Unmoved(p) PROVE Clear(p)'
    <2>1. at[p] \in {"read", "publish"} => on[p] \in Orders /\ Ready(on[p])
      BY DEF Cleared, TypeOK, Steps
    <2>2. at[p] \in {"read", "publish"} => Ready(on[p])'
      BY <1>1, <2>1, ReadyStays DEF Ready
    <2>3. seen[p] \subseteq Written
      BY DEF TypeOK
    <2>. QED
      BY <1>1, <2>2, <2>3, RowsStay DEF Cleared
  <1>2. ASSUME NEW p \in Processes, Fresh(p) PROVE Clear(p)'
    BY <1>2
  <1>3. ASSUME NEW p \in Processes, Judge(p) PROVE Clear(p)'
    <2>1. seen[p] = {}
      BY <1>3 DEF Judge, Cleared, At
    <2>2. CASE Ready(on[p])
      <3>1. on[p] \in Orders
        BY <1>3 DEF Judge, At, TypeOK
      <3>2. Ready(on[p])'
        BY <1>3, <2>2, <3>1, ReadyStays DEF Ready, Judge, GoTo
      <3>3. at'[p] = "read" /\ on'[p] = on[p] /\ seen'[p] = {}
        BY <1>3, <2>1, <2>2 DEF Judge, GoTo, TypeOK
      <3>. QED
        BY <3>2, <3>3
    <2>3. CASE ~Ready(on[p])
      BY <1>3, <2>3, <1>2 DEF Judge, End, TypeOK
    <2>. QED
      BY <2>2, <2>3
  <1>4. ASSUME NEW p \in Processes, ReadReviews(p) PROVE Clear(p)'
    <2>1. on[p] \in Orders /\ Ready(on[p])
      BY <1>4 DEF ReadReviews, At, Cleared, TypeOK
    <2>2. Ready(on[p])'
      BY <1>4, <2>1, ReadyStays DEF Ready, ReadReviews
    <2>. QED
      BY <1>4, <2>2 DEF ReadReviews, ReviewsOn, TypeOK, reviewVars
  <1>5. ASSUME NEW p \in Processes, \A q \in Processes \ {p} : Unmoved(q), Clear(p)'
        PROVE  Cleared'
    BY <1>5, <1>1 DEF Cleared
  <1>6. ASSUME \A q \in Processes : Unmoved(q) PROVE Cleared'
    BY <1>6, <1>1 DEF Cleared
  <1>7. ASSUME NEW s \in Sessions, CreateReview(s) PROVE Cleared'
    <2>1. at[s] \notin {"read", "publish"} /\ seen[s] = {}
      BY <1>7 DEF CreateReview, Submit, Insert, CountInitials, Enqueue, At, Cleared, Processes
    <2>2. Fresh(s) /\ \A q \in Processes \ {s} : Unmoved(q)
      BY <1>7, <2>1 DEF CreateReview, Submit, Insert, CountInitials, Enqueue, Begin, GoTo,
         Processes, TypeOK
    <2>. QED
      BY <2>2, <1>2, <1>5 DEF Processes
  <1>8. ASSUME NEW p \in Processes, Release(p) PROVE Cleared'
    <2>1. \A q \in Processes \ {p} : Unmoved(q)
      BY <1>8 DEF Release, Judge, ReadReviews, Publish, GoTo, End, TypeOK
    <2>2. Publish(p) => Clear(p)'
      BY <1>2 DEF Publish, End, TypeOK
    <2>. QED
      BY <1>8, <2>1, <2>2, <1>3, <1>4, <1>5 DEF Release
  <1>9. ASSUME NEW p \in Processes, Stop(p) PROVE Cleared'
    <2>1. Fresh(p) /\ \A q \in Processes \ {p} : Unmoved(q)
      BY <1>9 DEF Stop, End, TypeOK
    <2>. QED
      BY <2>1, <1>2, <1>5
  <1>10. ASSUME NEW o \in Orders, ClaimRelease(o) PROVE Cleared'
    <2>1. seen["worker"] = {}
      BY <1>10 DEF ClaimRelease, At, Cleared, Processes
    <2>2. Fresh("worker") /\ \A q \in Processes \ {"worker"} : Unmoved(q)
      BY <1>10, <2>1 DEF ClaimRelease, Begin, TypeOK, Processes
    <2>. QED
      BY <2>2, <1>2, <1>5 DEF Processes
  <1>11. CASE TakeNext
    <2>1. seen["job"] = {}
      BY <1>11 DEF TakeNext, At, Cleared, Processes
    <2>2. Fresh("job") /\ \A q \in Processes \ {"job"} : Unmoved(q)
      BY <1>11, <2>1 DEF TakeNext, Begin, TypeOK, Processes
    <2>. QED
      BY <2>2, <1>2, <1>5 DEF Processes
  <1>12. ASSUME UNCHANGED procVars PROVE Cleared'
    BY <1>12, <1>6 DEF procVars
  <1>. QED
    BY <1>7, <1>8, <1>9, <1>10, <1>11, <1>12 DEF Next, Tick, Complete, StartJob, vars, procVars

LEMMA ReleasedStep ==
    ASSUME TypeOK, Cleared, ReleasedInTime, [Next]_vars
    PROVE  ReleasedInTime'
  <1>1. ASSUME NEW r \in Written, Ready(review[r].order)
        PROVE  (TwoInitials(review[r].order) \/ Overdue(review[r].order))'
    <2>1. review[r].order \in Orders
      BY DEF Written, TypeOK, ReviewRow
    <2>. QED
      BY <1>1, <2>1, RowsStay, ReadyStays DEF Ready
  <1>2. \A r \in visible' : r \in Written /\ Ready(review[r].order)
    <2>1. ASSUME NEW p \in Processes, Publish(p)
          PROVE  \A r \in visible' : r \in Written /\ Ready(review[r].order)
      <3>1. visible' = visible \cup seen[p]
        BY <2>1 DEF Publish
      <3>2. \A r \in seen[p] : r \in Written /\ Ready(review[r].order)
        BY <2>1 DEF Publish, At, Cleared, TypeOK
      <3>3. \A r \in visible : r \in Written /\ Ready(review[r].order)
        BY DEF ReleasedInTime, Ready, TypeOK
      <3>. QED
        BY <3>1, <3>2, <3>3
    <2>2. ASSUME UNCHANGED visible
          PROVE  \A r \in visible' : r \in Written /\ Ready(review[r].order)
      BY <2>2 DEF ReleasedInTime, Ready, TypeOK
    <2>. QED
      BY <2>1, <2>2 DEF Next, CreateReview, Release, Tick, Complete, ClaimRelease, Submit,
         Insert, CountInitials, Enqueue, Judge, ReadReviews, Stop, StartJob, TakeNext, vars,
         reviewVars
  <1>. QED
    BY <1>1, <1>2 DEF ReleasedInTime

\* Whatever is shown has two initial reviews on its order or waited for the
\* blind period, whoever released it.
THEOREM ReleasedCorrect == Spec => []ReleasedInTime
  <1>1. Init => Cleared /\ ReleasedInTime
    BY DEF Init, Cleared, ReleasedInTime
  <1>2. TypeOK /\ Cleared /\ ReleasedInTime /\ [Next]_vars => Cleared' /\ ReleasedInTime'
    BY ClearedStep, ReleasedStep
  <1>. QED
    BY <1>1, <1>2, TypeCorrect, PTL DEF Spec

-----------------------------------------------------------------------------
(* Two initial reviews release everything *)

\* The steps of a request keep what it will show, show it, or fail.
LEMMA HandsKeep ==
    ASSUME TypeOK, [Next]_vars, NEW s \in Sessions, NEW r \in Written,
           TwoInitials(review[r].order), WillShow(s, r)
    PROVE  \/ WillShow(s, r)'
           \/ r \in visible'
           \/ review[r].order \in failed'
  <1>. DEFINE Unmoved(p) == at'[p] = at[p] /\ on'[p] = on[p] /\ seen'[p] = seen[p]
  <1>1. review'[r] = review[r]
    BY RowsStay
  <1>2. s \in Processes /\ s # "worker" /\ s # "job"
    BY NamesAssumption DEF Processes
  <1>3. CASE Unmoved(s)
    BY <1>1, <1>3 DEF WillShow, At
  <1>4. CASE CountInitials(s) \/ Enqueue(s)
    BY <1>1, <1>2, <1>4 DEF CountInitials, Enqueue, WillShow, At, GoTo, TypeOK
  <1>5. CASE Judge(s)
    BY <1>1, <1>2, <1>5 DEF Judge, WillShow, At, GoTo, TypeOK, Ready
  <1>6. CASE ReadReviews(s)
    <2>1. r \in ReviewsOn(on[s])
      BY DEF ReviewsOn, WillShow
    <2>. QED
      BY <1>1, <1>2, <1>6, <2>1 DEF ReadReviews, WillShow, At, TypeOK
  <1>7. CASE Publish(s)
    BY <1>7 DEF Publish, WillShow, At
  <1>8. CASE Stop(s)
    BY <1>8 DEF Stop, WillShow, At
  <1>9. CASE Insert(s)
    BY <1>9 DEF Insert, WillShow, At
  <1>10. ASSUME NEW p \in Processes, p # s, Release(p) \/ Stop(p) PROVE Unmoved(s)
    BY <1>2, <1>10 DEF Release, Judge, ReadReviews, Publish, Stop, GoTo, End, TypeOK
  <1>11. ASSUME NEW p \in Sessions, p # s, CreateReview(p) PROVE Unmoved(s)
    BY <1>2, <1>11 DEF CreateReview, Submit, Insert, CountInitials, Enqueue, Begin, GoTo, TypeOK
  <1>12. ASSUME CreateReview(s)
         PROVE  Insert(s) \/ CountInitials(s) \/ Enqueue(s) \/ at[s] = "idle"
    BY <1>12 DEF CreateReview, Submit, At
  <1>13. ASSUME NEW o \in Orders, ClaimRelease(o) PROVE Unmoved(s)
    BY <1>2, <1>13 DEF ClaimRelease, Begin, TypeOK
  <1>14. ASSUME TakeNext PROVE Unmoved(s)
    BY <1>2, <1>14 DEF TakeNext, Begin, TypeOK
  <1>15. ASSUME UNCHANGED procVars PROVE Unmoved(s)
    BY <1>15 DEF procVars
  <1>16. at[s] # "idle"
    BY DEF WillShow, At
  <1>17. Unmoved(s) \/ Release(s) \/ Stop(s) \/ CreateReview(s)
    BY <1>10, <1>11, <1>13, <1>14, <1>15 DEF Next, Tick, Complete, StartJob, vars, procVars
  <1>. QED
    BY <1>3, <1>4, <1>5, <1>6, <1>7, <1>8, <1>9, <1>12, <1>16, <1>17 DEF Release

\* A second initial review, or any review, comes in the hands of its request.
LEMMA NewInHands ==
    ASSUME TypeOK, [Next]_vars, NEW r \in Written', TwoInitials(review[r].order)',
           r \notin Written \/ ~TwoInitials(review[r].order)
    PROVE  \E s \in Sessions : WillShow(s, r)'
  <1>1. PICK s \in Sessions : Insert(s)
    <2>1. ASSUME UNCHANGED review PROVE FALSE
      BY <2>1 DEF Written, TwoInitials, Initials, ReviewsOn
    <2>. QED
      BY <2>1 DEF Next, CreateReview, Release, Tick, Complete, ClaimRelease, Submit,
         CountInitials, Enqueue, Judge, ReadReviews, Publish, Stop, StartJob, TakeNext, vars,
         reviewVars
  <1>2. PICK q \in ReviewIds, row \in ReviewRow :
          /\ review[q] = NoReview
          /\ row.order = on[s] /\ row.reviewer = user[s] /\ row.kind = kind[s]
          /\ review' = [review EXCEPT ![q] = row]
    BY <1>1, InsertedRow
  <1>3. s \in Processes /\ at'[s] \in {"count", "judge"} /\ on'[s] = on[s]
    BY <1>1 DEF Insert, Begin, Processes, TypeOK
  <1>4. review'[r].order = on[s]
    <2>1. CASE r = q
      BY <1>2, <2>1 DEF TypeOK
    <2>2. CASE r # q
      <3>1. r \in Written /\ review'[r] = review[r]
        BY <1>2, <2>2 DEF Written, TypeOK
      <3>2. PICK a, b \in Initials(review[r].order)' : a # b
        BY <3>1 DEF TwoInitials
      <3>3. a \notin Initials(review[r].order) \/ b \notin Initials(review[r].order)
        BY <3>1, <3>2 DEF TwoInitials
      <3>4. q = a \/ q = b
        BY <1>2, <3>1, <3>2, <3>3 DEF Initials, ReviewsOn, Written, TypeOK
      <3>5. review'[q].order = review'[r].order
        BY <3>1, <3>2, <3>4 DEF Initials, ReviewsOn
      <3>. QED
        BY <1>2, <3>5 DEF TypeOK
    <2>. QED
      BY <2>1, <2>2
  <1>. QED
    BY <1>3, <1>4 DEF WillShow

LEMMA LeftBehindStep == TypeOK /\ NoneLeftBehind /\ [Next]_vars => NoneLeftBehind'
  <1> SUFFICES ASSUME TypeOK, NoneLeftBehind, [Next]_vars,
                      NEW r \in Written', r \notin visible', TwoInitials(review[r].order)'
               PROVE  review'[r].order \in failed' \/ \E s \in Sessions : WillShow(s, r)'
    BY DEF NoneLeftBehind, Written
  <1>1. CASE r \notin Written \/ ~TwoInitials(review[r].order)
    BY <1>1, NewInHands
  <1>2. CASE r \in Written /\ TwoInitials(review[r].order)
    <2>1. visible \subseteq visible' /\ failed \subseteq failed'
      BY DEF Next, CreateReview, Release, Tick, Complete, ClaimRelease, Submit, Insert,
         CountInitials, Enqueue, Judge, ReadReviews, Publish, Stop, StartJob, TakeNext, vars,
         reviewVars
    <2>2. review'[r] = review[r]
      BY <1>2, RowsStay
    <2>3. CASE review[r].order \in failed
      BY <2>1, <2>2, <2>3
    <2>4. CASE \E s \in Sessions : WillShow(s, r)
      BY <1>2, <2>2, <2>4, HandsKeep
    <2>. QED
      BY <1>2, <2>1, <2>3, <2>4 DEF NoneLeftBehind, Written
  <1>. QED
    BY <1>1, <1>2

\* Two parties who review at the same time release each other's review.
THEOREM NoneLeftBehindCorrect == Spec => []NoneLeftBehind
  <1>1. Init => NoneLeftBehind
    BY DEF Init, NoneLeftBehind
  <1>2. TypeOK /\ NoneLeftBehind /\ [Next]_vars => NoneLeftBehind'
    BY LeftBehindStep
  <1>. QED
    BY <1>1, <1>2, TypeCorrect, PTL DEF Spec

-----------------------------------------------------------------------------
(* Double blindness *)

\* Two requests of a user that are about to insert his initial review on an
\* order have doubled it; on any other order he has one initial review at most,
\* and none while such a request is on its way; only parties review.
OneInitialEach ==
    /\ \A r, q \in Written :
          /\ review[r].kind = "INITIAL" /\ review[q].kind = "INITIAL"
          /\ review[r].order = review[q].order
          /\ review[r].reviewer = review[q].reviewer
          => r = q \/ review[r].order \in doubled
    /\ \A r \in Written : review[r].reviewer \in PartiesOf[review[r].order]
    /\ \A s \in Sessions : at[s] = "insert" =>
          /\ user[s] \in PartiesOf[on[s]]
          /\ kind[s] = "INITIAL" =>
                on[s] \in doubled \/ InitialsBy(on[s], user[s]) = {}
    /\ \A s, t \in Sessions :
          /\ at[s] = "insert" /\ at[t] = "insert"
          /\ kind[s] = "INITIAL" /\ kind[t] = "INITIAL"
          /\ on[s] = on[t] /\ user[s] = user[t]
          => s = t \/ on[s] \in doubled

LEMMA OneInitialStep ==
    ASSUME TypeOK, OneInitialEach, [Next]_vars
    PROVE  OneInitialEach'
  <1>. DEFINE Inserting(s) == at[s] = "insert" =>
                  /\ user[s] \in PartiesOf[on[s]]
                  /\ kind[s] = "INITIAL" =>
                        on[s] \in doubled \/ InitialsBy(on[s], user[s]) = {}
              Together(s, t) ==
                  /\ at[s] = "insert" /\ at[t] = "insert"
                  /\ kind[s] = "INITIAL" /\ kind[t] = "INITIAL"
                  /\ on[s] = on[t] /\ user[s] = user[t]
              Unmoved(s) == /\ at'[s] = at[s] /\ on'[s] = on[s]
                            /\ kind'[s] = kind[s] /\ user'[s] = user[s]
  <1>0. doubled \subseteq doubled'
    BY DEF Next, CreateReview, Release, Tick, Complete, ClaimRelease, Submit, Insert,
       CountInitials, Enqueue, Judge, ReadReviews, Publish, Stop, StartJob, TakeNext, vars
  <1>t. ASSUME NEW s \in Sessions, NEW t \in Sessions,
               Unmoved(s) \/ at'[s] # "insert", Unmoved(t) \/ at'[t] # "insert"
        PROVE  Together(s, t)' => s = t \/ on'[s] \in doubled'
    BY <1>0, <1>t DEF OneInitialEach
  <1>1. ASSUME NEW s \in Sessions, Insert(s) PROVE OneInitialEach'
    <2>1. PICK q \in ReviewIds, row \in ReviewRow :
            /\ review[q] = NoReview
            /\ row.order = on[s] /\ row.reviewer = user[s] /\ row.kind = kind[s]
            /\ review' = [review EXCEPT ![q] = row]
      BY <1>1, InsertedRow
    <2>2. at[s] = "insert" /\ s \in Processes
      BY <1>1 DEF Insert, At, Processes
    <2>3. /\ Written' = Written \cup {q} /\ q \notin Written
          /\ review'[q] = row
          /\ \A r \in Written : review'[r] = review[r]
      BY <2>1, NamesAssumption DEF Written, TypeOK
    <2>4. ASSUME NEW r \in Written, review[r].kind = "INITIAL", row.kind = "INITIAL",
                 review[r].order = row.order, review[r].reviewer = row.reviewer
          PROVE  row.order \in doubled
      BY <2>1, <2>2, <2>4 DEF OneInitialEach, InitialsBy, Initials, ReviewsOn
    <2>5. /\ \A r, p \in Written' :
               /\ review'[r].kind = "INITIAL" /\ review'[p].kind = "INITIAL"
               /\ review'[r].order = review'[p].order
               /\ review'[r].reviewer = review'[p].reviewer
               => r = p \/ review'[r].order \in doubled'
          /\ \A r \in Written' : review'[r].reviewer \in PartiesOf[review'[r].order]
      BY <1>0, <2>1, <2>2, <2>3, <2>4 DEF OneInitialEach
    <2>6. at'[s] # "insert" /\ \A t \in Sessions \ {s} : Unmoved(t)
      BY <1>1, <2>2 DEF Insert, Begin, TypeOK, Processes
    <2>7. ASSUME NEW t \in Sessions PROVE Inserting(t)'
      <3>1. CASE t = s
        BY <2>6, <3>1
      <3>2. CASE t # s
        <4>1. Unmoved(t)
          BY <2>6, <3>2
        <4>2. CASE Together(s, t)
          BY <1>0, <2>2, <3>2, <4>1, <4>2 DEF OneInitialEach
        <4>3. ASSUME ~Together(s, t), at[t] = "insert", kind[t] = "INITIAL"
              PROVE  InitialsBy(on[t], user[t])' = InitialsBy(on[t], user[t])
          <5>1. ~(row.kind = "INITIAL" /\ row.order = on[t] /\ row.reviewer = user[t])
            BY <2>1, <2>2, <4>3
          <5>. QED
            BY <2>3, <4>1, <5>1 DEF InitialsBy, Initials, ReviewsOn
        <4>. QED
          BY <1>0, <4>1, <4>2, <4>3 DEF OneInitialEach
      <3>. QED
        BY <3>1, <3>2
    <2>8. \A t, u \in Sessions : Together(t, u)' => t = u \/ on'[t] \in doubled'
      BY <1>t, <2>6
    <2>. QED
      BY <2>5, <2>7, <2>8 DEF OneInitialEach
  <1>2. ASSUME UNCHANGED review, \A s \in Sessions : Inserting(s)',
               \A s, t \in Sessions : Together(s, t)' => s = t \/ on'[s] \in doubled'
        PROVE  OneInitialEach'
    BY <1>0, <1>2 DEF OneInitialEach, Written
  <1>3. ASSUME NEW s \in Sessions, UNCHANGED review, at'[s] # "insert" \/ Unmoved(s)
        PROVE  Inserting(s)'
    BY <1>0, <1>3 DEF OneInitialEach, InitialsBy, Initials, ReviewsOn, Written
  <1>k. ASSUME UNCHANGED review, \A s \in Sessions : at'[s] # "insert" \/ Unmoved(s)
        PROVE  OneInitialEach'
    BY <1>k, <1>t, <1>2, <1>3
  <1>4. ASSUME NEW s \in Sessions, NEW o \in Orders, NEW k \in Kinds, NEW u \in Users,
               Submit(s, o, k, u)
        PROVE  OneInitialEach'
    <2>1. UNCHANGED review /\ s \in Processes /\ at[s] = "idle"
      BY <1>4 DEF Submit, reviewVars, At, Processes
    <2>2. at'[s] = "insert" /\ on'[s] = o /\ kind'[s] = k /\ user'[s] = u
      BY <1>4, <2>1 DEF Submit, Begin, TypeOK
    <2>3. \A t \in Sessions \ {s} : Unmoved(t)
      BY <1>4, <2>1 DEF Submit, Begin, TypeOK, Processes
    <2>4. u \in PartiesOf[o] /\ (k = "INITIAL" => InitialsBy(o, u) = {})
      BY <1>4 DEF Submit
    <2>5. InitialsBy(o, u)' = InitialsBy(o, u)
      BY <2>1 DEF InitialsBy, Initials, ReviewsOn, Written
    <2>6. Inserting(s)'
      BY <2>2, <2>4, <2>5
    <2>7. ASSUME NEW t \in Sessions \ {s}, Together(s, t)' \/ Together(t, s)'
          PROVE  o \in doubled'
      <3>1. k = "INITIAL" /\ at[t] = "insert" /\ kind[t] = k /\ on[t] = o /\ user[t] = u
        BY <2>2, <2>3, <2>7
      <3>2. Doubling(o, k, u)
        BY <3>1 DEF Doubling, At
      <3>. QED
        BY <1>4, <3>2 DEF Submit
    <2>8. \A t, q \in Sessions : Together(t, q)' => t = q \/ on'[t] \in doubled'
      BY <1>t, <2>2, <2>3, <2>7
    <2>. QED
      BY <1>2, <1>3, <2>1, <2>3, <2>6, <2>8
  <1>5. ASSUME NEW s \in Sessions, CountInitials(s) \/ Enqueue(s) PROVE OneInitialEach'
    BY <1>k, <1>5 DEF CountInitials, Enqueue, GoTo, TypeOK, Processes, reviewVars
  <1>6. ASSUME NEW p \in Processes, Release(p) \/ Stop(p) PROVE OneInitialEach'
    BY <1>k, <1>6
       DEF Release, Judge, ReadReviews, Publish, Stop, GoTo, End, TypeOK, Processes, reviewVars
  <1>7. ASSUME (\E o \in Orders : ClaimRelease(o)) \/ TakeNext PROVE OneInitialEach'
    BY <1>k, <1>7 DEF ClaimRelease, TakeNext, Begin, TypeOK, Processes, reviewVars
  <1>8. ASSUME UNCHANGED <<review, procVars>> PROVE OneInitialEach'
    BY <1>k, <1>8 DEF procVars
  <1>. QED
    BY <1>1, <1>4, <1>5, <1>6, <1>7, <1>8
       DEF Next, CreateReview, Tick, Complete, StartJob, vars, procVars, reviewVars

\* Two initial reviews are one of each party.
LEMMA BothFromRelease == TypeOK /\ OneInitialEach /\ ReleasedInTime => BothReviewed
  <1> SUFFICES ASSUME TypeOK, OneInitialEach, ReleasedInTime, NEW r \in visible,
                      ~Overdue(review[r].order), review[r].order \notin doubled, NEW u \in PartiesOf[review[r].order]
               PROVE  InitialsBy(review[r].order, u) # {}
    BY DEF BothReviewed
  <1>. DEFINE o == review[r].order
  <1>1. o \in Orders
    BY DEF TypeOK, Written, ReviewRow
  <1>2. PICK a, b \in Initials(o) : a # b
    BY DEF ReleasedInTime, TwoInitials
  <1>3. /\ a \in InitialsBy(o, review[a].reviewer) /\ review[a].reviewer \in PartiesOf[o]
        /\ b \in InitialsBy(o, review[b].reviewer) /\ review[b].reviewer \in PartiesOf[o]
        /\ review[a].reviewer # review[b].reviewer
    BY <1>2 DEF InitialsBy, Initials, ReviewsOn, OneInitialEach
  <1>4. u = review[a].reviewer \/ u = review[b].reviewer
    BY <1>1, <1>3, PartiesAssumption
  <1>. QED
    BY <1>3, <1>4

\* Unless the blind period is over, or a user had two initial reviews of the
\* order under way at the same time, what is shown is shown because both
\* parties have reviewed, each himself.
THEOREM BothReviewedCorrect == Spec => []BothReviewed
  <1>1. Init => Cleared /\ ReleasedInTime /\ OneInitialEach
    BY DEF Init, Cleared, ReleasedInTime, OneInitialEach, Written, Processes
  <1>2. /\ TypeOK /\ Cleared /\ ReleasedInTime /\ OneInitialEach
        /\ [Next]_vars
        => Cleared' /\ ReleasedInTime' /\ OneInitialEach'
    BY ClearedStep, ReleasedStep, OneInitialStep
  <1>3. TypeOK /\ OneInitialEach /\ ReleasedInTime => BothReviewed
    BY BothFromRelease
  <1>. QED
    BY <1>1, <1>2, <1>3, TypeCorrect, PTL DEF Spec
=============================================================================
