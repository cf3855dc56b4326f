------------------------ MODULE OrderSessions_proofs ------------------------
(***************************************************************************)
(* What handlers that read and write an order in separate statements keep: *)
(* the quota under its lock, one payment and one order unless they meet,   *)
(* and a score that is never above the log.                                *)
(***************************************************************************)
EXTENDS OrderSessions, FiniteSetTheorems, TLAPS

\* The steps of every handler.
PhaseInv ==
    \A s \in Sessions :
        /\ at[s] # "idle" => on[s] \in Orders /\ kind[s] \in DOMAIN Target
        /\ quota[s] # NoUser => kind[s] = "cancel"
        /\ at[s] \in {"acquire", "check", "count", "release"} => quota[s] # NoUser
        /\ at[s] = "idle" => quota[s] = NoUser
        /\ at[s] = "post" => kind[s] \in {"approve", "reject"}
        /\ at[s] = "claimed" => kind[s] = "auto"
        /\ at[s] = "item" => kind[s] \in {"accept", "force", "cancel"}
        /\ at[s] \in {"credit", "entry"} => kind[s] \in {"accept", "force", "auto"}

LockInv ==
    \A u \in Users, s \in Sessions :
        lock[u] = s => quota[s] = u /\ at[s] \in {"check", "write", "item", "count", "release"}

\* The cancellations of u that may still count without the lock, and in its turn.
Late(u) == {s \in Sessions : /\ quota[s] = u /\ lock[u] # s
                             /\ at[s] \in {"check", "write", "item", "count"}}
Taken(u) == \E s \in Sessions : lock[u] = s /\ at[s] \in {"write", "item", "count"}
InTurn(u) == IF Taken(u) THEN 1 ELSE 0

QuotaInv ==
    \A u \in Users :
        /\ IsFiniteSet(Late(u)) /\ Cardinality(Late(u)) <= overtaken
        /\ used[u] + InTurn(u) + Cardinality(Late(u)) <= Limit + overtaken

\* Every quick cancellation is counted, about to be, or missed.
Counting(u) == {s \in Sessions : quota[s] = u /\ at[s] \in {"item", "count"}}
WrittenInv ==
    \A u \in Users :
        /\ IsFiniteSet(Counting(u))
        /\ quick[u] = used[u] + Cardinality(Counting(u)) + missed[u]

\* While no two handlers have met on an order, what one has read of it holds.
Paying(s) == at[s] \in {"item", "credit", "entry"} /\ kind[s] \in {"accept", "force", "auto"}
PaidInv ==
    \A o \in Orders : Alone(o) =>
        /\ \A s, t \in Sessions :
              at[s] # "idle" /\ on[s] = o /\ at[t] # "idle" /\ on[t] = o => s = t
        /\ log[o] <= 1
        /\ status[o] # "COMPLETED" => log[o] = 0
        /\ \A s \in Sessions : on[s] = o =>
              /\ at[s] \in {"post", "acquire", "check", "write"} => status[o] # "COMPLETED"
              /\ Paying(s) => status[o] = "COMPLETED" /\ log[o] = 0

\* An order that is live, or will be when its handler has written it.
Claims(o) ==
    \/ status[o] \in Live
    \/ \E s \in Sessions : /\ on[s] = o /\ at[s] \in {"post", "write"}
                           /\ kind[s] \notin {"reject", "cancel"}
Rivals(o, x) == o # x /\ ApplicantOf[o] = ApplicantOf[x] /\ PostOf[o] = PostOf[x]
RivalInv ==
    \A o, x \in Orders : Rivals(o, x) /\ {o, x} \notin met => ~(Claims(o) /\ Claims(x))

\* The score a completion has read, and the score itself.
Scored(s) == kind[s] \in {"accept", "force", "auto"} /\ at[s] \in {"write", "item", "credit"}
Serves(s, u) == at[s] # "idle" /\ SellerOf[on[s]] = u
Quiet(u) == \A o, x \in Orders : SellerOf[o] = u /\ SellerOf[x] = u => {o, x} \notin met
Total(u) == Awards(u) + Cardinality(Owing(u)) + unlogged[u]
ScoreInv ==
    \A u \in Users :
        /\ IsFiniteSet(Entries(u)) /\ IsFiniteSet(Owing(u))
        /\ credit[u] <= Award * Total(u)
        /\ \A s \in Sessions : Scored(s) /\ Serves(s, u) => base[s] <= Award * Total(u)
        /\ Quiet(u) =>
              /\ credit[u] = Award * Total(u)
              /\ \A s \in Sessions : Scored(s) /\ Serves(s, u) => base[s] = credit[u]
              /\ \A s, t \in Sessions : Serves(s, u) /\ Serves(t, u) => s = t

IInv == TypeOK /\ PhaseInv /\ LockInv /\ QuotaInv /\ WrittenInv /\ PaidInv /\ RivalInv /\ ScoreInv

-----------------------------------------------------------------------------
(* Types *)

LEMMA Kinds ==
  /\ DOMAIN Target = {"apply", "approve", "reject", "submit", "accept", "force", "auto", "cancel"}
  /\ \A k \in DOMAIN Target :
        /\ Target[k] \in Statuses \ {"NONE"}
        /\ Target[k] = "COMPLETED" <=> k \in {"accept", "force", "auto"}
        /\ Target[k] \in Live <=> k \notin {"reject", "cancel"}
        /\ After[k] \in Steps
        /\ After[k] = "item" <=> k \in {"accept", "force", "cancel"}
        /\ After[k] = "credit" <=> k = "auto"
        /\ After[k] = "enqueue" <=> k = "submit"
        /\ After[k] \in {"idle", "item", "credit", "enqueue"}
  BY DEF Target, After, Statuses, Steps, Live

LEMMA InitType == ASSUME Init PROVE TypeOK /\ PhaseInv
  BY DEF Init, TypeOK, Steps, PhaseInv

LEMMA TypeStep ==
  ASSUME TypeOK, PhaseInv, [Next]_vars
  PROVE  TypeOK'
  <1> USE RowsAssumption DEF TypeOK, PhaseInv, Steps, At, GoTo, End, Begin, Freed, Abandoned,
       sessionVars, creditVars, quotaVars, countVars
  <1>1. ASSUME NEW s \in Sessions, NEW o \in Orders, Apply(s, o) PROVE TypeOK'
    <2>0. met' = met \cup {{o, on[t]} : t \in {t \in Sessions \ {s} : at[t] # "idle"}}
      BY <1>1 DEF Apply
    <2>1. met' \subseteq SUBSET Orders
      BY <2>0
    <2>2. at' \in [Sessions -> Steps] /\ kind' \in [Sessions -> DOMAIN Target \cup {"none"}]
      BY <1>1, Kinds DEF Apply
    <2>3. /\ on' \in [Sessions -> Orders \cup {NoOrder}] /\ base' \in [Sessions -> Nat]
          /\ quota' \in [Sessions -> Users \cup {NoUser}]
      BY <1>1 DEF Apply
    <2>4. /\ status' = status /\ deleted' = deleted /\ credit' = credit /\ log' = log
          /\ queue' \subseteq queue /\ used' = used /\ lock' = lock /\ overtaken' = overtaken
          /\ stopped' = stopped /\ quick' = quick /\ missed' = missed /\ unlogged' = unlogged
      BY <1>1 DEF Apply
    <2> HIDE DEF PhaseInv, Begin
    <2> QED
      BY <2>1, <2>2, <2>3, <2>4
  <1>2. ASSUME NEW s \in Sessions, NEW o \in Orders, NEW k \in {"approve", "reject"}, Decide(s, o,
       k) PROVE TypeOK'
    <2>0. met' = met \cup {{o, on[t]} : t \in {t \in Sessions \ {s} : at[t] # "idle"}}
      BY <1>2 DEF Decide
    <2>1. met' \subseteq SUBSET Orders
      BY <2>0
    <2> QED
      BY <1>2, <2>1, Kinds DEF Decide
  <1>3. ASSUME NEW s \in Sessions, NEW o \in Orders, Submit(s, o) PROVE TypeOK'
    <2>0. met' = met \cup {{o, on[t]} : t \in {t \in Sessions \ {s} : at[t] # "idle"}}
      BY <1>3 DEF Submit
    <2>1. met' \subseteq SUBSET Orders
      BY <2>0
    <2>2. at' \in [Sessions -> Steps] /\ kind' \in [Sessions -> DOMAIN Target \cup {"none"}]
      BY <1>3, Kinds DEF Submit
    <2>3. /\ on' \in [Sessions -> Orders \cup {NoOrder}] /\ base' \in [Sessions -> Nat]
          /\ quota' \in [Sessions -> Users \cup {NoUser}]
      BY <1>3 DEF Submit
    <2>4. /\ status' = status /\ deleted' = deleted /\ credit' = credit /\ log' = log
          /\ queue' \subseteq queue /\ used' = used /\ lock' = lock /\ overtaken' = overtaken
          /\ stopped' = stopped /\ quick' = quick /\ missed' = missed /\ unlogged' = unlogged
      BY <1>3 DEF Submit
    <2> HIDE DEF PhaseInv, Begin
    <2> QED
      BY <2>1, <2>2, <2>3, <2>4
  <1>4. ASSUME NEW s \in Sessions, NEW o \in Orders, Accept(s, o) PROVE TypeOK'
    <2>0. met' = met \cup {{o, on[t]} : t \in {t \in Sessions \ {s} : at[t] # "idle"}}
      BY <1>4 DEF Accept
    <2>1. met' \subseteq SUBSET Orders
      BY <2>0
    <2>2. at' \in [Sessions -> Steps] /\ kind' \in [Sessions -> DOMAIN Target \cup {"none"}]
      BY <1>4, Kinds DEF Accept
    <2>3. /\ on' \in [Sessions -> Orders \cup {NoOrder}] /\ base' \in [Sessions -> Nat]
          /\ quota' \in [Sessions -> Users \cup {NoUser}]
      BY <1>4 DEF Accept
    <2>4. /\ status' = status /\ deleted' = deleted /\ credit' = credit /\ log' = log
          /\ queue' \subseteq queue /\ used' = used /\ lock' = lock /\ overtaken' = overtaken
          /\ stopped' = stopped /\ quick' = quick /\ missed' = missed /\ unlogged' = unlogged
      BY <1>4 DEF Accept
    <2> HIDE DEF PhaseInv, Begin
    <2> QED
      BY <2>1, <2>2, <2>3, <2>4
  <1>5. ASSUME NEW s \in Sessions, NEW o \in Orders, ForceComplete(s, o) PROVE TypeOK'
    <2>0. met' = met \cup {{o, on[t]} : t \in {t \in Sessions \ {s} : at[t] # "idle"}}
      BY <1>5 DEF ForceComplete
    <2>1. met' \subseteq SUBSET Orders
      BY <2>0
    <2>2. at' \in [Sessions -> Steps] /\ kind' \in [Sessions -> DOMAIN Target \cup {"none"}]
      BY <1>5, Kinds DEF ForceComplete
    <2>3. /\ on' \in [Sessions -> Orders \cup {NoOrder}] /\ base' \in [Sessions -> Nat]
          /\ quota' \in [Sessions -> Users \cup {NoUser}]
      BY <1>5 DEF ForceComplete
    <2>4. /\ status' = status /\ deleted' = deleted /\ credit' = credit /\ log' = log
          /\ queue' \subseteq queue /\ used' = used /\ lock' = lock /\ overtaken' = overtaken
          /\ stopped' = stopped /\ quick' = quick /\ missed' = missed /\ unlogged' = unlogged
      BY <1>5 DEF ForceComplete
    <2> HIDE DEF PhaseInv, Begin
    <2> QED
      BY <2>1, <2>2, <2>3, <2>4
  <1>6. ASSUME NEW s \in Sessions, NEW o \in Orders, Claim(s, o) PROVE TypeOK'
    <2>0. met' = met \cup {{o, on[t]} : t \in {t \in Sessions \ {s} : at[t] # "idle"}}
      BY <1>6 DEF Claim
    <2>1. met' \subseteq SUBSET Orders
      BY <2>0
    <2>2. at' \in [Sessions -> Steps] /\ kind' \in [Sessions -> DOMAIN Target \cup {"none"}]
      BY <1>6, Kinds DEF Claim
    <2>3. /\ on' \in [Sessions -> Orders \cup {NoOrder}] /\ base' \in [Sessions -> Nat]
          /\ quota' \in [Sessions -> Users \cup {NoUser}]
      BY <1>6 DEF Claim
    <2>4. /\ status' = status /\ deleted' = deleted /\ credit' = credit /\ log' = log
          /\ queue' \subseteq queue /\ used' = used /\ lock' = lock /\ overtaken' = overtaken
          /\ stopped' = stopped /\ quick' = quick /\ missed' = missed /\ unlogged' = unlogged
      BY <1>6 DEF Claim
    <2> HIDE DEF PhaseInv, Begin
    <2> QED
      BY <2>1, <2>2, <2>3, <2>4
  <1>7. ASSUME NEW s \in Sessions, NEW o \in Orders, NEW u \in Users \cup {NoUser}, Cancel(s, o,
       u) PROVE TypeOK'
    <2>1. met' = met \cup {{o, on[t]} : t \in {t \in Sessions \ {s} : at[t] # "idle"}}
      BY <1>7 DEF Cancel
    <2>2. met' \subseteq SUBSET Orders
      BY <2>1
    <2> QED
      BY <1>7, <2>2, Kinds DEF Cancel
  <1>8. ASSUME NEW s \in Sessions, ReadPost(s) PROVE TypeOK'
    BY <1>8 DEF ReadPost
  <1>9. ASSUME NEW s \in Sessions, ReadClaimed(s) PROVE TypeOK'
    BY <1>9 DEF ReadClaimed
  <1>10. ASSUME NEW s \in Sessions, Acquire(s) PROVE TypeOK'
    BY <1>10 DEF Acquire
  <1>11. ASSUME NEW s \in Sessions, GiveUp(s) PROVE TypeOK'
    BY <1>11 DEF GiveUp
  <1>12. ASSUME NEW s \in Sessions, CheckQuota(s) PROVE TypeOK'
    <2>1. lock' \in [Users -> Sessions \cup {Nobody, Orphan}]
      BY <1>12 DEF CheckQuota
    <2>2. /\ at' \in [Sessions -> Steps] /\ kind' \in [Sessions -> DOMAIN Target \cup {"none"}]
          /\ on' \in [Sessions -> Orders \cup {NoOrder}] /\ base' \in [Sessions -> Nat]
          /\ quota' \in [Sessions -> Users \cup {NoUser}]
      BY <1>12 DEF CheckQuota
    <2> QED
      BY <1>12, <2>1, <2>2 DEF CheckQuota
  <1>13. ASSUME NEW s \in Sessions, Count(s) PROVE TypeOK'
    <2>1. quota[s] \in Users
      BY <1>13 DEF Count
    <2>2. used' \in [Users -> Nat]
      BY <1>13, <2>1 DEF Count
    <2> QED
      BY <1>13, <2>2 DEF Count
  <1>14. ASSUME NEW s \in Sessions, Release(s) PROVE TypeOK'
    BY <1>14 DEF Release
  <1>15. ASSUME NEW s \in Sessions, Write(s) PROVE TypeOK'
    <2>1. status' \in [Orders -> Statuses]
      BY <1>15, Kinds DEF Write
    <2>2. at' \in [Sessions -> Steps]
      BY <1>15, Kinds DEF Write
    <2>3. quick' \in [Users -> Nat]
      BY <1>15 DEF Write
    <2> QED
      BY <1>15, <2>1, <2>2, <2>3 DEF Write
  <1>16. ASSUME NEW s \in Sessions, ReadItem(s) PROVE TypeOK'
    <2>1. missed' \in [Users -> Nat]
      BY <1>16 DEF ReadItem, Missed
    <2> QED
      BY <1>16, <2>1 DEF ReadItem
  <1>17. ASSUME NEW s \in Sessions, AddCredit(s) PROVE TypeOK'
    <2>1. on[s] \in Orders
      BY <1>17 DEF AddCredit
    <2>2. base[s] + Award \in Nat
      BY <2>1, BoundsAssumption
    <2>3. credit' \in [Users -> Nat]
      BY <1>17, <2>1, <2>2 DEF AddCredit
    <2> QED
      BY <1>17, <2>3 DEF AddCredit
  <1>17a. ASSUME NEW s \in Sessions, AddEntry(s) PROVE TypeOK'
    <2>1. on[s] \in Orders /\ log[on[s]] + 1 \in Nat
      BY <1>17a DEF AddEntry
    <2>2. log' \in [Orders -> Nat]
      BY <1>17a, <2>1 DEF AddEntry
    <2> QED
      BY <1>17a, <2>2 DEF AddEntry
  <1>18. ASSUME NEW s \in Sessions, Enqueue(s) PROVE TypeOK'
    BY <1>18 DEF Enqueue
  <1>19. ASSUME NEW s \in Sessions, Stop(s) PROVE TypeOK'
    <2>1. missed' \in [Users -> Nat] /\ unlogged' \in [Users -> Nat]
      BY <1>19 DEF Stop, Missed, Unlogged
    <2> QED
      BY <1>19, <2>1 DEF Stop
  <1>20. ASSUME NEW v \in Users, Expire(v) PROVE TypeOK'
    BY <1>20 DEF Expire
  <1>21. ASSUME NEW p \in Posts, DeletePost(p) PROVE TypeOK'
    BY <1>21 DEF DeletePost
  <1>22. CASE UNCHANGED vars
    BY <1>22 DEF vars
  <1> HIDE DEF TypeOK, PhaseInv, Steps, At, GoTo, End, Begin, Freed, Abandoned, sessionVars,
       creditVars, quotaVars, countVars
  <1> QED
    BY <1>1, <1>2, <1>3, <1>4, <1>5, <1>6, <1>7, <1>8, <1>9, <1>10, <1>11, <1>12, <1>13, <1>14,
         <1>15, <1>16, <1>17, <1>17a, <1>18, <1>19, <1>20, <1>21, <1>22 DEF Next, Start, Continue

LEMMA PhaseStep ==
  ASSUME TypeOK, PhaseInv, [Next]_vars
  PROVE  PhaseInv'
  <1> USE RowsAssumption, Kinds DEF TypeOK, PhaseInv, At, GoTo, End, Begin, Freed, Abandoned,
       sessionVars, creditVars, quotaVars, countVars
  <1>1. ASSUME NEW s \in Sessions, NEW o \in Orders, Apply(s, o) PROVE PhaseInv'
    BY <1>1 DEF Apply
  <1>2. ASSUME NEW s \in Sessions, NEW o \in Orders, NEW k \in {"approve", "reject"}, Decide(s, o,
       k) PROVE PhaseInv'
    BY <1>2 DEF Decide
  <1>3. ASSUME NEW s \in Sessions, NEW o \in Orders, Submit(s, o) PROVE PhaseInv'
    BY <1>3 DEF Submit
  <1>4. ASSUME NEW s \in Sessions, NEW o \in Orders, Accept(s, o) PROVE PhaseInv'
    BY <1>4 DEF Accept
  <1>5. ASSUME NEW s \in Sessions, NEW o \in Orders, ForceComplete(s, o) PROVE PhaseInv'
    BY <1>5 DEF ForceComplete
  <1>6. ASSUME NEW s \in Sessions, NEW o \in Orders, Claim(s, o) PROVE PhaseInv'
    BY <1>6 DEF Claim
  <1>7. ASSUME NEW s \in Sessions, NEW o \in Orders, NEW u \in Users \cup {NoUser}, Cancel(s, o,
       u) PROVE PhaseInv'
    BY <1>7 DEF Cancel
  <1>8. ASSUME NEW s \in Sessions, ReadPost(s) PROVE PhaseInv'
    BY <1>8 DEF ReadPost
  <1>9. ASSUME NEW s \in Sessions, ReadClaimed(s) PROVE PhaseInv'
    BY <1>9 DEF ReadClaimed
  <1>10. ASSUME NEW s \in Sessions, Acquire(s) PROVE PhaseInv'
    BY <1>10 DEF Acquire
  <1>11. ASSUME NEW s \in Sessions, GiveUp(s) PROVE PhaseInv'
    BY <1>11 DEF GiveUp
  <1>12. ASSUME NEW s \in Sessions, CheckQuota(s) PROVE PhaseInv'
    BY <1>12 DEF CheckQuota
  <1>13. ASSUME NEW s \in Sessions, Count(s) PROVE PhaseInv'
    BY <1>13 DEF Count
  <1>14. ASSUME NEW s \in Sessions, Release(s) PROVE PhaseInv'
    BY <1>14 DEF Release
  <1>15. ASSUME NEW s \in Sessions, Write(s) PROVE PhaseInv'
    BY <1>15 DEF Write
  <1>16. ASSUME NEW s \in Sessions, ReadItem(s) PROVE PhaseInv'
    BY <1>16 DEF ReadItem
  <1>17. ASSUME NEW s \in Sessions, AddCredit(s) PROVE PhaseInv'
    BY <1>17 DEF AddCredit
  <1>17a. ASSUME NEW s \in Sessions, AddEntry(s) PROVE PhaseInv'
    BY <1>17a DEF AddEntry
  <1>18. ASSUME NEW s \in Sessions, Enqueue(s) PROVE PhaseInv'
    BY <1>18 DEF Enqueue
  <1>19. ASSUME NEW s \in Sessions, Stop(s) PROVE PhaseInv'
    BY <1>19 DEF Stop
  <1>20. ASSUME NEW v \in Users, Expire(v) PROVE PhaseInv'
    BY <1>20 DEF Expire
  <1>21. ASSUME NEW p \in Posts, DeletePost(p) PROVE PhaseInv'
    BY <1>21 DEF DeletePost
  <1>22. CASE UNCHANGED vars
    BY <1>22 DEF vars
  <1> QED
    BY <1>1, <1>2, <1>3, <1>4, <1>5, <1>6, <1>7, <1>8, <1>9, <1>10, <1>11, <1>12, <1>13, <1>14,
         <1>15, <1>16, <1>17, <1>17a, <1>18, <1>19, <1>20, <1>21, <1>22 DEF Next, Start, Continue

-----------------------------------------------------------------------------
(* The quota of quick cancellations *)

LEMMA LockStep ==
  ASSUME TypeOK, PhaseInv, LockInv, [Next]_vars
  PROVE  LockInv'
  <1> USE RowsAssumption, Kinds DEF TypeOK, PhaseInv, LockInv, At, GoTo, End, Begin, Freed,
       Abandoned, sessionVars, creditVars, quotaVars, countVars
  <1>1. ASSUME NEW s \in Sessions, NEW o \in Orders, Apply(s, o) PROVE LockInv'
    BY <1>1 DEF Apply
  <1>2. ASSUME NEW s \in Sessions, NEW o \in Orders, NEW k \in {"approve", "reject"}, Decide(s, o,
       k) PROVE LockInv'
    BY <1>2 DEF Decide
  <1>3. ASSUME NEW s \in Sessions, NEW o \in Orders, Submit(s, o) PROVE LockInv'
    BY <1>3 DEF Submit
  <1>4. ASSUME NEW s \in Sessions, NEW o \in Orders, Accept(s, o) PROVE LockInv'
    BY <1>4 DEF Accept
  <1>5. ASSUME NEW s \in Sessions, NEW o \in Orders, ForceComplete(s, o) PROVE LockInv'
    BY <1>5 DEF ForceComplete
  <1>6. ASSUME NEW s \in Sessions, NEW o \in Orders, Claim(s, o) PROVE LockInv'
    BY <1>6 DEF Claim
  <1>7. ASSUME NEW s \in Sessions, NEW o \in Orders, NEW u \in Users \cup {NoUser}, Cancel(s, o,
       u) PROVE LockInv'
    BY <1>7 DEF Cancel
  <1>8. ASSUME NEW s \in Sessions, ReadPost(s) PROVE LockInv'
    BY <1>8 DEF ReadPost
  <1>9. ASSUME NEW s \in Sessions, ReadClaimed(s) PROVE LockInv'
    BY <1>9 DEF ReadClaimed
  <1>10. ASSUME NEW s \in Sessions, Acquire(s) PROVE LockInv'
    BY <1>10 DEF Acquire
  <1>11. ASSUME NEW s \in Sessions, GiveUp(s) PROVE LockInv'
    BY <1>11 DEF GiveUp
  <1>12. ASSUME NEW s \in Sessions, CheckQuota(s) PROVE LockInv'
    BY <1>12 DEF CheckQuota
  <1>13. ASSUME NEW s \in Sessions, Count(s) PROVE LockInv'
    BY <1>13 DEF Count
  <1>14. ASSUME NEW s \in Sessions, Release(s) PROVE LockInv'
    BY <1>14 DEF Release
  <1>15. ASSUME NEW s \in Sessions, Write(s) PROVE LockInv'
    BY <1>15 DEF Write
  <1>16. ASSUME NEW s \in Sessions, ReadItem(s) PROVE LockInv'
    BY <1>16 DEF ReadItem
  <1>17. ASSUME NEW s \in Sessions, AddCredit(s) PROVE LockInv'
    BY <1>17 DEF AddCredit
  <1>17a. ASSUME NEW s \in Sessions, AddEntry(s) PROVE LockInv'
    BY <1>17a DEF AddEntry
  <1>18. ASSUME NEW s \in Sessions, Enqueue(s) PROVE LockInv'
    BY <1>18 DEF Enqueue
  <1>19. ASSUME NEW s \in Sessions, Stop(s) PROVE LockInv'
    BY <1>19 DEF Stop
  <1>20. ASSUME NEW v \in Users, Expire(v) PROVE LockInv'
    BY <1>20 DEF Expire
  <1>21. ASSUME NEW p \in Posts, DeletePost(p) PROVE LockInv'
    BY <1>21 DEF DeletePost
  <1>22. CASE UNCHANGED vars
    BY <1>22 DEF vars
  <1> HIDE DEF TypeOK, PhaseInv, LockInv, At, GoTo, End, Begin, Freed, Abandoned, sessionVars,
       creditVars, quotaVars, countVars
  <1> QED
    BY <1>1, <1>2, <1>3, <1>4, <1>5, <1>6, <1>7, <1>8, <1>9, <1>10, <1>11, <1>12, <1>13, <1>14,
         <1>15, <1>16, <1>17, <1>17a, <1>18, <1>19, <1>20, <1>21, <1>22 DEF Next, Start, Continue

\* Most steps neither start to count nor lose a lock.
LEMMA QuotaPlain ==
  ASSUME TypeOK, PhaseInv, LockInv, [Next]_vars, NEW v \in Users,
         \A s \in Sessions : ~CheckQuota(s) /\ ~Count(s), \A u \in Users : ~Expire(u)
  PROVE  /\ Late(v)' \subseteq Late(v) /\ (Taken(v)' => Taken(v))
         /\ used' = used /\ overtaken' = overtaken
  <1> DEFINE Plain == /\ Late(v)' \subseteq Late(v) /\ (Taken(v)' => Taken(v))
                      /\ used' = used /\ overtaken' = overtaken
  <1> SUFFICES Plain
    OBVIOUS
  <1> USE RowsAssumption, Kinds DEF TypeOK, PhaseInv, LockInv, Late, Taken, At, GoTo, End, Begin,
       Freed, Abandoned, sessionVars, creditVars, quotaVars, countVars
  <1>1. ASSUME NEW s \in Sessions, NEW o \in Orders, Apply(s, o) PROVE Plain
    BY <1>1 DEF Apply
  <1>2. ASSUME NEW s \in Sessions, NEW o \in Orders, NEW k \in {"approve", "reject"}, Decide(s, o,
       k) PROVE Plain
    BY <1>2 DEF Decide
  <1>3. ASSUME NEW s \in Sessions, NEW o \in Orders, Submit(s, o) PROVE Plain
    BY <1>3 DEF Submit
  <1>4. ASSUME NEW s \in Sessions, NEW o \in Orders, Accept(s, o) PROVE Plain
    BY <1>4 DEF Accept
  <1>5. ASSUME NEW s \in Sessions, NEW o \in Orders, ForceComplete(s, o) PROVE Plain
    BY <1>5 DEF ForceComplete
  <1>6. ASSUME NEW s \in Sessions, NEW o \in Orders, Claim(s, o) PROVE Plain
    BY <1>6 DEF Claim
  <1>7. ASSUME NEW s \in Sessions, NEW o \in Orders, NEW u \in Users \cup {NoUser}, Cancel(s, o,
       u) PROVE Plain
    BY <1>7 DEF Cancel
  <1>8. ASSUME NEW s \in Sessions, ReadPost(s) PROVE Plain
    BY <1>8 DEF ReadPost
  <1>9. ASSUME NEW s \in Sessions, ReadClaimed(s) PROVE Plain
    BY <1>9 DEF ReadClaimed
  <1>10. ASSUME NEW s \in Sessions, Acquire(s) PROVE Plain
    BY <1>10 DEF Acquire
  <1>11. ASSUME NEW s \in Sessions, GiveUp(s) PROVE Plain
    BY <1>11 DEF GiveUp
  <1>12. ASSUME NEW s \in Sessions, Release(s) PROVE Plain
    BY <1>12 DEF Release
  <1>13. ASSUME NEW s \in Sessions, Write(s) PROVE Plain
    BY <1>13 DEF Write
  <1>14. ASSUME NEW s \in Sessions, ReadItem(s) PROVE Plain
    BY <1>14 DEF ReadItem
  <1>15. ASSUME NEW s \in Sessions, AddCredit(s) PROVE Plain
    BY <1>15 DEF AddCredit
  <1>15a. ASSUME NEW s \in Sessions, AddEntry(s) PROVE Plain
    BY <1>15a DEF AddEntry
  <1>16. ASSUME NEW s \in Sessions, Enqueue(s) PROVE Plain
    BY <1>16 DEF Enqueue
  <1>17. ASSUME NEW s \in Sessions, Stop(s) PROVE Plain
    BY <1>17 DEF Stop
  <1>18. ASSUME NEW p \in Posts, DeletePost(p) PROVE Plain
    BY <1>18 DEF DeletePost
  <1>19. CASE UNCHANGED vars
    BY <1>19 DEF vars
  <1> HIDE DEF Plain, TypeOK, PhaseInv, LockInv, Late, Taken, At, GoTo, End, Begin, Freed,
       Abandoned, sessionVars, creditVars, quotaVars, countVars
  <1> QED
    BY <1>1, <1>2, <1>3, <1>4, <1>5, <1>6, <1>7, <1>8, <1>9, <1>10, <1>11, <1>12, <1>13, <1>14,
         <1>15, <1>15a, <1>16, <1>17, <1>18, <1>19 DEF Next, Start, Continue

LEMMA QuotaStep ==
  ASSUME TypeOK, TypeOK', PhaseInv, LockInv, QuotaInv, [Next]_vars
  PROVE  QuotaInv'
  <1> SUFFICES ASSUME NEW v \in Users
               PROVE  /\ IsFiniteSet(Late(v)') /\ Cardinality(Late(v)') <= overtaken'
                      /\ used'[v] + InTurn(v)' + Cardinality(Late(v)') <= Limit + overtaken'
    BY DEF QuotaInv
  <1> DEFINE a == Cardinality(Late(v))  a1 == Cardinality(Late(v)')
  <1>1. /\ IsFiniteSet(Late(v)) /\ a <= overtaken /\ a \in Nat
        /\ used[v] + InTurn(v) + a <= Limit + overtaken
        /\ used[v] \in Nat /\ overtaken \in Nat /\ Limit \in Nat /\ InTurn(v) \in {0, 1}
    BY FS_CardinalityType, BoundsAssumption DEF QuotaInv, TypeOK, InTurn
  <1>2. Late(v)' \subseteq Late(v) => IsFiniteSet(Late(v)') /\ a1 <= a /\ a1 \in Nat
    BY <1>1, FS_Subset, FS_CardinalityType
  <1>3. (Taken(v)' => Taken(v)) => InTurn(v)' <= InTurn(v) /\ InTurn(v)' \in {0, 1}
    BY DEF InTurn
  <1>4. CASE /\ Late(v)' \subseteq Late(v) /\ (Taken(v)' => Taken(v))
             /\ used'[v] = used[v] /\ overtaken' = overtaken
    <2> HIDE DEF a, a1
    <2>1. used'[v] + InTurn(v)' + a1 <= Limit + overtaken'
      BY <1>1, <1>2, <1>3, <1>4
    <2> QED
      BY <1>1, <1>2, <1>4, <2>1 DEF a1
  <1>5. ASSUME NEW s \in Sessions, CheckQuota(s)
        PROVE  /\ IsFiniteSet(Late(v)') /\ a1 <= overtaken'
               /\ used'[v] + InTurn(v)' + a1 <= Limit + overtaken'
    <2>1. used' = used /\ overtaken' = overtaken /\ quota[s] \in Users
      BY <1>5, RowsAssumption DEF CheckQuota, PhaseInv, TypeOK, At
    <2>2. Late(v)' \subseteq Late(v)
      BY <1>5, RowsAssumption DEF CheckQuota, Late, TypeOK, At, GoTo, End, Freed, LockInv
    <2>3. CASE used[quota[s]] >= Limit
      <3>1. Taken(v)' => Taken(v)
        BY <1>5, <2>3, RowsAssumption DEF CheckQuota, Taken, TypeOK, At, End, Freed, LockInv
      <3> QED
        BY <1>4, <2>1, <2>2, <3>1
    <2>4. CASE ~(used[quota[s]] >= Limit)
      <3>1. lock' = lock /\ at' = [at EXCEPT ![s] = "write"]
        BY <1>5, <2>4 DEF CheckQuota, GoTo
      <3>2. CASE lock[v] = s
        <4>1. v = quota[s]
          BY <3>2 DEF LockInv
        <4>2. InTurn(v)' \in {0, 1}
          BY DEF InTurn
        <4> HIDE DEF a, a1
        <4>3. used[v] + 1 <= Limit
          BY <1>1, <2>4, <4>1
        <4>4. used'[v] + InTurn(v)' + a1 <= Limit + overtaken'
          BY <1>1, <1>2, <2>1, <2>2, <4>2, <4>3
        <4> QED
          BY <1>1, <1>2, <2>1, <2>2, <4>4
      <3>3. CASE lock[v] # s
        <4>1. Taken(v)' => Taken(v)
          BY <3>1, <3>3 DEF Taken, TypeOK
        <4> QED
          BY <1>4, <2>1, <2>2, <4>1
      <3> QED
        BY <3>2, <3>3
    <2> QED
      BY <2>3, <2>4
  <1>6. ASSUME NEW s \in Sessions, Count(s)
        PROVE  /\ IsFiniteSet(Late(v)') /\ a1 <= overtaken'
               /\ used'[v] + InTurn(v)' + a1 <= Limit + overtaken'
    <2>1. /\ overtaken' = overtaken /\ lock' = lock /\ quota' = quota
          /\ at[s] = "count" /\ at' = [at EXCEPT ![s] = "release"]
          /\ used' = [used EXCEPT ![quota[s]] = used[quota[s]] + 1]
      BY <1>6 DEF Count, At, GoTo
    <2>2. Late(v)' \subseteq Late(v) /\ (Taken(v)' => Taken(v))
      BY <2>1 DEF Late, Taken, TypeOK
    <2>3. CASE v # quota[s]
      <3>1. used'[v] = used[v]
        BY <2>1, <2>3 DEF TypeOK
      <3> QED
        BY <1>4, <2>1, <2>2, <3>1
    <2>4. CASE v = quota[s]
      <3>1. used'[v] = used[v] + 1
        BY <2>1, <2>4 DEF TypeOK
      <3>2. CASE lock[v] = s
        <4>1. Taken(v) /\ ~Taken(v)'
          BY <2>1, <3>2 DEF Taken, TypeOK
        <4>2. InTurn(v) = 1 /\ InTurn(v)' = 0
          BY <4>1 DEF InTurn
        <4> HIDE DEF a, a1
        <4>3. used'[v] + InTurn(v)' + a1 <= Limit + overtaken'
          BY <1>1, <1>2, <2>1, <2>2, <3>1, <4>2
        <4> QED
          BY <1>1, <1>2, <2>1, <2>2, <4>3
      <3>3. CASE lock[v] # s
        <4>1. s \in Late(v) /\ Late(v)' \subseteq Late(v) \ {s}
          BY <2>1, <2>2, <2>4, <3>3 DEF Late, TypeOK
        <4> DEFINE b == Cardinality(Late(v) \ {s})
        <4>2. IsFiniteSet(Late(v) \ {s}) /\ b = a - 1
          BY <1>1, <4>1, FS_RemoveElement
        <4>3. a1 <= b
          BY <4>1, <4>2, FS_Subset
        <4> HIDE DEF a, a1, b
        <4>4. used'[v] + InTurn(v)' + a1 <= Limit + overtaken'
          BY <1>1, <1>2, <1>3, <2>1, <2>2, <3>1, <4>2, <4>3
        <4> QED
          BY <1>1, <1>2, <2>1, <2>2, <4>4
      <3> QED
        BY <3>2, <3>3
    <2> QED
      BY <2>3, <2>4
  <1>7. ASSUME NEW w \in Users, Expire(w)
        PROVE  /\ IsFiniteSet(Late(v)') /\ a1 <= overtaken'
               /\ used'[v] + InTurn(v)' + a1 <= Limit + overtaken'
    <2>1. /\ used' = used /\ at' = at /\ quota' = quota
          /\ lock' = [lock EXCEPT ![w] = Nobody] /\ lock[w] # Nobody
          /\ overtaken' \in {overtaken, overtaken + 1}
          /\ lock[w] # Orphan => overtaken' = overtaken + 1
      BY <1>7 DEF Expire, sessionVars
    <2>2. Taken(v)' => Taken(v)
      BY <2>1, RowsAssumption DEF Taken, TypeOK
    <2>3. CASE v # w \/ lock[w] = Orphan
      <3>1. Late(v)' \subseteq Late(v)
        BY <2>1, <2>3, RowsAssumption DEF Late, TypeOK
      <3> HIDE DEF a, a1
      <3>2. used'[v] + InTurn(v)' + a1 <= Limit + overtaken' /\ a1 <= overtaken'
        BY <1>1, <1>2, <1>3, <2>1, <2>2, <3>1
      <3> QED
        BY <1>2, <3>1, <3>2
    <2>4. CASE v = w /\ lock[w] # Orphan
      <3> DEFINE h == lock[v]
      <3>1. h \in Sessions /\ overtaken' = overtaken + 1
        BY <2>1, <2>4 DEF TypeOK
      <3>2. Late(v)' \subseteq Late(v) \cup {h} /\ h \notin Late(v)
        BY <2>1, <3>1 DEF Late
      <3> DEFINE b == Cardinality(Late(v) \cup {h})
      <3>3. IsFiniteSet(Late(v) \cup {h}) /\ b = a + 1
        BY <1>1, <3>2, FS_AddElement
      <3>4. IsFiniteSet(Late(v)') /\ a1 <= b /\ a1 \in Nat
        BY <3>2, <3>3, FS_Subset, FS_CardinalityType
      <3> HIDE DEF a, a1, b
      <3>5. used'[v] + InTurn(v)' + a1 <= Limit + overtaken' /\ a1 <= overtaken'
        BY <1>1, <1>3, <2>1, <2>2, <3>1, <3>3, <3>4
      <3> QED
        BY <3>4, <3>5
    <2> QED
      BY <2>3, <2>4
  <1>8. CASE /\ \A s \in Sessions : ~CheckQuota(s) /\ ~Count(s)
             /\ \A u \in Users : ~Expire(u)
    BY <1>4, <1>8, QuotaPlain
  <1> QED
    BY <1>5, <1>6, <1>7, <1>8

-----------------------------------------------------------------------------
(* Quick cancellations and their count *)

\* Most steps neither write a quick cancellation nor count one.
LEMMA WrittenPlain ==
  ASSUME TypeOK, PhaseInv, [Next]_vars, NEW v \in Users,
         \A s \in Sessions : ~Write(s) /\ ~ReadItem(s) /\ ~Count(s) /\ ~Stop(s)
  PROVE  Counting(v)' = Counting(v) /\ quick' = quick /\ used' = used /\ missed' = missed
  <1> DEFINE Plain == /\ Counting(v)' = Counting(v)
                      /\ quick' = quick /\ used' = used /\ missed' = missed
  <1> SUFFICES Plain
    OBVIOUS
  <1> USE RowsAssumption, Kinds DEF TypeOK, PhaseInv, Counting, At, GoTo, End, Begin, sessionVars,
       creditVars, quotaVars, countVars
  <1>1. ASSUME NEW s \in Sessions, NEW o \in Orders, Apply(s, o) PROVE Plain
    BY <1>1 DEF Apply
  <1>2. ASSUME NEW s \in Sessions, NEW o \in Orders, NEW k \in {"approve", "reject"},
               Decide(s, o, k) PROVE Plain
    BY <1>2 DEF Decide
  <1>3. ASSUME NEW s \in Sessions, NEW o \in Orders, Submit(s, o) PROVE Plain
    BY <1>3 DEF Submit
  <1>4. ASSUME NEW s \in Sessions, NEW o \in Orders, Accept(s, o) PROVE Plain
    BY <1>4 DEF Accept
  <1>5. ASSUME NEW s \in Sessions, NEW o \in Orders, ForceComplete(s, o) PROVE Plain
    BY <1>5 DEF ForceComplete
  <1>6. ASSUME NEW s \in Sessions, NEW o \in Orders, Claim(s, o) PROVE Plain
    BY <1>6 DEF Claim
  <1>7. ASSUME NEW s \in Sessions, NEW o \in Orders,
               NEW u \in Users \cup {NoUser},
               Cancel(s, o, u) PROVE Plain
    BY <1>7 DEF Cancel
  <1>8. ASSUME NEW s \in Sessions, ReadPost(s) PROVE Plain
    BY <1>8 DEF ReadPost
  <1>9. ASSUME NEW s \in Sessions, ReadClaimed(s) PROVE Plain
    BY <1>9 DEF ReadClaimed
  <1>10. ASSUME NEW s \in Sessions, Acquire(s) PROVE Plain
    BY <1>10 DEF Acquire
  <1>11. ASSUME NEW s \in Sessions, GiveUp(s) PROVE Plain
    BY <1>11 DEF GiveUp
  <1>12. ASSUME NEW s \in Sessions, CheckQuota(s) PROVE Plain
    BY <1>12 DEF CheckQuota
  <1>13. ASSUME NEW s \in Sessions, Release(s) PROVE Plain
    BY <1>13 DEF Release
  <1>14. ASSUME NEW s \in Sessions, AddCredit(s) PROVE Plain
    BY <1>14 DEF AddCredit
  <1>15. ASSUME NEW s \in Sessions, AddEntry(s) PROVE Plain
    BY <1>15 DEF AddEntry
  <1>16. ASSUME NEW s \in Sessions, Enqueue(s) PROVE Plain
    BY <1>16 DEF Enqueue
  <1>17. ASSUME NEW w \in Users, Expire(w) PROVE Plain
    BY <1>17 DEF Expire
  <1>18. ASSUME NEW p \in Posts, DeletePost(p) PROVE Plain
    BY <1>18 DEF DeletePost
  <1>19. CASE UNCHANGED vars
    BY <1>19 DEF vars
  <1> HIDE DEF Plain, TypeOK, PhaseInv, Counting, At, GoTo, End, Begin, sessionVars, creditVars,
       quotaVars, countVars
  <1> QED
    BY <1>1, <1>2, <1>3, <1>4, <1>5, <1>6, <1>7, <1>8, <1>9, <1>10, <1>11, <1>12, <1>13, <1>14,
         <1>15, <1>16, <1>17, <1>18, <1>19 DEF Next, Start, Continue

\* What a handler on a written cancellation does, seen from user v.
LEMMA WrittenOwn ==
  ASSUME TypeOK, PhaseInv, NEW s \in Sessions, NEW v \in Users,
         Write(s) \/ ReadItem(s) \/ Count(s) \/ Stop(s)
  PROVE  \/ /\ Counting(v)' = Counting(v)
            /\ quick'[v] = quick[v] /\ used'[v] = used[v] /\ missed'[v] = missed[v]
         \/ /\ s \notin Counting(v) /\ Counting(v)' = Counting(v) \cup {s}
            /\ quick'[v] = quick[v] + 1 /\ used'[v] = used[v] /\ missed'[v] = missed[v]
         \/ /\ s \in Counting(v) /\ Counting(v)' = Counting(v) \ {s} /\ quick'[v] = quick[v]
            /\ \/ used'[v] = used[v] + 1 /\ missed'[v] = missed[v]
               \/ used'[v] = used[v] /\ missed'[v] = missed[v] + 1
  <1> DEFINE Goal ==
         \/ /\ Counting(v)' = Counting(v)
            /\ quick'[v] = quick[v] /\ used'[v] = used[v] /\ missed'[v] = missed[v]
         \/ /\ s \notin Counting(v) /\ Counting(v)' = Counting(v) \cup {s}
            /\ quick'[v] = quick[v] + 1 /\ used'[v] = used[v] /\ missed'[v] = missed[v]
         \/ /\ s \in Counting(v) /\ Counting(v)' = Counting(v) \ {s} /\ quick'[v] = quick[v]
            /\ \/ used'[v] = used[v] + 1 /\ missed'[v] = missed[v]
               \/ used'[v] = used[v] /\ missed'[v] = missed[v] + 1
  <1> SUFFICES Goal
    OBVIOUS
  <1> USE RowsAssumption DEF TypeOK, PhaseInv, Counting, At, GoTo, End, quotaVars, countVars
  <1>1. CASE Write(s)
    <2>1. /\ at[s] = "write" /\ used' = used /\ missed' = missed
          /\ quick'[v] = IF v = quota[s] THEN quick[v] + 1 ELSE quick[v]
          /\ \A t \in Sessions : t # s => at'[t] = at[t] /\ quota'[t] = quota[t]
      BY <1>1 DEF Write
    <2>2. CASE quota[s] = v
      <3>1. at'[s] = "item" /\ quota'[s] = v
        BY <1>1, <2>2, Kinds DEF Write
      <3> QED
        BY <2>1, <2>2, <3>1
    <2>3. CASE quota[s] # v
      <3>1. quota'[s] # v
        BY <1>1, <2>3 DEF Write
      <3> QED
        BY <2>1, <2>3, <3>1
    <2> QED
      BY <2>2, <2>3
  <1>2. CASE ReadItem(s)
    <2>1. /\ at[s] = "item" /\ used' = used /\ quick' = quick
          /\ \A t \in Sessions : t # s => at'[t] = at[t] /\ quota'[t] = quota[t]
      BY <1>2 DEF ReadItem
    <2>2. CASE PostOf[on[s]] \in deleted
      <3>1. /\ at'[s] = "idle"
            /\ missed'[v] = IF v = quota[s] THEN missed[v] + 1 ELSE missed[v]
        BY <1>2, <2>1, <2>2 DEF ReadItem, Missed, Uncounted
      <3> QED
        BY <2>1, <3>1
    <2>3. CASE PostOf[on[s]] \notin deleted
      <3>1. missed' = missed
        BY <1>2, <2>3 DEF ReadItem
      <3>2. CASE quota[s] = v
        <4>1. at'[s] = "count" /\ quota'[s] = v
          BY <1>2, <2>3, <3>2 DEF ReadItem
        <4> QED
          BY <2>1, <3>1, <3>2, <4>1
      <3>3. CASE quota[s] # v
        <4>1. quota'[s] # v
          BY <1>2, <2>3, <3>3 DEF ReadItem
        <4> QED
          BY <2>1, <3>1, <3>3, <4>1
      <3> QED
        BY <3>2, <3>3
    <2> QED
      BY <2>2, <2>3
  <1>3. CASE Count(s)
    <2>1. /\ at[s] = "count" /\ at'[s] = "release" /\ quick' = quick /\ missed' = missed
          /\ used'[v] = IF v = quota[s] THEN used[v] + 1 ELSE used[v]
          /\ quota' = quota /\ \A t \in Sessions : t # s => at'[t] = at[t]
      BY <1>3 DEF Count
    <2> QED
      BY <2>1
  <1>4. CASE Stop(s)
    <2>1. /\ at'[s] = "idle" /\ used' = used /\ quick' = quick
          /\ missed'[v] = IF v = quota[s] /\ at[s] \in {"item", "count"}
                          THEN missed[v] + 1 ELSE missed[v]
          /\ \A t \in Sessions : t # s => at'[t] = at[t] /\ quota'[t] = quota[t]
      BY <1>4 DEF Stop, Missed, Uncounted
    <2> QED
      BY <2>1
  <1> QED
    BY <1>1, <1>2, <1>3, <1>4

LEMMA WrittenStep ==
  ASSUME TypeOK, PhaseInv, WrittenInv, [Next]_vars
  PROVE  WrittenInv'
  <1> SUFFICES ASSUME NEW v \in Users
               PROVE  /\ IsFiniteSet(Counting(v)')
                      /\ quick'[v] = used'[v] + Cardinality(Counting(v)') + missed'[v]
    BY DEF WrittenInv
  <1> DEFINE n == Cardinality(Counting(v))
             n1 == Cardinality(Counting(v)')
  <1>1. /\ IsFiniteSet(Counting(v)) /\ n \in Nat
        /\ quick[v] = used[v] + n + missed[v]
        /\ quick[v] \in Nat /\ used[v] \in Nat /\ missed[v] \in Nat
    BY FS_CardinalityType DEF WrittenInv, TypeOK
  <1>2. CASE /\ Counting(v)' = Counting(v)
             /\ quick'[v] = quick[v] /\ used'[v] = used[v] /\ missed'[v] = missed[v]
    BY <1>1, <1>2
  <1>3. ASSUME NEW s \in Sessions, s \notin Counting(v), Counting(v)' = Counting(v) \cup {s},
               quick'[v] = quick[v] + 1, used'[v] = used[v], missed'[v] = missed[v]
        PROVE  IsFiniteSet(Counting(v)') /\ quick'[v] = used'[v] + n1 + missed'[v]
    <2>1. IsFiniteSet(Counting(v)') /\ n1 = n + 1
      BY <1>1, <1>3, FS_AddElement
    <2> HIDE DEF n, n1
    <2> QED
      BY <1>1, <1>3, <2>1
  <1>4. ASSUME NEW s \in Sessions, s \in Counting(v), Counting(v)' = Counting(v) \ {s},
               quick'[v] = quick[v],
               \/ used'[v] = used[v] + 1 /\ missed'[v] = missed[v]
               \/ used'[v] = used[v] /\ missed'[v] = missed[v] + 1
        PROVE  IsFiniteSet(Counting(v)') /\ quick'[v] = used'[v] + n1 + missed'[v]
    <2>1. IsFiniteSet(Counting(v)') /\ n1 = n - 1
      BY <1>1, <1>4, FS_RemoveElement
    <2> HIDE DEF n, n1
    <2> QED
      BY <1>1, <1>4, <2>1
  <1>5. CASE \A s \in Sessions : ~Write(s) /\ ~ReadItem(s) /\ ~Count(s) /\ ~Stop(s)
    BY <1>2, <1>5, WrittenPlain
  <1>6. ASSUME NEW s \in Sessions, Write(s) \/ ReadItem(s) \/ Count(s) \/ Stop(s)
        PROVE  IsFiniteSet(Counting(v)') /\ quick'[v] = used'[v] + n1 + missed'[v]
    BY <1>2, <1>3, <1>4, <1>6, WrittenOwn
  <1> QED
    BY <1>5, <1>6

\* Those still to be counted are late, but for the one whose turn it is.
LEMMA CountingBound ==
  ASSUME TypeOK, QuotaInv, WrittenInv, NEW v \in Users
  PROVE  quick[v] <= Limit + overtaken + missed[v]
  <1> DEFINE n == Cardinality(Counting(v))
             a == Cardinality(Late(v))
  <1>1. /\ quick[v] = used[v] + n + missed[v] /\ IsFiniteSet(Counting(v)) /\ IsFiniteSet(Late(v))
        /\ used[v] + InTurn(v) + a <= Limit + overtaken
        /\ used[v] \in Nat /\ missed[v] \in Nat /\ overtaken \in Nat /\ Limit \in Nat
        /\ n \in Nat /\ a \in Nat
    BY FS_CardinalityType, BoundsAssumption DEF WrittenInv, QuotaInv, TypeOK
  <1>2. n <= InTurn(v) + a
    <2>1. CASE Taken(v)
      <3>1. PICK h \in Sessions : lock[v] = h
        BY <2>1 DEF Taken
      <3>2. h \notin Late(v) /\ Counting(v) \subseteq Late(v) \cup {h}
        BY <3>1 DEF Late, Counting
      <3>3. IsFiniteSet(Late(v) \cup {h}) /\ Cardinality(Late(v) \cup {h}) = a + 1
        BY <1>1, <3>2, FS_AddElement
      <3>4. n <= a + 1
        BY <3>2, <3>3, FS_Subset
      <3> HIDE DEF n, a
      <3> QED
        BY <1>1, <2>1, <3>4 DEF InTurn
    <2>2. CASE ~Taken(v)
      <3>1. Counting(v) \subseteq Late(v)
        BY <2>2 DEF Late, Counting, Taken
      <3>2. n <= a
        BY <1>1, <3>1, FS_Subset
      <3> HIDE DEF n, a
      <3> QED
        BY <1>1, <2>2, <3>2 DEF InTurn
    <2> QED
      BY <2>1, <2>2
  <1>3. InTurn(v) \in {0, 1}
    BY DEF InTurn
  <1> HIDE DEF n, a
  <1> QED
    BY <1>1, <1>2, <1>3

-----------------------------------------------------------------------------
(* Payments *)

LEMMA MetGrows ==
  ASSUME [Next]_vars
  PROVE  met \subseteq met'
  <1> USE DEF Begin, sessionVars
  <1>1. ASSUME NEW s \in Sessions, NEW o \in Orders, Apply(s, o) PROVE met \subseteq met'
    BY <1>1 DEF Apply
  <1>2. ASSUME NEW s \in Sessions, NEW o \in Orders, NEW k \in {"approve", "reject"}, Decide(s, o,
       k) PROVE met \subseteq met'
    BY <1>2 DEF Decide
  <1>3. ASSUME NEW s \in Sessions, NEW o \in Orders, Submit(s, o) PROVE met \subseteq met'
    BY <1>3 DEF Submit
  <1>4. ASSUME NEW s \in Sessions, NEW o \in Orders, Accept(s, o) PROVE met \subseteq met'
    BY <1>4 DEF Accept
  <1>5. ASSUME NEW s \in Sessions, NEW o \in Orders, ForceComplete(s, o) PROVE met \subseteq met'
    BY <1>5 DEF ForceComplete
  <1>6. ASSUME NEW s \in Sessions, NEW o \in Orders, Claim(s, o) PROVE met \subseteq met'
    BY <1>6 DEF Claim
  <1>7. ASSUME NEW s \in Sessions, NEW o \in Orders, NEW u \in Users \cup {NoUser}, Cancel(s, o,
       u) PROVE met \subseteq met'
    BY <1>7 DEF Cancel
  <1>8. ASSUME NEW s \in Sessions, ReadPost(s) PROVE met \subseteq met'
    BY <1>8 DEF ReadPost
  <1>9. ASSUME NEW s \in Sessions, ReadClaimed(s) PROVE met \subseteq met'
    BY <1>9 DEF ReadClaimed
  <1>10. ASSUME NEW s \in Sessions, Acquire(s) PROVE met \subseteq met'
    BY <1>10 DEF Acquire
  <1>11. ASSUME NEW s \in Sessions, GiveUp(s) PROVE met \subseteq met'
    BY <1>11 DEF GiveUp
  <1>12. ASSUME NEW s \in Sessions, CheckQuota(s) PROVE met \subseteq met'
    BY <1>12 DEF CheckQuota
  <1>13. ASSUME NEW s \in Sessions, Count(s) PROVE met \subseteq met'
    BY <1>13 DEF Count
  <1>14. ASSUME NEW s \in Sessions, Release(s) PROVE met \subseteq met'
    BY <1>14 DEF Release
  <1>15. ASSUME NEW s \in Sessions, Write(s) PROVE met \subseteq met'
    BY <1>15 DEF Write
  <1>16. ASSUME NEW s \in Sessions, ReadItem(s) PROVE met \subseteq met'
    BY <1>16 DEF ReadItem
  <1>17. ASSUME NEW s \in Sessions, AddCredit(s) PROVE met \subseteq met'
    BY <1>17 DEF AddCredit
  <1>17a. ASSUME NEW s \in Sessions, AddEntry(s) PROVE met \subseteq met'
    BY <1>17a DEF AddEntry
  <1>18. ASSUME NEW s \in Sessions, Enqueue(s) PROVE met \subseteq met'
    BY <1>18 DEF Enqueue
  <1>19. ASSUME NEW s \in Sessions, Stop(s) PROVE met \subseteq met'
    BY <1>19 DEF Stop
  <1>20. ASSUME NEW v \in Users, Expire(v) PROVE met \subseteq met'
    BY <1>20 DEF Expire
  <1>21. ASSUME NEW p \in Posts, DeletePost(p) PROVE met \subseteq met'
    BY <1>21 DEF DeletePost
  <1>22. CASE UNCHANGED vars
    BY <1>22 DEF vars
  <1> QED
    BY <1>1, <1>2, <1>3, <1>4, <1>5, <1>6, <1>7, <1>8, <1>9, <1>10, <1>11, <1>12, <1>13, <1>14,
         <1>15, <1>16, <1>17, <1>17a, <1>18, <1>19, <1>20, <1>21, <1>22 DEF Next, Start, Continue

LEMMA BeginMeets ==
  ASSUME NEW s \in Sessions, NEW o \in Orders, NEW k, NEW c, NEW u, NEW step,
         Begin(s, k, o, c, u, step), NEW t \in Sessions, t # s, at[t] # "idle"
  PROVE  {o, on[t]} \in met'
  BY DEF Begin

LEMMA PaidStep ==
  ASSUME TypeOK, PhaseInv, PaidInv, [Next]_vars
  PROVE  PaidInv'
  <1> SUFFICES ASSUME NEW x \in Orders, Alone(x)'
               PROVE  /\ \A s, t \in Sessions :
                            at'[s] # "idle" /\ on'[s] = x /\ at'[t] # "idle" /\ on'[t] = x
                               => s = t
                      /\ log'[x] <= 1
                      /\ status'[x] # "COMPLETED" => log'[x] = 0
                      /\ \A s \in Sessions : on'[s] = x =>
                            /\ at'[s] \in {"post", "acquire", "check", "write"}
                                  => status'[x] # "COMPLETED"
                            /\ Paying(s)' => status'[x] = "COMPLETED" /\ log'[x] = 0
    BY DEF PaidInv
  <1> DEFINE Only == \A s, t \in Sessions :
                        at[s] # "idle" /\ on[s] = x /\ at[t] # "idle" /\ on[t] = x => s = t
             Kept == /\ log[x] <= 1
                     /\ status[x] # "COMPLETED" => log[x] = 0
                     /\ \A s \in Sessions : on[s] = x =>
                           /\ at[s] \in {"post", "acquire", "check", "write"}
                                 => status[x] # "COMPLETED"
                           /\ Paying(s) => status[x] = "COMPLETED" /\ log[x] = 0
  <1> SUFFICES Only' /\ Kept'
    OBVIOUS
  <1>1. Only /\ Kept
    BY MetGrows DEF PaidInv, Alone
  <1>2. ASSUME NEW s \in Sessions, NEW o \in Orders, NEW k, NEW c, NEW u, NEW step,
               Begin(s, k, o, c, u, step)
        PROVE  o = x => \A t \in Sessions : t # s => at[t] = "idle" \/ on[t] # x
    <2> SUFFICES ASSUME o = x, NEW t \in Sessions, t # s, at[t] # "idle", on[t] = x
                 PROVE  FALSE
      OBVIOUS
    <2>1. {x, x} \in met'
      BY <1>2, BeginMeets
    <2>2. {x, x} = {x}
      OBVIOUS
    <2> QED
      BY <2>1, <2>2 DEF Alone
  <1>3. Only' /\ Kept'
    <2> USE <1>1, RowsAssumption, Kinds DEF TypeOK, PhaseInv, Paying, Live, Cancelable, At, GoTo,
         End, sessionVars, creditVars, quotaVars, countVars
    <2>1. ASSUME NEW s \in Sessions, NEW o \in Orders, Apply(s, o) PROVE Only' /\ Kept'
      <3>1. o = x => \A t \in Sessions : t # s => at[t] = "idle" \/ on[t] # x
        BY <2>1, <1>2 DEF Apply
      <3> QED
        BY <2>1, <3>1 DEF Apply, Begin
    <2>2. ASSUME NEW s \in Sessions, NEW o \in Orders, NEW k \in {"approve", "reject"}, Decide(s,
         o, k) PROVE Only' /\ Kept'
      <3>1. o = x => \A t \in Sessions : t # s => at[t] = "idle" \/ on[t] # x
        BY <2>2, <1>2 DEF Decide
      <3> QED
        BY <2>2, <3>1 DEF Decide, Begin
    <2>3. ASSUME NEW s \in Sessions, NEW o \in Orders, Submit(s, o) PROVE Only' /\ Kept'
      <3>1. o = x => \A t \in Sessions : t # s => at[t] = "idle" \/ on[t] # x
        BY <2>3, <1>2 DEF Submit
      <3> QED
        BY <2>3, <3>1 DEF Submit, Begin
    <2>4. ASSUME NEW s \in Sessions, NEW o \in Orders, Accept(s, o) PROVE Only' /\ Kept'
      <3>1. o = x => \A t \in Sessions : t # s => at[t] = "idle" \/ on[t] # x
        BY <2>4, <1>2 DEF Accept
      <3> QED
        BY <2>4, <3>1 DEF Accept, Begin
    <2>5. ASSUME NEW s \in Sessions, NEW o \in Orders, ForceComplete(s, o) PROVE Only' /\ Kept'
      <3>1. o = x => \A t \in Sessions : t # s => at[t] = "idle" \/ on[t] # x
        BY <2>5, <1>2 DEF ForceComplete
      <3> QED
        BY <2>5, <3>1 DEF ForceComplete, Begin
    <2>6. ASSUME NEW s \in Sessions, NEW o \in Orders, Claim(s, o) PROVE Only' /\ Kept'
      <3>1. o = x => \A t \in Sessions : t # s => at[t] = "idle" \/ on[t] # x
        BY <2>6, <1>2 DEF Claim
      <3> QED
        BY <2>6, <3>1 DEF Claim, Begin
    <2>7. ASSUME NEW s \in Sessions, NEW o \in Orders, NEW u \in Users \cup {NoUser}, Cancel(s, o,
         u) PROVE Only' /\ Kept'
      <3>1. o = x => \A t \in Sessions : t # s => at[t] = "idle" \/ on[t] # x
        BY <2>7, <1>2 DEF Cancel
      <3> QED
        BY <2>7, <3>1 DEF Cancel, Begin
    <2>8. ASSUME NEW s \in Sessions, ReadPost(s) PROVE Only' /\ Kept'
      BY <2>8 DEF ReadPost
    <2>9. ASSUME NEW s \in Sessions, ReadClaimed(s) PROVE Only' /\ Kept'
      <3>1. /\ status' = status /\ log' = log /\ at[s] = "claimed"
            /\ at'[s] = "idle" \/ (at'[s] = "write" /\ on'[s] = on[s]
                                    /\ status[on[s]] = "CONFIRMED")
            /\ \A t \in Sessions : t # s => at'[t] = at[t] /\ on'[t] = on[t] /\ kind'[t] = kind[t]
        BY <2>9 DEF ReadClaimed
      <3> QED
        BY <3>1
    <2>10. ASSUME NEW s \in Sessions, Acquire(s) PROVE Only' /\ Kept'
      BY <2>10 DEF Acquire
    <2>11. ASSUME NEW s \in Sessions, GiveUp(s) PROVE Only' /\ Kept'
      BY <2>11 DEF GiveUp
    <2>12. ASSUME NEW s \in Sessions, CheckQuota(s) PROVE Only' /\ Kept'
      BY <2>12 DEF CheckQuota
    <2>13. ASSUME NEW s \in Sessions, Count(s) PROVE Only' /\ Kept'
      BY <2>13 DEF Count
    <2>14. ASSUME NEW s \in Sessions, Release(s) PROVE Only' /\ Kept'
      BY <2>14 DEF Release
    <2>15. ASSUME NEW s \in Sessions, Write(s) PROVE Only' /\ Kept'
      <3>1. /\ status' = [status EXCEPT ![on[s]] = Target[kind[s]]] /\ log' = log
            /\ at[s] = "write" /\ at'[s] \in {"idle", "item", "credit", "enqueue"}
            /\ on'[s] \in {on[s], NoOrder}
            /\ Paying(s)' => Target[kind[s]] = "COMPLETED"
            /\ \A t \in Sessions : t # s => at'[t] = at[t] /\ on'[t] = on[t] /\ kind'[t] = kind[t]
        BY <2>15 DEF Write
      <3>2. CASE on[s] = x
        <4>1. log'[x] = 0 /\ status'[x] = Target[kind[s]]
          BY <3>1, <3>2
        <4> QED
          BY <3>1, <3>2, <4>1
      <3>3. CASE on[s] # x
        <4>1. status'[x] = status[x] /\ on'[s] # x
          BY <3>1, <3>3
        <4> QED
          BY <3>1, <4>1
      <3> QED
        BY <3>2, <3>3
    <2>16. ASSUME NEW s \in Sessions, ReadItem(s) PROVE Only' /\ Kept'
      BY <2>16 DEF ReadItem
    <2>17. ASSUME NEW s \in Sessions, AddCredit(s) PROVE Only' /\ Kept'
      BY <2>17 DEF AddCredit
    <2>17a. ASSUME NEW s \in Sessions, AddEntry(s) PROVE Only' /\ Kept'
      BY <2>17a DEF AddEntry
    <2>18. ASSUME NEW s \in Sessions, Enqueue(s) PROVE Only' /\ Kept'
      BY <2>18 DEF Enqueue
    <2>19. ASSUME NEW s \in Sessions, Stop(s) PROVE Only' /\ Kept'
      BY <2>19 DEF Stop
    <2>20. ASSUME NEW v \in Users, Expire(v) PROVE Only' /\ Kept'
      BY <2>20 DEF Expire
    <2>21. ASSUME NEW p \in Posts, DeletePost(p) PROVE Only' /\ Kept'
      BY <2>21 DEF DeletePost
    <2>22. CASE UNCHANGED vars
      BY <2>22 DEF vars
    <2> HIDE DEF Only, Kept, TypeOK, PhaseInv, Paying, Live, Cancelable, At, GoTo, End
    <2> QED
      BY <2>1, <2>2, <2>3, <2>4, <2>5, <2>6, <2>7, <2>8, <2>9, <2>10, <2>11, <2>12, <2>13, <2>14,
           <2>15, <2>16, <2>17, <2>17a, <2>18, <2>19, <2>20, <2>21, <2>22 DEF Next, Start, Continue
  <1> QED
    BY <1>3

-----------------------------------------------------------------------------
(* Two orders of one applicant *)

\* Only an application makes an order live that was not.
LEMMA ClaimsStep ==
  ASSUME TypeOK, PhaseInv, [Next]_vars, NEW x \in Orders, \A s \in Sessions : ~Apply(s, x)
  PROVE  Claims(x)' => Claims(x)
  <1> DEFINE Goal == Claims(x)' => Claims(x)
  <1> SUFFICES Goal
    OBVIOUS
  <1>1. Goal
    <2> USE RowsAssumption, Kinds DEF TypeOK, PhaseInv, Claims, Live, Cancelable, At, GoTo, End,
         Begin, sessionVars, creditVars, quotaVars, countVars
    <2>1. ASSUME NEW s \in Sessions, NEW o \in Orders, Apply(s, o) PROVE Goal
      <3>1. o # x
        BY <2>1
      <3> QED
        BY <2>1, <3>1 DEF Apply
    <2>2. ASSUME NEW s \in Sessions, NEW o \in Orders, NEW k \in {"approve", "reject"}, Decide(s,
         o, k) PROVE Goal
      BY <2>2 DEF Decide
    <2>3. ASSUME NEW s \in Sessions, NEW o \in Orders, Submit(s, o) PROVE Goal
      BY <2>3 DEF Submit
    <2>4. ASSUME NEW s \in Sessions, NEW o \in Orders, Accept(s, o) PROVE Goal
      BY <2>4 DEF Accept
    <2>5. ASSUME NEW s \in Sessions, NEW o \in Orders, ForceComplete(s, o) PROVE Goal
      BY <2>5 DEF ForceComplete
    <2>6. ASSUME NEW s \in Sessions, NEW o \in Orders, Claim(s, o) PROVE Goal
      BY <2>6 DEF Claim
    <2>7. ASSUME NEW s \in Sessions, NEW o \in Orders, NEW u \in Users \cup {NoUser}, Cancel(s, o,
         u) PROVE Goal
      BY <2>7 DEF Cancel
    <2>8. ASSUME NEW s \in Sessions, ReadPost(s) PROVE Goal
      BY <2>8 DEF ReadPost
    <2>9. ASSUME NEW s \in Sessions, ReadClaimed(s) PROVE Goal
      BY <2>9 DEF ReadClaimed
    <2>10. ASSUME NEW s \in Sessions, Acquire(s) PROVE Goal
      BY <2>10 DEF Acquire
    <2>11. ASSUME NEW s \in Sessions, GiveUp(s) PROVE Goal
      BY <2>11 DEF GiveUp
    <2>12. ASSUME NEW s \in Sessions, CheckQuota(s) PROVE Goal
      BY <2>12 DEF CheckQuota
    <2>13. ASSUME NEW s \in Sessions, Count(s) PROVE Goal
      BY <2>13 DEF Count
    <2>14. ASSUME NEW s \in Sessions, Release(s) PROVE Goal
      BY <2>14 DEF Release
    <2>15. ASSUME NEW s \in Sessions, Write(s) PROVE Goal
      <3>1. /\ status' = [status EXCEPT ![on[s]] = Target[kind[s]]]
            /\ at[s] = "write" /\ at'[s] \notin {"post", "write"}
            /\ \A t \in Sessions : t # s => at'[t] = at[t] /\ on'[t] = on[t] /\ kind'[t] = kind[t]
        BY <2>15 DEF Write
      <3>2. CASE on[s] = x
        <4>1. status'[x] \in Live => kind[s] \notin {"reject", "cancel"}
          BY <3>1, <3>2
        <4> QED
          BY <3>1, <3>2, <4>1
      <3>3. CASE on[s] # x
        <4>1. status'[x] = status[x]
          BY <3>1, <3>3
        <4> QED
          BY <3>1, <4>1
      <3> QED
        BY <3>2, <3>3
    <2>16. ASSUME NEW s \in Sessions, ReadItem(s) PROVE Goal
      BY <2>16 DEF ReadItem
    <2>17. ASSUME NEW s \in Sessions, AddCredit(s) PROVE Goal
      BY <2>17 DEF AddCredit
    <2>17a. ASSUME NEW s \in Sessions, AddEntry(s) PROVE Goal
      BY <2>17a DEF AddEntry
    <2>18. ASSUME NEW s \in Sessions, Enqueue(s) PROVE Goal
      BY <2>18 DEF Enqueue
    <2>19. ASSUME NEW s \in Sessions, Stop(s) PROVE Goal
      BY <2>19 DEF Stop
    <2>20. ASSUME NEW v \in Users, Expire(v) PROVE Goal
      BY <2>20 DEF Expire
    <2>21. ASSUME NEW p \in Posts, DeletePost(p) PROVE Goal
      BY <2>21 DEF DeletePost
    <2>22. CASE UNCHANGED vars
      BY <2>22 DEF vars
    <2> HIDE DEF Goal, TypeOK, PhaseInv, Claims, Live, Cancelable, At, GoTo, End, Begin
    <2> QED
      BY <2>1, <2>2, <2>3, <2>4, <2>5, <2>6, <2>7, <2>8, <2>9, <2>10, <2>11, <2>12, <2>13, <2>14,
           <2>15, <2>16, <2>17, <2>17a, <2>18, <2>19, <2>20, <2>21, <2>22 DEF Next, Start, Continue
  <1> QED
    BY <1>1

LEMMA ApplyAlone ==
  ASSUME TypeOK, PhaseInv, NEW s \in Sessions, NEW x \in Orders, NEW y \in Orders,
         Rivals(x, y), {x, y} \notin met', Apply(s, x)
  PROVE  ~Claims(y)'
  <1>1. status' = status /\ status[y] \notin Live
    BY DEF Apply, Rivals
  <1>2. SUFFICES ASSUME NEW t \in Sessions, on'[t] = y, at'[t] \in {"post", "write"}
                 PROVE  FALSE
    BY <1>1 DEF Claims
  <1>3. Begin(s, "apply", x, 0, NoUser, "write")
    BY DEF Apply
  <1>4. t # s /\ at[t] # "idle" /\ on[t] = y
    BY <1>2, <1>3 DEF Begin, TypeOK, Rivals
  <1>5. {x, on[t]} \in met'
    BY <1>3, <1>4, BeginMeets
  <1> QED
    BY <1>4, <1>5

LEMMA RivalStep ==
  ASSUME TypeOK, PhaseInv, RivalInv, [Next]_vars
  PROVE  RivalInv'
  <1> SUFFICES ASSUME NEW x \in Orders, NEW y \in Orders, Rivals(x, y), {x, y} \notin met'
               PROVE  ~(Claims(x)' /\ Claims(y)')
    BY DEF RivalInv, Rivals
  <1>1. Rivals(y, x) /\ {y, x} \notin met' /\ {x, y} \notin met
    <2>1. {y, x} = {x, y}
      OBVIOUS
    <2> QED
      BY <2>1, MetGrows DEF Rivals
  <1>2. CASE \E s \in Sessions : Apply(s, x)
    BY <1>2, ApplyAlone
  <1>3. CASE \E s \in Sessions : Apply(s, y)
    BY <1>1, <1>3, ApplyAlone
  <1>4. CASE \A s \in Sessions : ~Apply(s, x) /\ ~Apply(s, y)
    <2>1. (Claims(x)' => Claims(x)) /\ (Claims(y)' => Claims(y))
      BY <1>4, ClaimsStep
    <2> QED
      BY <1>1, <2>1 DEF RivalInv
  <1> QED
    BY <1>2, <1>3, <1>4

-----------------------------------------------------------------------------
(* Scores *)

LEMMA LogGrows ==
  ASSUME TypeOK, PhaseInv, NEW s \in Sessions, AddEntry(s), NEW v \in Users,
         IsFiniteSet(Entries(v))
  PROVE  /\ on[s] \in Orders
         /\ IsFiniteSet(Entries(v)') /\ Awards(v) \in Nat
         /\ Awards(v)' = IF v = SellerOf[on[s]] THEN Awards(v) + 1 ELSE Awards(v)
  <1> DEFINE x == on[s]
  <1>1. x \in Orders /\ log' = [log EXCEPT ![x] = log[x] + 1] /\ log[x] \in Nat
    BY DEF AddEntry, PhaseInv, TypeOK, At
  <1>2. \A e : e \in Entries(v) <=>
         \E o \in Orders : SellerOf[o] = v /\ \E i \in 1 .. log[o] : e = <<o, i>>
    BY DEF Entries
  <1>3. \A e : e \in Entries(v)' <=>
         \E o \in Orders : SellerOf[o] = v /\ \E i \in 1 .. log'[o] : e = <<o, i>>
    BY DEF Entries
  <1>4. Awards(v) \in Nat
    BY FS_CardinalityType DEF Awards
  <1> HIDE DEF x
  <1>5. CASE v # SellerOf[x]
    <2>1. \A o \in Orders : SellerOf[o] = v => log'[o] = log[o]
      BY <1>1, <1>5 DEF TypeOK
    <2>2. Entries(v)' = Entries(v)
      BY <1>2, <1>3, <2>1
    <2> QED
      BY <1>1, <1>4, <1>5, <2>2 DEF Awards, x
  <1>6. CASE v = SellerOf[x]
    <2> DEFINE e == <<x, log[x] + 1>>
    <2>1. e \notin Entries(v)
      <3> SUFFICES ASSUME e \in Entries(v) PROVE FALSE
        OBVIOUS
      <3>1. PICK o \in Orders : SellerOf[o] = v /\ \E i \in 1 .. log[o] : e = <<o, i>>
        BY <1>2
      <3> QED
        BY <1>1, <3>1
    <2>2. Entries(v)' = Entries(v) \cup {e}
      <3>1. ASSUME NEW o \in Orders
            PROVE  log'[o] = IF o = x THEN log[o] + 1 ELSE log[o]
        BY <1>1 DEF TypeOK
      <3>2. \A o \in Orders : log[o] \in Nat
        BY DEF TypeOK
      <3>3. ASSUME NEW f \in Entries(v)' PROVE f \in Entries(v) \cup {e}
        <4>1. PICK o \in Orders : SellerOf[o] = v /\ \E i \in 1 .. log'[o] : f = <<o, i>>
          BY <1>3
        <4>2. PICK i \in 1 .. log'[o] : f = <<o, i>>
          BY <4>1
        <4>3. i \in 1 .. log[o] \/ (o = x /\ i = log[x] + 1)
          BY <3>1, <3>2, <4>2
        <4> QED
          BY <1>2, <4>1, <4>2, <4>3
      <3>4. ASSUME NEW f \in Entries(v) PROVE f \in Entries(v)'
        <4>1. PICK o \in Orders : SellerOf[o] = v /\ \E i \in 1 .. log[o] : f = <<o, i>>
          BY <1>2
        <4>2. PICK i \in 1 .. log[o] : f = <<o, i>>
          BY <4>1
        <4>3. i \in 1 .. log'[o]
          BY <3>1, <3>2, <4>2
        <4> QED
          BY <1>3, <4>1, <4>2, <4>3
      <3>5. e \in Entries(v)'
        <4>1. log[x] + 1 \in 1 .. log'[x]
          BY <1>1, <3>1
        <4> QED
          BY <1>1, <1>3, <1>6, <4>1
      <3> QED
        BY <3>3, <3>4, <3>5
    <2>3. IsFiniteSet(Entries(v)') /\ Awards(v)' = Awards(v) + 1
      BY <2>1, <2>2, FS_AddElement DEF Awards
    <2> QED
      BY <1>1, <1>4, <1>6, <2>3 DEF x
  <1> QED
    BY <1>5, <1>6

\* Steps that neither award nor end an award leave the log and what is owed alone.
LEMMA OwingPlain ==
  ASSUME TypeOK, PhaseInv, [Next]_vars, NEW v \in Users,
         \A s \in Sessions : ~AddCredit(s) /\ ~AddEntry(s) /\ ~Stop(s)
  PROVE  log' = log /\ unlogged' = unlogged /\ Owing(v)' = Owing(v)
  <1> DEFINE Goal == log' = log /\ unlogged' = unlogged /\ Owing(v)' = Owing(v)
  <1> SUFFICES Goal
    OBVIOUS
  <1> USE RowsAssumption, Kinds DEF TypeOK, PhaseInv, Owing, At, GoTo, End, Begin, sessionVars,
       creditVars, quotaVars, countVars
  <1>1. ASSUME NEW s \in Sessions, NEW o \in Orders, Apply(s, o) PROVE Goal
    BY <1>1 DEF Apply
  <1>2. ASSUME NEW s \in Sessions, NEW o \in Orders, NEW k \in {"approve", "reject"},
               Decide(s, o, k) PROVE Goal
    BY <1>2 DEF Decide
  <1>3. ASSUME NEW s \in Sessions, NEW o \in Orders, Submit(s, o) PROVE Goal
    BY <1>3 DEF Submit
  <1>4. ASSUME NEW s \in Sessions, NEW o \in Orders, Accept(s, o) PROVE Goal
    BY <1>4 DEF Accept
  <1>5. ASSUME NEW s \in Sessions, NEW o \in Orders, ForceComplete(s, o) PROVE Goal
    BY <1>5 DEF ForceComplete
  <1>6. ASSUME NEW s \in Sessions, NEW o \in Orders, Claim(s, o) PROVE Goal
    BY <1>6 DEF Claim
  <1>7. ASSUME NEW s \in Sessions, NEW o \in Orders,
               NEW u \in Users \cup {NoUser},
               Cancel(s, o, u) PROVE Goal
    BY <1>7 DEF Cancel
  <1>8. ASSUME NEW s \in Sessions, ReadPost(s) PROVE Goal
    BY <1>8 DEF ReadPost
  <1>9. ASSUME NEW s \in Sessions, ReadClaimed(s) PROVE Goal
    BY <1>9 DEF ReadClaimed
  <1>10. ASSUME NEW s \in Sessions, Acquire(s) PROVE Goal
    BY <1>10 DEF Acquire
  <1>11. ASSUME NEW s \in Sessions, GiveUp(s) PROVE Goal
    BY <1>11 DEF GiveUp
  <1>12. ASSUME NEW s \in Sessions, CheckQuota(s) PROVE Goal
    BY <1>12 DEF CheckQuota
  <1>13. ASSUME NEW s \in Sessions, Count(s) PROVE Goal
    BY <1>13 DEF Count
  <1>14. ASSUME NEW s \in Sessions, Release(s) PROVE Goal
    BY <1>14 DEF Release
  <1>15. ASSUME NEW s \in Sessions, Write(s) PROVE Goal
    BY <1>15 DEF Write
  <1>16. ASSUME NEW s \in Sessions, ReadItem(s) PROVE Goal
    BY <1>16 DEF ReadItem
  <1>17. ASSUME NEW s \in Sessions, Enqueue(s) PROVE Goal
    BY <1>17 DEF Enqueue
  <1>18. ASSUME NEW w \in Users, Expire(w) PROVE Goal
    BY <1>18 DEF Expire
  <1>19. ASSUME NEW p \in Posts, DeletePost(p) PROVE Goal
    BY <1>19 DEF DeletePost
  <1>20. CASE UNCHANGED vars
    BY <1>20 DEF vars
  <1> HIDE DEF Goal, TypeOK, PhaseInv, Owing, At, GoTo, End, Begin, sessionVars, creditVars,
       quotaVars, countVars
  <1> QED
    BY <1>1, <1>2, <1>3, <1>4, <1>5, <1>6, <1>7, <1>8, <1>9, <1>10, <1>11, <1>12, <1>13, <1>14,
         <1>15, <1>16, <1>17, <1>18, <1>19, <1>20 DEF Next, Start, Continue

\* An award counts from the step that moves the score on, whatever becomes of its entry.
LEMMA TotalStep ==
  ASSUME TypeOK, PhaseInv, [Next]_vars, NEW v \in Users,
         IsFiniteSet(Entries(v)), IsFiniteSet(Owing(v))
  PROVE  /\ IsFiniteSet(Entries(v)') /\ IsFiniteSet(Owing(v)') /\ Total(v) \in Nat
         /\ (\A s \in Sessions : ~AddCredit(s)) => Total(v)' = Total(v)
         /\ \A s \in Sessions : AddCredit(s) =>
               Total(v)' = IF v = SellerOf[on[s]] THEN Total(v) + 1 ELSE Total(v)
  <1> DEFINE n == Cardinality(Owing(v))
             n1 == Cardinality(Owing(v)')
             a == Awards(v)
             a1 == Awards(v)'
             Fin == IsFiniteSet(Entries(v)') /\ IsFiniteSet(Owing(v)')
  <1>1. /\ n \in Nat /\ a \in Nat /\ unlogged[v] \in Nat
        /\ Total(v) = a + n + unlogged[v] /\ Total(v)' = a1 + n1 + unlogged'[v]
    BY FS_CardinalityType DEF Awards, TypeOK, Total
  <1>2. log' = log => IsFiniteSet(Entries(v)') /\ a1 = a
    BY DEF Entries, Awards
  <1>3. ASSUME NEW s \in Sessions, AddCredit(s)
        PROVE  Fin /\ Total(v)' = IF v = SellerOf[on[s]] THEN Total(v) + 1 ELSE Total(v)
    <2>1. /\ log' = log /\ unlogged' = unlogged /\ on' = on
          /\ at[s] = "credit" /\ at' = [at EXCEPT ![s] = "entry"]
      BY <1>3 DEF AddCredit, At, GoTo
    <2>2. CASE v = SellerOf[on[s]]
      <3>1. s \notin Owing(v) /\ Owing(v)' = Owing(v) \cup {s}
        BY <2>1, <2>2 DEF Owing, At, TypeOK
      <3>2. IsFiniteSet(Owing(v)') /\ n1 = n + 1
        BY <3>1, FS_AddElement
      <3> HIDE DEF n, n1, a, a1
      <3>3. Total(v)' = Total(v) + 1
        BY <1>1, <1>2, <2>1, <3>2
      <3> QED
        BY <1>2, <2>1, <2>2, <3>2, <3>3
    <2>3. CASE v # SellerOf[on[s]]
      <3>1. Owing(v)' = Owing(v)
        BY <2>1, <2>3 DEF Owing, At, TypeOK
      <3>2. n1 = n
        BY <3>1
      <3> HIDE DEF n, n1, a, a1
      <3>3. Total(v)' = Total(v)
        BY <1>1, <1>2, <2>1, <3>2
      <3> QED
        BY <1>2, <2>1, <2>3, <3>1, <3>3
    <2> QED
      BY <2>2, <2>3
  <1>4. ASSUME NEW s \in Sessions, AddEntry(s)
        PROVE  Fin /\ Total(v)' = Total(v)
    <2>1. /\ at[s] = "entry" /\ at'[s] = "idle" /\ unlogged' = unlogged
          /\ \A t \in Sessions : t # s => at'[t] = at[t] /\ on'[t] = on[t]
      BY <1>4 DEF AddEntry, At, End, TypeOK
    <2>2. IsFiniteSet(Entries(v)') /\ a1 = IF v = SellerOf[on[s]] THEN a + 1 ELSE a
      BY <1>4, LogGrows
    <2>3. CASE v = SellerOf[on[s]]
      <3>1. s \in Owing(v) /\ Owing(v)' = Owing(v) \ {s}
        BY <2>1, <2>3 DEF Owing, At
      <3>2. IsFiniteSet(Owing(v)') /\ n1 = n - 1
        BY <3>1, FS_RemoveElement
      <3> HIDE DEF n, n1, a, a1
      <3>3. Total(v)' = Total(v)
        BY <1>1, <2>1, <2>2, <2>3, <3>2
      <3> QED
        BY <2>2, <3>2, <3>3
    <2>4. CASE v # SellerOf[on[s]]
      <3>1. Owing(v)' = Owing(v)
        BY <2>1, <2>4 DEF Owing, At
      <3>2. n1 = n
        BY <3>1
      <3> HIDE DEF n, n1, a, a1
      <3>3. Total(v)' = Total(v)
        BY <1>1, <2>1, <2>2, <2>4, <3>2
      <3> QED
        BY <2>2, <3>1, <3>3
    <2> QED
      BY <2>3, <2>4
  <1>5. ASSUME NEW s \in Sessions, Stop(s)
        PROVE  Fin /\ Total(v)' = Total(v)
    <2>1. /\ log' = log /\ at'[s] = "idle"
          /\ unlogged'[v] = IF at[s] = "entry" /\ v = SellerOf[on[s]]
                            THEN unlogged[v] + 1 ELSE unlogged[v]
          /\ \A t \in Sessions : t # s => at'[t] = at[t] /\ on'[t] = on[t]
      BY <1>5 DEF Stop, Unlogged, At, End, TypeOK
    <2>2. CASE at[s] = "entry" /\ v = SellerOf[on[s]]
      <3>1. s \in Owing(v) /\ Owing(v)' = Owing(v) \ {s}
        BY <2>1, <2>2 DEF Owing, At
      <3>2. IsFiniteSet(Owing(v)') /\ n1 = n - 1
        BY <3>1, FS_RemoveElement
      <3> HIDE DEF n, n1, a, a1
      <3>3. Total(v)' = Total(v)
        BY <1>1, <1>2, <2>1, <2>2, <3>2
      <3> QED
        BY <1>2, <2>1, <3>2, <3>3
    <2>3. CASE ~(at[s] = "entry" /\ v = SellerOf[on[s]])
      <3>1. Owing(v)' = Owing(v)
        BY <2>1, <2>3 DEF Owing, At
      <3>2. n1 = n
        BY <3>1
      <3> HIDE DEF n, n1, a, a1
      <3>3. Total(v)' = Total(v)
        BY <1>1, <1>2, <2>1, <2>3, <3>2
      <3> QED
        BY <1>2, <2>1, <3>1, <3>3
    <2> QED
      BY <2>2, <2>3
  <1>6. ASSUME \A s \in Sessions : ~AddCredit(s) /\ ~AddEntry(s) /\ ~Stop(s)
        PROVE  Fin /\ Total(v)' = Total(v)
    <2>1. log' = log /\ unlogged' = unlogged /\ Owing(v)' = Owing(v)
      BY <1>6, OwingPlain
    <2>2. n1 = n
      BY <2>1
    <2> HIDE DEF n, n1, a, a1
    <2>3. Total(v)' = Total(v)
      BY <1>1, <1>2, <2>1, <2>2
    <2> QED
      BY <1>2, <1>6, <2>1, <2>3
  <1>7. Total(v) \in Nat
    BY <1>1
  <1>8. Fin
    BY <1>3, <1>4, <1>5, <1>6
  <1>9. (\A s \in Sessions : ~AddCredit(s)) => Total(v)' = Total(v)
    BY <1>4, <1>5, <1>6
  <1> QED
    BY <1>3, <1>7, <1>8, <1>9

LEMMA Raised ==
  ASSUME NEW n \in Nat
  PROVE  /\ Award * n \in Nat /\ Award * (n + 1) = Award * n + Award
         /\ Award * n <= Award * (n + 1)
  BY BoundsAssumption

\* Until a score is written, a completion works with the score it has read.
LEMMA ScorePlain ==
  ASSUME TypeOK, PhaseInv, [Next]_vars, \A s \in Sessions : ~AddCredit(s), NEW v \in Users,
         Quiet(v) => \A s, t \in Sessions : Serves(s, v) /\ Serves(t, v) => s = t
  PROVE  /\ credit' = credit
         /\ \A s \in Sessions : Scored(s)' /\ Serves(s, v)' =>
               base'[s] = credit[v] \/ (Scored(s) /\ Serves(s, v) /\ base'[s] = base[s])
         /\ Quiet(v)' => \A s, t \in Sessions : Serves(s, v)' /\ Serves(t, v)' => s = t
  <1> DEFINE Reads == \A s \in Sessions : Scored(s)' /\ Serves(s, v)' =>
                         base'[s] = credit[v] \/ (Scored(s) /\ Serves(s, v) /\ base'[s] = base[s])
             Single == \A s, t \in Sessions : Serves(s, v) /\ Serves(t, v) => s = t
             Goal == credit' = credit /\ Reads /\ (Quiet(v)' => Single')
  <1> SUFFICES Goal
    OBVIOUS
  <1>1. Quiet(v)' => Quiet(v) /\ Single
    BY MetGrows DEF Quiet
  <1>2. ASSUME NEW s \in Sessions, NEW o \in Orders, NEW k, NEW c, NEW u, NEW step,
               Begin(s, k, o, c, u, step), Quiet(v)', SellerOf[o] = v
        PROVE  \A t \in Sessions : t # s => ~Serves(t, v)
    <2> SUFFICES ASSUME NEW t \in Sessions, t # s, Serves(t, v)
                 PROVE  FALSE
      OBVIOUS
    <2>1. {o, on[t]} \in met' /\ on[t] \in Orders
      BY <1>2, BeginMeets DEF Serves, PhaseInv
    <2> QED
      BY <1>2, <2>1 DEF Quiet, Serves
  <1>3. Goal
    <2> USE <1>1, RowsAssumption, Kinds DEF TypeOK, PhaseInv, Scored, Serves, At, GoTo, End,
         sessionVars, creditVars, quotaVars, countVars
    <2>1. ASSUME NEW s \in Sessions, NEW o \in Orders, Apply(s, o) PROVE Goal
      <3>1. Quiet(v)' /\ SellerOf[o] = v => \A t \in Sessions : t # s => ~Serves(t, v)
        BY <2>1, <1>2 DEF Apply
      <3> QED
        BY <2>1, <3>1 DEF Apply, Begin
    <2>2. ASSUME NEW s \in Sessions, NEW o \in Orders, NEW k \in {"approve", "reject"}, Decide(s,
         o, k) PROVE Goal
      <3>1. Quiet(v)' /\ SellerOf[o] = v => \A t \in Sessions : t # s => ~Serves(t, v)
        BY <2>2, <1>2 DEF Decide
      <3> QED
        BY <2>2, <3>1 DEF Decide, Begin
    <2>3. ASSUME NEW s \in Sessions, NEW o \in Orders, Submit(s, o) PROVE Goal
      <3>1. Quiet(v)' /\ SellerOf[o] = v => \A t \in Sessions : t # s => ~Serves(t, v)
        BY <2>3, <1>2 DEF Submit
      <3> QED
        BY <2>3, <3>1 DEF Submit, Begin
    <2>4. ASSUME NEW s \in Sessions, NEW o \in Orders, Accept(s, o) PROVE Goal
      <3>1. Quiet(v)' /\ SellerOf[o] = v => \A t \in Sessions : t # s => ~Serves(t, v)
        BY <2>4, <1>2 DEF Accept
      <3> QED
        BY <2>4, <3>1 DEF Accept, Begin
    <2>5. ASSUME NEW s \in Sessions, NEW o \in Orders, ForceComplete(s, o) PROVE Goal
      <3>1. Quiet(v)' /\ SellerOf[o] = v => \A t \in Sessions : t # s => ~Serves(t, v)
        BY <2>5, <1>2 DEF ForceComplete
      <3> QED
        BY <2>5, <3>1 DEF ForceComplete, Begin
    <2>6. ASSUME NEW s \in Sessions, NEW o \in Orders, Claim(s, o) PROVE Goal
      <3>1. Quiet(v)' /\ SellerOf[o] = v => \A t \in Sessions : t # s => ~Serves(t, v)
        BY <2>6, <1>2 DEF Claim
      <3> QED
        BY <2>6, <3>1 DEF Claim, Begin
    <2>7. ASSUME NEW s \in Sessions, NEW o \in Orders, NEW u \in Users \cup {NoUser}, Cancel(s, o,
         u) PROVE Goal
      <3>1. Quiet(v)' /\ SellerOf[o] = v => \A t \in Sessions : t # s => ~Serves(t, v)
        BY <2>7, <1>2 DEF Cancel
      <3> QED
        BY <2>7, <3>1 DEF Cancel, Begin
    <2>8. ASSUME NEW s \in Sessions, ReadPost(s) PROVE Goal
      BY <2>8 DEF ReadPost
    <2>9. ASSUME NEW s \in Sessions, ReadClaimed(s) PROVE Goal
      BY <2>9 DEF ReadClaimed
    <2>10. ASSUME NEW s \in Sessions, Acquire(s) PROVE Goal
      BY <2>10 DEF Acquire
    <2>11. ASSUME NEW s \in Sessions, GiveUp(s) PROVE Goal
      BY <2>11 DEF GiveUp
    <2>12. ASSUME NEW s \in Sessions, CheckQuota(s) PROVE Goal
      BY <2>12 DEF CheckQuota
    <2>13. ASSUME NEW s \in Sessions, Count(s) PROVE Goal
      BY <2>13 DEF Count
    <2>14. ASSUME NEW s \in Sessions, Release(s) PROVE Goal
      BY <2>14 DEF Release
    <2>15. ASSUME NEW s \in Sessions, Write(s) PROVE Goal
      BY <2>15 DEF Write
    <2>16. ASSUME NEW s \in Sessions, ReadItem(s) PROVE Goal
      BY <2>16 DEF ReadItem
    <2>16a. ASSUME NEW s \in Sessions, AddEntry(s) PROVE Goal
      BY <2>16a DEF AddEntry
    <2>17. ASSUME NEW s \in Sessions, Enqueue(s) PROVE Goal
      BY <2>17 DEF Enqueue
    <2>18. ASSUME NEW s \in Sessions, Stop(s) PROVE Goal
      BY <2>18 DEF Stop
    <2>19. ASSUME NEW w \in Users, Expire(w) PROVE Goal
      BY <2>19 DEF Expire
    <2>20. ASSUME NEW p \in Posts, DeletePost(p) PROVE Goal
      BY <2>20 DEF DeletePost
    <2>21. CASE UNCHANGED vars
      BY <2>21 DEF vars
    <2> HIDE DEF Goal, Reads, Single, TypeOK, PhaseInv, Scored, Serves, At, GoTo, End
    <2> QED
      BY <2>1, <2>2, <2>3, <2>4, <2>5, <2>6, <2>7, <2>8, <2>9, <2>10, <2>11, <2>12, <2>13, <2>14,
           <2>15, <2>16, <2>16a, <2>17, <2>18, <2>19, <2>20, <2>21 DEF Next, Start, Continue
  <1> QED
    BY <1>3

LEMMA ScoreStep ==
  ASSUME TypeOK, PhaseInv, ScoreInv, [Next]_vars
  PROVE  ScoreInv'
  <1> SUFFICES ASSUME NEW v \in Users
               PROVE  /\ IsFiniteSet(Entries(v)') /\ IsFiniteSet(Owing(v)')
                      /\ credit'[v] <= Award * Total(v)'
                      /\ \A t \in Sessions : Scored(t)' /\ Serves(t, v)' =>
                            base'[t] <= Award * Total(v)'
                      /\ Quiet(v)' =>
                            /\ credit'[v] = Award * Total(v)'
                            /\ \A t \in Sessions : Scored(t)' /\ Serves(t, v)' =>
                                  base'[t] = credit'[v]
                            /\ \A t, r \in Sessions : Serves(t, v)' /\ Serves(r, v)' => t = r
    BY DEF ScoreInv
  <1> DEFINE a == Award * Total(v)
             a1 == Award * Total(v)'
  <1>1. /\ IsFiniteSet(Entries(v)) /\ IsFiniteSet(Owing(v))
        /\ credit[v] <= a
        /\ \A t \in Sessions : Scored(t) /\ Serves(t, v) => base[t] <= a
        /\ Quiet(v) =>
              /\ credit[v] = a
              /\ \A t \in Sessions : Scored(t) /\ Serves(t, v) => base[t] = credit[v]
              /\ \A t, r \in Sessions : Serves(t, v) /\ Serves(r, v) => t = r
    BY DEF ScoreInv
  <1>2. Quiet(v)' => Quiet(v)
    BY MetGrows DEF Quiet
  <1>3. /\ IsFiniteSet(Entries(v)') /\ IsFiniteSet(Owing(v)') /\ Total(v) \in Nat
        /\ (\A s \in Sessions : ~AddCredit(s)) => Total(v)' = Total(v)
        /\ \A s \in Sessions : AddCredit(s) =>
              Total(v)' = IF v = SellerOf[on[s]] THEN Total(v) + 1 ELSE Total(v)
    BY <1>1, TotalStep
  <1>4. CASE \A s \in Sessions : ~AddCredit(s)
    <2>1. /\ credit' = credit
          /\ \A t \in Sessions : Scored(t)' /\ Serves(t, v)' =>
                base'[t] = credit[v] \/ (Scored(t) /\ Serves(t, v) /\ base'[t] = base[t])
          /\ Quiet(v)' => \A t, r \in Sessions : Serves(t, v)' /\ Serves(r, v)' => t = r
      BY <1>1, <1>4, ScorePlain
    <2>2. a1 = a
      BY <1>3, <1>4
    <2> HIDE DEF a, a1
    <2>3. /\ credit'[v] <= a1
          /\ \A t \in Sessions : Scored(t)' /\ Serves(t, v)' => base'[t] <= a1
          /\ Quiet(v)' =>
                /\ credit'[v] = a1
                /\ \A t \in Sessions : Scored(t)' /\ Serves(t, v)' => base'[t] = credit'[v]
      BY <1>1, <1>2, <2>1, <2>2
    <2> QED
      BY <1>3, <2>1, <2>3 DEF a1
  <1>5. ASSUME NEW s \in Sessions, AddCredit(s)
        PROVE  /\ credit'[v] <= a1
               /\ \A t \in Sessions : Scored(t)' /\ Serves(t, v)' => base'[t] <= a1
               /\ Quiet(v)' =>
                     /\ credit'[v] = a1
                     /\ \A t \in Sessions : Scored(t)' /\ Serves(t, v)' => base'[t] = credit'[v]
                     /\ \A t, r \in Sessions : Serves(t, v)' /\ Serves(r, v)' => t = r
    <2>1. Total(v)' = IF v = SellerOf[on[s]] THEN Total(v) + 1 ELSE Total(v)
      BY <1>3, <1>5
    <2>2. /\ on[s] \in Orders /\ at[s] = "credit" /\ Scored(s) /\ Serves(s, SellerOf[on[s]])
          /\ at' = [at EXCEPT ![s] = "entry"] /\ on' = on /\ kind' = kind /\ base' = base
      BY <1>5 DEF AddCredit, At, GoTo, TypeOK, PhaseInv, Scored, Serves
    <2>3. \A t \in Sessions : /\ Serves(t, v)' <=> Serves(t, v)
                              /\ Scored(t)' => Scored(t) /\ t # s
      BY <2>2 DEF Serves, Scored, TypeOK
    <2>4. /\ credit'[v] = IF v = SellerOf[on[s]] THEN base[s] + Award ELSE credit[v]
          /\ credit[v] \in Nat /\ \A t \in Sessions : base[t] \in Nat
      BY <1>5 DEF AddCredit, TypeOK
    <2>5. CASE v = SellerOf[on[s]]
      <3>1. a \in Nat /\ a1 = a + Award /\ Award \in Nat
        BY <1>3, <2>1, <2>5, Raised, BoundsAssumption
      <3> HIDE DEF a, a1
      <3>2. base[s] <= a /\ (Quiet(v) => base[s] = a)
        BY <1>1, <2>2, <2>5
      <3>3. credit'[v] <= a1 /\ (Quiet(v)' => credit'[v] = a1)
        BY <1>2, <2>4, <2>5, <3>1, <3>2
      <3>4. ASSUME NEW t \in Sessions, Scored(t)', Serves(t, v)'
            PROVE  base'[t] <= a1
        <4>1. base'[t] = base[t] /\ base[t] <= a
          BY <1>1, <2>2, <2>3, <3>4
        <4> QED
          BY <2>4, <3>1, <4>1
      <3>5. ASSUME Quiet(v)', NEW t \in Sessions
            PROVE  ~(Scored(t)' /\ Serves(t, v)')
        BY <1>1, <1>2, <2>2, <2>3, <2>5, <3>5
      <3>6. Quiet(v)' => \A t, r \in Sessions : Serves(t, v)' /\ Serves(r, v)' => t = r
        BY <1>1, <1>2, <2>3
      <3> QED
        BY <3>3, <3>4, <3>5, <3>6
    <2>6. CASE v # SellerOf[on[s]]
      <3>1. a1 = a
        BY <2>1, <2>6
      <3> HIDE DEF a, a1
      <3> QED
        BY <1>1, <1>2, <2>2, <2>3, <2>4, <2>6, <3>1
    <2> QED
      BY <2>5, <2>6
  <1> HIDE DEF a
  <1> QED
    BY <1>3, <1>4, <1>5

-----------------------------------------------------------------------------
(* The theorems *)

LEMMA InitInv == ASSUME Init PROVE IInv
  <1>1. TypeOK /\ PhaseInv
    BY InitType
  <1>2. LockInv
    BY RowsAssumption DEF Init, LockInv
  <1>3. QuotaInv
    <2> SUFFICES ASSUME NEW u \in Users
                 PROVE  /\ IsFiniteSet(Late(u)) /\ Cardinality(Late(u)) <= overtaken
                        /\ used[u] + InTurn(u) + Cardinality(Late(u)) <= Limit + overtaken
      BY DEF QuotaInv
    <2>1. Late(u) = {}
      BY DEF Init, Late
    <2>2. InTurn(u) = 0
      BY RowsAssumption DEF Init, InTurn, Taken
    <2>3. used[u] = 0 /\ overtaken = 0
      BY DEF Init
    <2> QED
      BY <2>1, <2>2, <2>3, FS_EmptySet, BoundsAssumption
  <1>4. PaidInv
    BY RowsAssumption DEF Init, PaidInv, Paying
  <1>5. RivalInv
    BY RowsAssumption DEF Init, RivalInv, Rivals, Claims
  <1>6. ScoreInv
    <2> SUFFICES ASSUME NEW u \in Users
                 PROVE  /\ IsFiniteSet(Entries(u)) /\ IsFiniteSet(Owing(u))
                        /\ credit[u] = Award * Total(u)
      BY DEF Init, ScoreInv, Serves
    <2>1. Entries(u) = {} /\ Owing(u) = {}
      BY DEF Init, Entries, Owing, At
    <2>2. Awards(u) = 0 /\ Cardinality(Owing(u)) = 0
      BY <2>1, FS_EmptySet DEF Awards
    <2>3. credit[u] = 0 /\ unlogged[u] = 0
      BY DEF Init
    <2>4. Total(u) = 0
      BY <2>2, <2>3 DEF Total
    <2> QED
      BY <2>1, <2>3, <2>4, FS_EmptySet, BoundsAssumption
  <1>7. WrittenInv
    <2> SUFFICES ASSUME NEW u \in Users
                 PROVE  /\ IsFiniteSet(Counting(u))
                        /\ quick[u] = used[u] + Cardinality(Counting(u)) + missed[u]
      BY DEF WrittenInv
    <2>1. Counting(u) = {}
      BY DEF Init, Counting
    <2>2. quick[u] = 0 /\ used[u] = 0 /\ missed[u] = 0
      BY DEF Init
    <2> QED
      BY <2>1, <2>2, FS_EmptySet
  <1> QED
    BY <1>1, <1>2, <1>3, <1>4, <1>5, <1>6, <1>7 DEF IInv

LEMMA StepInv == ASSUME IInv, [Next]_vars PROVE IInv'
  <1>1. TypeOK' /\ PhaseInv'
    BY TypeStep, PhaseStep DEF IInv
  <1>2. LockInv'
    BY LockStep DEF IInv
  <1>3. QuotaInv'
    BY <1>1, QuotaStep DEF IInv
  <1>4. PaidInv' /\ RivalInv' /\ ScoreInv' /\ WrittenInv'
    BY PaidStep, RivalStep, ScoreStep, WrittenStep DEF IInv
  <1> QED
    BY <1>1, <1>2, <1>3, <1>4 DEF IInv

\* The strengthened invariant holds whatever the handlers and in whatever order
\* their statements come.
THEOREM Invariant == Spec => []IInv
  <1>1. Init => IInv
    BY InitInv
  <1>2. IInv /\ [Next]_vars => IInv'
    BY StepInv
  <1> QED
    BY <1>1, <1>2, PTL DEF Spec

\* The rows, the lock, the queue and what each handler knows keep their types;
\* the scores and counters never fall below zero.
THEOREM TypeCorrect == Spec => []TypeOK
  BY Invariant, PTL DEF IInv

\* An order on which no two handlers have overlapped is paid at most once, however
\* many orders, sessions and stops there are (order_service.py, worker.py).
THEOREM PaidOnceCorrect == Spec => []PaidOnce
  <1>1. IInv => PaidOnce
    BY DEF IInv, PaidInv, PaidOnce
  <1> QED
    BY <1>1, Invariant, PTL

\* Two live orders of one applicant on one post have handlers that overlapped.
THEOREM RivalsCorrect == Spec => []OneOrderUnlessMet
  <1>1. IInv => OneOrderUnlessMet
    BY DEF IInv, RivalInv, Rivals, Claims, OneOrderUnlessMet
  <1> QED
    BY <1>1, Invariant, PTL

\* The quick cancellations of a user exceed the quota by no more than the locks that
\* expired under their holders and the cancellations whose handler ended, on a deleted
\* post or stopped, before it counted them (order_service.py, cancel_order).
THEOREM QuotaCorrect == Spec => []QuotaKept
  <1>1. IInv => QuotaKept
    BY CountingBound DEF IInv, QuotaKept
  <1> QED
    BY <1>1, Invariant, PTL

\* A seller's score never exceeds what the log awards together with the awards whose
\* entry is still to come or was cut off, and equals it while no two handlers on the
\* seller's orders have overlapped (order_service.py, _add_credit).
THEOREM ScoreCorrect == Spec => []ScoreFollowsLog
  <1>1. IInv => ScoreFollowsLog
    BY DEF IInv, ScoreInv, Quiet, Total, ScoreFollowsLog
  <1> QED
    BY <1>1, Invariant, PTL
=============================================================================
