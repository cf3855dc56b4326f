---------------------------- MODULE Codes_proofs ----------------------------
(***************************************************************************)
(* What the lock of an address is good for, although it expires: guesses   *)
(* stay bounded, and without an expiry only the last code works, once.     *)
(***************************************************************************)
EXTENDS Codes, FiniteSetTheorems, TLAPS

USE DEF NoCode

\* The steps a session takes under the lock, as it believes.
InCritical(s) ==
    \/ at[s] \in {"look", "note", "discard", "consume", "free", "release"}
    \/ at[s] = "bind" /\ channel = "email"

\* The sessions whose lock expired under them.
Overrun == {s \in Sessions : InCritical(s) /\ lock # s}

LockInv ==
    /\ \A s \in Sessions : lock = s => InCritical(s)
    /\ IsFiniteSet(Overrun) /\ Cardinality(Overrun) <= overtaken

\* Codes are numbered as they are stored; what is read was stored.
NumberInv ==
    /\ code <= sent /\ tries <= MaxAttempts
    /\ \A n \in Numbers : n > sent => wrong[n] = 0 /\ used[n] = 0
    /\ \A s \in Sessions :
          /\ mine[s] <= sent
          /\ at[s] \in {"acquire", "look", "note", "discard", "bind", "consume", "free", "release"}
                => kind[s] = "verify"
          /\ at[s] = "note" => mine[s] \in Numbers /\ seen[s] < MaxAttempts

\* The wrong guesses at code n that the stored record still allows, or will
\* when the holder of the lock has written back what it has read.
Line(n) ==
    IF lock \in Sessions /\ at[lock] = "note" /\ mine[lock] = n
    THEN MaxAttempts - 1 - (IF code = n /\ tries < seen[lock] THEN tries ELSE seen[lock])
    ELSE IF code = n THEN MaxAttempts - tries ELSE 0

\* A session without its lock may guess once and write back an old count.
Looking == {s \in Overrun : at[s] = "look"}
Noting(n) == {s \in Overrun : at[s] = "note" /\ mine[s] = n}

\* w guesses made, l more in line, and what a and b such sessions may add.
Fits(w, l, a, b, late, stops) ==
    w + l + MaxAttempts * a + (MaxAttempts - 1) * b <= MaxAttempts * (1 + late) + stops

Budget ==
    \A n \in Numbers : Fits(wrong[n], Line(n), Cardinality(Looking), Cardinality(Noting(n)),
                            overtaken, stopped)
BudgetInv == Counted => Budget

\* What a session that checks has read is the last code.  A code that was accepted
\* more often than it was left behind is being deleted, or it is gone: it is
\* neither stored nor about to be written back.
Settling(s) ==
    \/ at[s] \in {"note", "discard", "consume"}
    \/ at[s] = "bind" /\ channel = "email"
Deleting(n) == channel = "email" /\ \E s \in Sessions : at[s] = "consume" /\ mine[s] = n
Gone(n) == code # n /\ \A s \in Sessions : Settling(s) => mine[s] # n
Calm == ~crossed /\ overtaken = 0
OnceInv ==
    Calm =>
        /\ code \in {NoCode, sent}
        /\ \A s \in Sessions : Settling(s) => mine[s] = sent
        /\ \A n \in Numbers :
              /\ used[n] <= 1 + unspent[n]
              /\ used[n] > unspent[n] => Deleting(n) \/ Gone(n)

IInv == TypeOK /\ LockInv /\ NumberInv /\ BudgetInv /\ OnceInv

-----------------------------------------------------------------------------
(* Types *)

LEMMA Zero == NoCode \in 0 .. MaxSent /\ 0 \in 0 .. MaxSent
  BY BoundsAssumption

LEMMA Counts ==
  ASSUME NEW f \in [Numbers -> Nat], NEW n
  PROVE  [f EXCEPT ![n] = @ + 1] \in [Numbers -> Nat]
  <1>1. CASE n \in Numbers
    <2>1. f[n] + 1 \in Nat
      BY <1>1
    <2> QED
      BY <1>1, <2>1
  <1>2. CASE n \notin Numbers
    <2>1. [f EXCEPT ![n] = @ + 1] = f
      BY <1>2
    <2> QED
      BY <2>1
  <1> QED
    BY <1>1, <1>2

LEMMA InitType == ASSUME Init PROVE TypeOK
  BY Zero DEF Init, TypeOK, Steps

LEMMA TypeStep ==
  ASSUME TypeOK, [Next]_vars
  PROVE  TypeOK'
  <1> USE Zero DEF TypeOK, At, GoTo, Begin, End, Judge, DropCode, Steps, codeVars, sessionVars,
       historyVars
  <1>1. ASSUME NEW s \in Sessions, NEW u \in Users, Send(s, u) PROVE TypeOK'
    BY <1>1 DEF Send
  <1>2. ASSUME NEW s \in Sessions, NEW u \in Users, NEW g \in 0 .. sent, Verify(s, u, g) PROVE
       TypeOK'
    <2>1. g \in 0 .. MaxSent
      BY <1>2, BoundsAssumption
    <2> QED
      BY <2>1, <1>2 DEF Verify
  <1>3. ASSUME NEW s \in Sessions, TakeRate(s) PROVE TypeOK'
    BY <1>3 DEF TakeRate
  <1>4. ASSUME NEW s \in Sessions, Store(s) PROVE TypeOK'
    <2>1. sent' \in 0 .. MaxSent /\ code' \in Numbers
      BY <1>4, BoundsAssumption DEF Store, Numbers
    <2> QED
      BY <2>1, <1>4 DEF Store
  <1>5. ASSUME NEW s \in Sessions, Mail(s) PROVE TypeOK'
    BY <1>5 DEF Mail
  <1>6. ASSUME NEW s \in Sessions, Withdraw(s) PROVE TypeOK'
    BY <1>6 DEF Withdraw
  <1>7. ASSUME NEW s \in Sessions, Acquire(s) PROVE TypeOK'
    BY <1>7 DEF Acquire
  <1>8. ASSUME NEW s \in Sessions, GiveUp(s) PROVE TypeOK'
    BY <1>8 DEF GiveUp
  <1>9. ASSUME NEW s \in Sessions, LookRefused(s) PROVE TypeOK'
    BY <1>9 DEF LookRefused
  <1>10. ASSUME NEW s \in Sessions, LookSpent(s) PROVE TypeOK'
    BY <1>10 DEF LookSpent, Numbers
  <1>11. ASSUME NEW s \in Sessions, LookWrong(s) PROVE TypeOK'
    <2>1. code \in 0 .. MaxSent
      BY DEF Numbers
    <2>2. Readable(s) => code \in Numbers
      BY DEF Readable
    <2>3. wrong' \in [Numbers -> Nat]
      BY <2>2, <1>11, Counts DEF LookWrong
    <2> QED
      BY <2>1, <2>3, <1>11 DEF LookWrong
  <1>12. ASSUME NEW s \in Sessions, LookRight(s) PROVE TypeOK'
    BY <1>12 DEF LookRight, Numbers
  <1>13. ASSUME NEW s \in Sessions, Note(s) PROVE TypeOK'
    <2>1. code' \in Numbers \cup {NoCode}
      BY <1>13 DEF Note, Numbers
    <2> QED
      BY <2>1, <1>13 DEF Note
  <1>14. ASSUME NEW s \in Sessions, Discard(s) PROVE TypeOK'
    BY <1>14 DEF Discard
  <1>15. ASSUME NEW s \in Sessions, BindEmail(s) PROVE TypeOK'
    <2>1. used' \in [Numbers -> Nat]
      BY <1>15, Counts DEF BindEmail
    <2> QED
      BY <2>1, <1>15 DEF BindEmail
  <1>16. ASSUME NEW s \in Sessions, BindPhone(s) PROVE TypeOK'
    BY <1>16 DEF BindPhone
  <1>17. ASSUME NEW s \in Sessions, Consume(s) PROVE TypeOK'
    <2>1. used' \in [Numbers -> Nat]
      BY <1>17, Counts DEF Consume, Accepted
    <2> QED
      BY <2>1, <1>17 DEF Consume
  <1>18. ASSUME NEW s \in Sessions, FreeRate(s) PROVE TypeOK'
    BY <1>18 DEF FreeRate
  <1>19. ASSUME NEW s \in Sessions, Release(s) PROVE TypeOK'
    BY <1>19 DEF Release
  <1>20. ASSUME NEW s \in Sessions, Stop(s) PROVE TypeOK'
    <2>1. unspent' \in [Numbers -> Nat]
      BY <1>20, Counts DEF Stop
    <2> QED
      BY <2>1, <1>20 DEF Stop
  <1>21. ASSUME ExpireCode PROVE TypeOK'
    BY <1>21 DEF ExpireCode
  <1>22. ASSUME ExpireRate PROVE TypeOK'
    BY <1>22 DEF ExpireRate
  <1>23. ASSUME ExpireLock PROVE TypeOK'
    BY <1>23 DEF ExpireLock
  <1>24. CASE UNCHANGED vars
    BY <1>24 DEF vars
  <1> QED
    BY <1>1, <1>2, <1>3, <1>4, <1>5, <1>6, <1>7, <1>8, <1>9, <1>10, <1>11, <1>12, <1>13, <1>14,
         <1>15, <1>16, <1>17, <1>18, <1>19, <1>20, <1>21, <1>22, <1>23, <1>24 DEF Next

-----------------------------------------------------------------------------
(* The lock *)

\* Only an expiry takes the lock from a session that still believes in it.
LEMMA LockMoves ==
  ASSUME TypeOK, LockInv, [Next]_vars, ~ExpireLock
  PROVE  /\ \A t \in Sessions : lock' = t => InCritical(t)'
         /\ Overrun' \subseteq Overrun
         /\ overtaken' = overtaken
  <1> DEFINE Held == /\ \A t \in Sessions : lock' = t => InCritical(t)'
                     /\ Overrun' \subseteq Overrun
                     /\ overtaken' = overtaken
  <1> USE NamesAssumption DEF LockInv, TypeOK, InCritical, Overrun, At, GoTo, Begin, End, Judge,
       DropCode, codeVars, sessionVars, historyVars
  <1>1. ASSUME NEW s \in Sessions, NEW u \in Users, Send(s, u) PROVE Held
    BY <1>1 DEF Send
  <1>2. ASSUME NEW s \in Sessions, NEW u \in Users, NEW g \in 0 .. sent, Verify(s, u, g) PROVE
       Held
    BY <1>2 DEF Verify
  <1>3. ASSUME NEW s \in Sessions, TakeRate(s) PROVE Held
    BY <1>3 DEF TakeRate
  <1>4. ASSUME NEW s \in Sessions, Store(s) PROVE Held
    BY <1>4 DEF Store
  <1>5. ASSUME NEW s \in Sessions, Mail(s) PROVE Held
    BY <1>5 DEF Mail
  <1>6. ASSUME NEW s \in Sessions, Withdraw(s) PROVE Held
    BY <1>6 DEF Withdraw
  <1>7. ASSUME NEW s \in Sessions, Acquire(s) PROVE Held
    BY <1>7 DEF Acquire
  <1>8. ASSUME NEW s \in Sessions, GiveUp(s) PROVE Held
    BY <1>8 DEF GiveUp
  <1>9. ASSUME NEW s \in Sessions, LookRefused(s) PROVE Held
    BY <1>9 DEF LookRefused
  <1>10. ASSUME NEW s \in Sessions, LookSpent(s) PROVE Held
    BY <1>10 DEF LookSpent
  <1>11. ASSUME NEW s \in Sessions, LookWrong(s) PROVE Held
    BY <1>11 DEF LookWrong
  <1>12. ASSUME NEW s \in Sessions, LookRight(s) PROVE Held
    BY <1>12 DEF LookRight
  <1>13. ASSUME NEW s \in Sessions, Note(s) PROVE Held
    BY <1>13 DEF Note
  <1>14. ASSUME NEW s \in Sessions, Discard(s) PROVE Held
    BY <1>14 DEF Discard
  <1>15. ASSUME NEW s \in Sessions, BindEmail(s) PROVE Held
    BY <1>15 DEF BindEmail
  <1>16. ASSUME NEW s \in Sessions, BindPhone(s) PROVE Held
    BY <1>16 DEF BindPhone
  <1>17. ASSUME NEW s \in Sessions, Consume(s) PROVE Held
    BY <1>17 DEF Consume
  <1>18. ASSUME NEW s \in Sessions, FreeRate(s) PROVE Held
    BY <1>18 DEF FreeRate
  <1>19. ASSUME NEW s \in Sessions, Release(s) PROVE Held
    BY <1>19 DEF Release
  <1>20. ASSUME NEW s \in Sessions, Stop(s) PROVE Held
    BY <1>20 DEF Stop
  <1>21. ASSUME ExpireCode PROVE Held
    BY <1>21 DEF ExpireCode
  <1>22. ASSUME ExpireRate PROVE Held
    BY <1>22 DEF ExpireRate
  <1>23. CASE UNCHANGED vars
    BY <1>23 DEF vars
  <1> QED
    BY <1>1, <1>2, <1>3, <1>4, <1>5, <1>6, <1>7, <1>8, <1>9, <1>10, <1>11, <1>12, <1>13, <1>14,
         <1>15, <1>16, <1>17, <1>18, <1>19, <1>20, <1>21, <1>22, <1>23 DEF Next

LEMMA LockStep ==
  ASSUME TypeOK, TypeOK', LockInv, [Next]_vars
  PROVE  LockInv'
  <1>1. CASE ExpireLock /\ lock # Orphan
    <2>1. lock \in Sessions /\ overtaken' = overtaken + 1 /\ lock' = Nobody
      BY <1>1, NamesAssumption DEF ExpireLock, TypeOK
    <2>2. Overrun' = Overrun \cup {lock}
      BY <1>1, <2>1, NamesAssumption DEF ExpireLock, Overrun, InCritical, LockInv, sessionVars
    <2>3. lock \notin Overrun
      BY DEF Overrun
    <2>4. IsFiniteSet(Overrun') /\ Cardinality(Overrun') = Cardinality(Overrun) + 1
      BY <2>2, <2>3, FS_AddElement DEF LockInv
    <2> QED
      BY <2>1, <2>4, FS_CardinalityType, NamesAssumption DEF LockInv, TypeOK
  <1>2. CASE ExpireLock /\ lock = Orphan
    <2>1. Overrun' = Overrun /\ overtaken' = overtaken /\ lock' = Nobody
      BY <1>2, NamesAssumption DEF ExpireLock, Overrun, InCritical, sessionVars
    <2> QED
      BY <2>1, NamesAssumption DEF LockInv
  <1>3. CASE ~ExpireLock
    <2>1. /\ \A t \in Sessions : lock' = t => InCritical(t)'
          /\ Overrun' \subseteq Overrun
          /\ overtaken' = overtaken
      BY <1>3, LockMoves
    <2>2. IsFiniteSet(Overrun') /\ Cardinality(Overrun') <= Cardinality(Overrun)
      BY <2>1, FS_Subset DEF LockInv
    <2>3. Cardinality(Overrun) \in Nat /\ Cardinality(Overrun') \in Nat
      BY <2>2, FS_CardinalityType DEF LockInv
    <2> QED
      BY <2>1, <2>2, <2>3 DEF LockInv, TypeOK
  <1> QED
    BY <1>1, <1>2, <1>3

-----------------------------------------------------------------------------
(* The numbers of the codes *)

LEMMA NumberStep ==
  ASSUME TypeOK, NumberInv, [Next]_vars
  PROVE  NumberInv'
  <1> USE DEF NumberInv, TypeOK, At, GoTo, Begin, End, Judge, DropCode, codeVars, sessionVars,
       historyVars
  <1>1. ASSUME NEW s \in Sessions, NEW u \in Users, Send(s, u) PROVE NumberInv'
    BY <1>1 DEF Send
  <1>2. ASSUME NEW s \in Sessions, NEW u \in Users, NEW g \in 0 .. sent, Verify(s, u, g) PROVE
       NumberInv'
    BY <1>2 DEF Verify
  <1>3. ASSUME NEW s \in Sessions, TakeRate(s) PROVE NumberInv'
    BY <1>3, BoundsAssumption DEF TakeRate
  <1>4. ASSUME NEW s \in Sessions, Store(s) PROVE NumberInv'
    BY <1>4, BoundsAssumption DEF Store, Numbers
  <1>5. ASSUME NEW s \in Sessions, Mail(s) PROVE NumberInv'
    BY <1>5, BoundsAssumption DEF Mail
  <1>6. ASSUME NEW s \in Sessions, Withdraw(s) PROVE NumberInv'
    BY <1>6, BoundsAssumption DEF Withdraw
  <1>7. ASSUME NEW s \in Sessions, Acquire(s) PROVE NumberInv'
    BY <1>7 DEF Acquire
  <1>8. ASSUME NEW s \in Sessions, GiveUp(s) PROVE NumberInv'
    BY <1>8, BoundsAssumption DEF GiveUp
  <1>9. ASSUME NEW s \in Sessions, LookRefused(s) PROVE NumberInv'
    BY <1>9 DEF LookRefused
  <1>10. ASSUME NEW s \in Sessions, LookSpent(s) PROVE NumberInv'
    BY <1>10 DEF LookSpent, Numbers
  <1>11. ASSUME NEW s \in Sessions, LookWrong(s) PROVE NumberInv'
    <2>1. code <= sent /\ code \in Numbers
      BY <1>11 DEF LookWrong, Readable
    <2>2. \A n \in Numbers : n > sent => wrong'[n] = 0
      BY <1>11, <2>1 DEF LookWrong, Numbers
    <2>3. CASE Counted
      <3>1. at' = [at EXCEPT ![s] = "note"] /\ mine' = [mine EXCEPT ![s] = code]
            /\ seen' = [seen EXCEPT ![s] = tries] /\ tries < MaxAttempts
        BY <1>11, <2>3 DEF LookWrong
      <3> QED
        BY <1>11, <2>1, <2>2, <3>1 DEF LookWrong, Numbers
    <2>4. CASE ~Counted
      BY <1>11, <2>2, <2>4 DEF LookWrong
    <2> QED
      BY <2>3, <2>4
  <1>12. ASSUME NEW s \in Sessions, LookRight(s) PROVE NumberInv'
    BY <1>12 DEF LookRight, Numbers
  <1>13. ASSUME NEW s \in Sessions, Note(s) PROVE NumberInv'
    <2>1. tries' <= MaxAttempts /\ code' <= sent
      BY <1>13, BoundsAssumption DEF Note
    <2>2. \A t \in Sessions : at'[t] = "note" => at[t] = "note"
      BY <1>13 DEF Note
    <2> QED
      BY <1>13, <2>1, <2>2 DEF Note
  <1>14. ASSUME NEW s \in Sessions, Discard(s) PROVE NumberInv'
    BY <1>14, BoundsAssumption DEF Discard
  <1>15. ASSUME NEW s \in Sessions, BindEmail(s) PROVE NumberInv'
    BY <1>15 DEF BindEmail
  <1>16. ASSUME NEW s \in Sessions, BindPhone(s) PROVE NumberInv'
    BY <1>16, BoundsAssumption DEF BindPhone
  <1>17. ASSUME NEW s \in Sessions, Consume(s) PROVE NumberInv'
    BY <1>17, BoundsAssumption DEF Consume, Accepted, Numbers
  <1>18. ASSUME NEW s \in Sessions, FreeRate(s) PROVE NumberInv'
    BY <1>18 DEF FreeRate
  <1>19. ASSUME NEW s \in Sessions, Release(s) PROVE NumberInv'
    BY <1>19, BoundsAssumption DEF Release
  <1>20. ASSUME NEW s \in Sessions, Stop(s) PROVE NumberInv'
    BY <1>20, BoundsAssumption DEF Stop
  <1>21. ASSUME ExpireCode PROVE NumberInv'
    BY <1>21, BoundsAssumption DEF ExpireCode
  <1>22. ASSUME ExpireRate PROVE NumberInv'
    BY <1>22 DEF ExpireRate
  <1>23. ASSUME ExpireLock PROVE NumberInv'
    BY <1>23 DEF ExpireLock
  <1>24. CASE UNCHANGED vars
    BY <1>24 DEF vars
  <1> QED
    BY <1>1, <1>2, <1>3, <1>4, <1>5, <1>6, <1>7, <1>8, <1>9, <1>10, <1>11, <1>12, <1>13, <1>14,
         <1>15, <1>16, <1>17, <1>18, <1>19, <1>20, <1>21, <1>22, <1>23, <1>24 DEF Next

-----------------------------------------------------------------------------
(* The budget of wrong guesses *)

LEMMA LineType ==
  ASSUME TypeOK, NumberInv, NEW n \in Numbers
  PROVE  Line(n) \in Nat /\ (Noting(n) # {} => MaxAttempts >= 1)
  BY BoundsAssumption DEF TypeOK, NumberInv, Line, Noting, Overrun

\* Most steps neither guess nor give a guess back.
LEMMA Eased ==
  ASSUME TypeOK, LockInv, NumberInv, NEW n \in Numbers, [Next]_vars,
         ~ExpireLock, \A s \in Sessions : ~Store(s) /\ ~LookWrong(s) /\ ~Note(s) /\ ~Stop(s)
  PROVE  /\ wrong' = wrong /\ stopped' = stopped /\ overtaken' = overtaken
         /\ Line(n)' <= Line(n)
         /\ Looking' \subseteq Looking /\ Noting(n)' \subseteq Noting(n)
  <1> DEFINE Quiet ==
        /\ wrong' = wrong /\ stopped' = stopped
        /\ code' = NoCode \/ (code' = code /\ tries' = tries)
        /\ \A t \in Sessions :
              /\ at'[t] = "note" <=> at[t] = "note"
              /\ at[t] = "note" => mine'[t] = mine[t] /\ seen'[t] = seen[t]
              /\ at'[t] = "look" => at[t] = "look" \/ lock' = t
              /\ lock' # lock /\ (lock = t \/ lock' = t) => at[t] # "note"
  <1>1. Quiet
    <2> USE DEF TypeOK, At, GoTo, Begin, End, Judge, DropCode, codeVars, sessionVars, historyVars
    <2>1. ASSUME NEW s \in Sessions, NEW u \in Users, Send(s, u) PROVE Quiet
      BY <2>1 DEF Send
    <2>2. ASSUME NEW s \in Sessions, NEW u \in Users, NEW g \in 0 .. sent, Verify(s, u, g) PROVE
         Quiet
      BY <2>2 DEF Verify
    <2>3. ASSUME NEW s \in Sessions, TakeRate(s) PROVE Quiet
      BY <2>3 DEF TakeRate
    <2>4. ASSUME NEW s \in Sessions, Mail(s) PROVE Quiet
      BY <2>4 DEF Mail
    <2>5. ASSUME NEW s \in Sessions, Withdraw(s) PROVE Quiet
      BY <2>5 DEF Withdraw
    <2>6. ASSUME NEW s \in Sessions, Acquire(s) PROVE Quiet
      BY <2>6, NamesAssumption DEF Acquire
    <2>7. ASSUME NEW s \in Sessions, GiveUp(s) PROVE Quiet
      BY <2>7 DEF GiveUp
    <2>8. ASSUME NEW s \in Sessions, LookRefused(s) PROVE Quiet
      BY <2>8 DEF LookRefused
    <2>9. ASSUME NEW s \in Sessions, LookSpent(s) PROVE Quiet
      BY <2>9 DEF LookSpent
    <2>10. ASSUME NEW s \in Sessions, LookRight(s) PROVE Quiet
      BY <2>10 DEF LookRight
    <2>11. ASSUME NEW s \in Sessions, Discard(s) PROVE Quiet
      BY <2>11 DEF Discard
    <2>12. ASSUME NEW s \in Sessions, BindEmail(s) PROVE Quiet
      BY <2>12 DEF BindEmail
    <2>13. ASSUME NEW s \in Sessions, BindPhone(s) PROVE Quiet
      BY <2>13 DEF BindPhone
    <2>14. ASSUME NEW s \in Sessions, Consume(s) PROVE Quiet
      BY <2>14 DEF Consume
    <2>15. ASSUME NEW s \in Sessions, FreeRate(s) PROVE Quiet
      BY <2>15 DEF FreeRate
    <2>16. ASSUME NEW s \in Sessions, Release(s) PROVE Quiet
      BY <2>16, NamesAssumption DEF Release
    <2>17. ASSUME ExpireCode PROVE Quiet
      BY <2>17 DEF ExpireCode
    <2>18. ASSUME ExpireRate PROVE Quiet
      BY <2>18 DEF ExpireRate
    <2>19. CASE UNCHANGED vars
      BY <2>19 DEF vars
    <2> QED
      BY <2>1, <2>2, <2>3, <2>4, <2>5, <2>6, <2>7, <2>8, <2>9, <2>10, <2>11, <2>12, <2>13, <2>14,
           <2>15, <2>16, <2>17, <2>18, <2>19 DEF Next
  <1>2. Overrun' \subseteq Overrun /\ overtaken' = overtaken
    BY LockMoves
  <1>3. Looking' \subseteq Looking /\ Noting(n)' \subseteq Noting(n)
    BY <1>1, <1>2 DEF Looking, Noting, Overrun
  <1>4. Line(n)' <= Line(n)
    <2>1. CASE lock \in Sessions /\ at[lock] = "note" /\ mine[lock] = n
      <3>1. lock' = lock /\ at'[lock] = "note" /\ mine'[lock] = n /\ seen'[lock] = seen[lock]
        BY <1>1, <2>1
      <3>2. Line(n)' = MaxAttempts - 1
                 - (IF code' = n /\ tries' < seen[lock] THEN tries' ELSE seen[lock])
        BY <2>1, <3>1 DEF Line
      <3>3. Line(n) = MaxAttempts - 1
                 - (IF code = n /\ tries < seen[lock] THEN tries ELSE seen[lock])
        BY <2>1 DEF Line
      <3> QED
        BY <1>1, <2>1, <3>2, <3>3, BoundsAssumption DEF TypeOK, Numbers
    <2>2. CASE ~(lock \in Sessions /\ at[lock] = "note" /\ mine[lock] = n)
      <3>1. ~(lock' \in Sessions /\ at'[lock'] = "note" /\ mine'[lock'] = n)
        BY <1>1, <2>2
      <3>2. Line(n) = IF code = n THEN MaxAttempts - tries ELSE 0
        BY <2>2 DEF Line
      <3>3. Line(n)' = IF code' = n THEN MaxAttempts - tries' ELSE 0
        BY <3>1 DEF Line
      <3> QED
        BY <1>1, <3>2, <3>3, BoundsAssumption DEF TypeOK, NumberInv, Numbers
    <2> QED
      BY <2>1, <2>2
  <1> QED
    BY <1>1, <1>2, <1>3, <1>4

LEMMA Rest ==
  ASSUME NEW m \in Nat, NEW a \in Nat, a <= m
  PROVE  m - a \in Nat
  OBVIOUS

LEMMA Fewer ==
  ASSUME NEW m \in Nat, NEW a \in Nat, NEW b \in Nat, a <= b
  PROVE  m * a <= m * b
  OBVIOUS

\* What fits still fits when nothing grows.
LEMMA FitsKept ==
  ASSUME NEW w \in Int, NEW l \in Int, NEW a \in Nat, NEW b \in Nat, NEW o \in Nat, NEW t \in Nat,
         NEW l1 \in Int, NEW a1 \in Nat, NEW b1 \in Nat,
         l1 <= l, a1 <= a, b1 <= b, b > 0 => MaxAttempts >= 1, Fits(w, l, a, b, o, t)
  PROVE  Fits(w, l1, a1, b1, o, t)
  <1> DEFINE m == MaxAttempts
  <1>0. m \in Nat
    BY BoundsAssumption
  <1> HIDE DEF m
  <1>1. m * a1 <= m * a /\ m * a1 \in Nat /\ m * a \in Nat
    BY <1>0, Fewer
  <1>2. (m - 1) * b1 <= (m - 1) * b /\ (m - 1) * b1 \in Int /\ (m - 1) * b \in Int
    <2>1. CASE b = 0
      BY <1>0, <2>1
    <2>2. CASE b > 0
      BY <1>0, <2>2, Fewer, m - 1 \in Nat DEF m
    <2> QED
      BY <2>1, <2>2
  <1>3. w + l + m * a + (m - 1) * b <= m * (1 + o) + t /\ m * (1 + o) \in Int
    BY <1>0 DEF Fits, m
  <1>4. w + l1 + m * a1 + (m - 1) * b1 <= m * (1 + o) + t
    BY <1>1, <1>2, <1>3
  <1> QED
    BY <1>4 DEF Fits, m

\* A new code with all its attempts, and sessions that have lost their lock.
LEMMA FitsNew ==
  ASSUME NEW a \in Nat, NEW o \in Nat, NEW t \in Nat, a <= o
  PROVE  Fits(0, MaxAttempts, a, 0, o, t)
  <1>1. MaxAttempts * a <= MaxAttempts * o /\ MaxAttempts * a \in Nat /\ MaxAttempts * o \in Nat
    BY Fewer, BoundsAssumption
  <1>2. MaxAttempts * (1 + o) = MaxAttempts + MaxAttempts * o
    BY BoundsAssumption
  <1> QED
    BY <1>1, <1>2, BoundsAssumption DEF Fits

\* A guess in line is taken from the line.
LEMMA FitsGuess ==
  ASSUME NEW w \in Int, NEW l \in Int, NEW a \in Nat, NEW b \in Nat, NEW o \in Nat, NEW t \in Nat,
         Fits(w, l, a, b, o, t)
  PROVE  Fits(w + 1, l - 1, a, b, o, t)
  BY BoundsAssumption DEF Fits

\* A session that stops may leave one more guess in line.
LEMMA FitsStop ==
  ASSUME NEW w \in Int, NEW l \in Int, NEW a \in Nat, NEW b \in Nat, NEW o \in Nat, NEW t \in Nat,
         Fits(w, l, a, b, o, t)
  PROVE  Fits(w, l + 1, a, b, o, t + 1)
  BY BoundsAssumption DEF Fits

\* A guess without the lock leaves an old count that will be written back.
LEMMA FitsBlind ==
  ASSUME NEW w \in Int, NEW l \in Int, NEW a \in Nat, NEW b \in Nat, NEW o \in Nat, NEW t \in Nat,
         NEW a1, a1 = a + 1, NEW b1, b1 = b + 1, Fits(w, l, a1, b, o, t)
  PROVE  Fits(w + 1, l, a, b1, o, t)
  <1> DEFINE m == MaxAttempts
  <1>1. m \in Nat
    BY BoundsAssumption
  <1> DEFINE x == m * a   y == (m - 1) * b   z == m * (1 + o)
  <1>2. x \in Int /\ y \in Int /\ z \in Int
    BY <1>1
  <1>3. /\ m * (a + 1) = x + m
        /\ (m - 1) * (b + 1) = y + m - 1
    BY <1>1
  <1>4. w + l + (x + m) + y <= z + t
    BY <1>1, <1>3 DEF Fits
  <1> HIDE DEF m, x, y, z
  <1>5. w + 1 + l + x + (y + m - 1) <= z + t
    BY <1>1, <1>2, <1>4
  <1> QED
    BY <1>1, <1>3, <1>5 DEF Fits, m, x, y, z

\* An old count that is written back puts its attempts in line.
LEMMA FitsBack ==
  ASSUME NEW w \in Int, NEW l \in Int, NEW a \in Nat, NEW b \in Nat, NEW o \in Nat, NEW t \in Nat,
         Fits(w, l, a, b + 1, o, t)
  PROVE  Fits(w, l + MaxAttempts - 1, a, b, o, t)
  <1> DEFINE m == MaxAttempts
  <1>1. m \in Nat
    BY BoundsAssumption
  <1> DEFINE x == m * a   y == (m - 1) * b   z == m * (1 + o)
  <1>2. x \in Int /\ y \in Int /\ z \in Int
    BY <1>1
  <1>3. (m - 1) * (b + 1) = y + m - 1
    BY <1>1
  <1>4. w + l + x + (y + m - 1) <= z + t
    BY <1>1, <1>3 DEF Fits
  <1> HIDE DEF m, x, y, z
  <1>5. w + (l + m - 1) + x + y <= z + t
    BY <1>1, <1>2, <1>4
  <1> QED
    BY <1>1, <1>3, <1>5 DEF Fits, m, x, y, z

\* A lock that expires pays for a session that is about to guess,
LEMMA FitsLateLook ==
  ASSUME NEW w \in Int, NEW l \in Int, NEW a \in Nat, NEW b \in Nat, NEW o \in Nat, NEW t \in Nat,
         NEW a1, a1 = a + 1, NEW o1, o1 = o + 1, Fits(w, l, a, b, o, t)
  PROVE  Fits(w, l, a1, b, o1, t)
  <1> DEFINE m == MaxAttempts
  <1>1. m \in Nat
    BY BoundsAssumption
  <1> DEFINE x == m * a   y == (m - 1) * b   z == m * (1 + o)
  <1>2. x \in Int /\ y \in Int /\ z \in Int
    BY <1>1
  <1>3. /\ m * (a + 1) = x + m
        /\ m * (1 + (o + 1)) = z + m
    BY <1>1
  <1>4. w + l + x + y <= z + t
    BY <1>1, <1>3 DEF Fits
  <1> HIDE DEF m, x, y, z
  <1>5. w + l + (x + m) + y <= (z + m) + t
    BY <1>1, <1>2, <1>4
  <1> QED
    BY <1>1, <1>3, <1>5 DEF Fits, m, x, y, z

\* and for one that has guessed.
LEMMA FitsLateNote ==
  ASSUME NEW w \in Int, NEW l \in Int, NEW a \in Nat, NEW b \in Nat, NEW o \in Nat, NEW t \in Nat,
         NEW b1, b1 = b + 1, NEW o1, o1 = o + 1, Fits(w, l, a, b, o, t)
  PROVE  Fits(w, l + 1, a, b1, o1, t)
  <1> DEFINE m == MaxAttempts
  <1>1. m \in Nat
    BY BoundsAssumption
  <1> DEFINE x == m * a   y == (m - 1) * b   z == m * (1 + o)
  <1>2. x \in Int /\ y \in Int /\ z \in Int
    BY <1>1
  <1>3. /\ (m - 1) * (b + 1) = y + m - 1
        /\ m * (1 + (o + 1)) = z + m
    BY <1>1
  <1>4. w + l + x + y <= z + t
    BY <1>1, <1>3 DEF Fits
  <1> HIDE DEF m, x, y, z
  <1>5. w + (l + 1) + x + (y + m - 1) <= (z + m) + t
    BY <1>1, <1>2, <1>4
  <1> QED
    BY <1>1, <1>3, <1>5 DEF Fits, m, x, y, z

LEMMA Sizes ==
  ASSUME TypeOK, LockInv, NumberInv, TypeOK', LockInv', NumberInv', NEW n \in Numbers
  PROVE  /\ IsFiniteSet(Looking) /\ IsFiniteSet(Noting(n))
         /\ IsFiniteSet(Looking') /\ IsFiniteSet(Noting(n)')
         /\ Cardinality(Looking) \in Nat /\ Cardinality(Noting(n)) \in Nat
         /\ Cardinality(Looking') \in Nat /\ Cardinality(Noting(n)') \in Nat
         /\ Line(n) \in Nat /\ Line(n)' \in Nat
         /\ Cardinality(Noting(n)) > 0 => MaxAttempts >= 1
         /\ Cardinality(Looking) <= overtaken
         /\ Cardinality(Looking') <= overtaken'
  <1>1. Looking \subseteq Overrun /\ Noting(n) \subseteq Overrun
    BY DEF Looking, Noting
  <1>2. Looking' \subseteq Overrun' /\ Noting(n)' \subseteq Overrun'
    BY DEF Looking, Noting
  <1>3. /\ IsFiniteSet(Looking) /\ IsFiniteSet(Noting(n))
        /\ Cardinality(Looking) <= Cardinality(Overrun)
    BY <1>1, FS_Subset DEF LockInv
  <1>4. /\ IsFiniteSet(Looking') /\ IsFiniteSet(Noting(n)')
        /\ Cardinality(Looking') <= Cardinality(Overrun')
    BY <1>2, FS_Subset DEF LockInv
  <1>5. /\ Cardinality(Looking) \in Nat /\ Cardinality(Noting(n)) \in Nat
        /\ Cardinality(Looking') \in Nat /\ Cardinality(Noting(n)') \in Nat
        /\ Cardinality(Overrun) \in Nat /\ Cardinality(Overrun') \in Nat
    BY <1>3, <1>4, FS_CardinalityType DEF LockInv
  <1>6. Line(n) \in Nat /\ (Noting(n) # {} => MaxAttempts >= 1)
    BY LineType
  <1>7. Line(n)' \in Nat
    <2>1. CASE lock' \in Sessions /\ at'[lock'] = "note" /\ mine'[lock'] = n
      <3>1. seen'[lock'] \in Nat /\ seen'[lock'] < MaxAttempts /\ tries' \in Nat
        BY <2>1 DEF TypeOK, NumberInv
      <3> QED
        BY <2>1, <3>1, BoundsAssumption DEF Line
    <2>2. CASE ~(lock' \in Sessions /\ at'[lock'] = "note" /\ mine'[lock'] = n)
      <3>1. tries' \in Nat /\ tries' <= MaxAttempts /\ MaxAttempts \in Nat
        BY BoundsAssumption DEF TypeOK, NumberInv
      <3>2. Line(n)' = IF code' = n THEN MaxAttempts - tries' ELSE 0
        BY <2>2 DEF Line
      <3>3. MaxAttempts - tries' \in Nat
        BY <3>1, Rest
      <3> QED
        BY <3>2, <3>3
    <2> QED
      BY <2>1, <2>2
  <1>8. Cardinality(Noting(n)) > 0 => Noting(n) # {}
    BY FS_EmptySet
  <1> QED
    BY <1>3, <1>4, <1>5, <1>6, <1>7, <1>8 DEF LockInv, TypeOK

LEMMA BudgetKept ==
  ASSUME TypeOK, LockInv, NumberInv, TypeOK', LockInv', NumberInv', Budget, NEW n \in Numbers,
         wrong'[n] = wrong[n], stopped' = stopped, overtaken' = overtaken,
         Line(n)' <= Line(n), Looking' \subseteq Looking, Noting(n)' \subseteq Noting(n)
  PROVE  Fits(wrong'[n], Line(n)', Cardinality(Looking'), Cardinality(Noting(n)'),
              overtaken', stopped')
  <1>1. /\ Cardinality(Looking') <= Cardinality(Looking)
        /\ Cardinality(Noting(n)') <= Cardinality(Noting(n))
    BY Sizes, FS_Subset
  <1>2. wrong[n] \in Nat /\ stopped \in Nat /\ overtaken \in Nat
    BY DEF TypeOK
  <1> DEFINE w == wrong[n]  l == Line(n)  l1 == Line(n)'
             a == Cardinality(Looking)   b == Cardinality(Noting(n))
             a1 == Cardinality(Looking')   b1 == Cardinality(Noting(n)')
  <1>3. /\ w \in Int /\ l \in Int /\ l1 \in Int /\ l1 <= l
        /\ a \in Nat /\ b \in Nat /\ a1 \in Nat /\ b1 \in Nat /\ a1 <= a /\ b1 <= b
        /\ b > 0 => MaxAttempts >= 1
    BY <1>1, <1>2, Sizes
  <1>4. Fits(w, l, a, b, overtaken, stopped)
    BY DEF Budget
  <1> HIDE DEF w, l, l1, a, b, a1, b1
  <1>5. Fits(w, l1, a1, b1, overtaken, stopped)
    BY <1>2, <1>3, <1>4, FitsKept
  <1> QED
    BY <1>5 DEF w, l1, a1, b1

\* A code is stored: nobody has guessed at it or read it yet.
LEMMA BudgetStore ==
  ASSUME TypeOK, LockInv, NumberInv, TypeOK', LockInv', NumberInv', Budget, [Next]_vars,
         NEW s \in Sessions, Store(s)
  PROVE  Budget'
  <1> SUFFICES ASSUME NEW n \in Numbers
               PROVE  Fits(wrong'[n], Line(n)', Cardinality(Looking'), Cardinality(Noting(n)'),
                           overtaken', stopped')
    BY DEF Budget
  <1>1. /\ wrong' = wrong /\ stopped' = stopped /\ lock' = lock /\ mine' = mine /\ seen' = seen
        /\ code' = sent + 1 /\ tries' = 0
        /\ \A t \in Sessions : /\ at'[t] = "note" <=> at[t] = "note"
                               /\ at'[t] = "look" <=> at[t] = "look"
    BY DEF Store, GoTo, At, TypeOK
  <1>2. Overrun' \subseteq Overrun /\ overtaken' = overtaken
    <2>1. ~ExpireLock
      BY DEF Store, ExpireLock, At, GoTo, TypeOK, sessionVars
    <2> QED
      BY <2>1, LockMoves
  <1>3. Looking' \subseteq Looking /\ Noting(n)' \subseteq Noting(n)
    BY <1>1, <1>2 DEF Looking, Noting, Overrun
  <1>4. CASE n # sent + 1
    <2>1. Line(n)' <= Line(n)
      <3>1. CASE lock \in Sessions /\ at[lock] = "note" /\ mine[lock] = n
        <4>1. Line(n)' = MaxAttempts - 1 - seen[lock]
          BY <1>1, <1>4, <3>1 DEF Line
        <4>2. Line(n) = MaxAttempts - 1
                   - (IF code = n /\ tries < seen[lock] THEN tries ELSE seen[lock])
          BY <3>1 DEF Line
        <4> QED
          BY <4>1, <4>2, <3>1, BoundsAssumption DEF TypeOK
      <3>2. CASE ~(lock \in Sessions /\ at[lock] = "note" /\ mine[lock] = n)
        <4>1. Line(n)' = 0
          BY <1>1, <1>4, <3>2 DEF Line
        <4> QED
          BY <4>1, LineType
      <3> QED
        BY <3>1, <3>2
    <2> QED
      BY <1>1, <1>2, <1>3, <2>1, BudgetKept
  <1>5. CASE n = sent + 1
    <2>1. /\ wrong'[n] = 0
          /\ \A t \in Sessions : at[t] = "note" => mine[t] # n
      BY <1>1, <1>5 DEF NumberInv, TypeOK
    <2>2. Noting(n)' = {}
      BY <1>1, <2>1 DEF Noting, Overrun
    <2>3. Line(n)' = MaxAttempts
      BY <1>1, <1>5, <2>1, BoundsAssumption DEF Line
    <2>4. Cardinality(Noting(n)') = 0
      BY <2>2, FS_EmptySet
    <2> DEFINE a == Cardinality(Looking')
    <2>5. a \in Nat /\ a <= overtaken' /\ overtaken' \in Nat /\ stopped' \in Nat
      BY Sizes DEF TypeOK
    <2> HIDE DEF a
    <2>6. Fits(0, MaxAttempts, a, 0, overtaken', stopped')
      BY <2>5, FitsNew
    <2> QED
      BY <2>1, <2>3, <2>4, <2>6 DEF a
  <1> QED
    BY <1>4, <1>5

\* The record read is written back, in line or late.
LEMMA BudgetNote ==
  ASSUME TypeOK, LockInv, NumberInv, TypeOK', LockInv', NumberInv', Budget, [Next]_vars,
         NEW s \in Sessions, Note(s)
  PROVE  Budget'
  <1> SUFFICES ASSUME NEW n \in Numbers
               PROVE  Fits(wrong'[n], Line(n)', Cardinality(Looking'), Cardinality(Noting(n)'),
                           overtaken', stopped')
    BY DEF Budget
  <1>1. /\ wrong' = wrong /\ stopped' = stopped /\ lock' = lock /\ mine' = mine /\ seen' = seen
        /\ code' = mine[s] /\ tries' = seen[s] + 1 /\ at[s] = "note"
        /\ at' = [at EXCEPT ![s] = "release"]
    BY DEF Note, GoTo, At, historyVars
  <1>2. Overrun' \subseteq Overrun /\ overtaken' = overtaken
    <2>1. ~ExpireLock
      BY <1>1 DEF ExpireLock, TypeOK, sessionVars
    <2> QED
      BY <2>1, LockMoves
  <1>3. Looking' \subseteq Looking /\ Noting(n)' \subseteq Noting(n)
    BY <1>1, <1>2 DEF Looking, Noting, Overrun, TypeOK
  <1>4. seen[s] \in Nat /\ seen[s] < MaxAttempts /\ mine[s] \in Numbers
    BY <1>1 DEF NumberInv, TypeOK
  <1>5. CASE lock = s \/ mine[s] # n
    <2>1. Line(n)' <= Line(n)
      <3>1. CASE lock = s
        <4>1. Line(n)' = IF mine[s] = n THEN MaxAttempts - (seen[s] + 1) ELSE 0
          BY <1>1, <3>1 DEF Line, TypeOK
        <4>2. CASE mine[s] = n
          <5>1. Line(n) = MaxAttempts - 1
                     - (IF code = n /\ tries < seen[s] THEN tries ELSE seen[s])
            BY <1>1, <3>1, <4>2 DEF Line
          <5> QED
            BY <4>1, <4>2, <5>1, <1>4, BoundsAssumption DEF TypeOK
        <4>3. CASE mine[s] # n
          BY <4>1, <4>3, LineType
        <4> QED
          BY <4>2, <4>3
      <3>2. CASE lock # s /\ mine[s] # n
        <4>1. CASE lock \in Sessions /\ at[lock] = "note" /\ mine[lock] = n
          <5>1. Line(n)' = MaxAttempts - 1 - seen[lock]
            BY <1>1, <3>2, <4>1 DEF Line, TypeOK
          <5>2. Line(n) = MaxAttempts - 1
                     - (IF code = n /\ tries < seen[lock] THEN tries ELSE seen[lock])
            BY <4>1 DEF Line
          <5> QED
            BY <5>1, <5>2, <4>1, BoundsAssumption DEF TypeOK
        <4>2. CASE ~(lock \in Sessions /\ at[lock] = "note" /\ mine[lock] = n)
          <5>1. Line(n)' = 0
            BY <1>1, <3>2, <4>2 DEF Line, TypeOK
          <5> QED
            BY <5>1, LineType
        <4> QED
          BY <4>1, <4>2
      <3> QED
        BY <1>5, <3>1, <3>2
    <2> QED
      BY <1>1, <1>2, <1>3, <2>1, BudgetKept
  <1>6. CASE lock # s /\ mine[s] = n
    <2>1. s \in Noting(n) /\ Noting(n)' \subseteq Noting(n) \ {s}
      BY <1>1, <1>3, <1>6 DEF Noting, Overrun, InCritical, TypeOK
    <2> DEFINE w == wrong[n]  l == Line(n)  l1 == Line(n)'
               a == Cardinality(Looking)   b == Cardinality(Noting(n) \ {s})
               a1 == Cardinality(Looking')   b1 == Cardinality(Noting(n)')
    <2>2. IsFiniteSet(Noting(n) \ {s}) /\ b + 1 = Cardinality(Noting(n)) /\ b \in Nat
      <3>1. IsFiniteSet(Noting(n)) /\ Cardinality(Noting(n)) \in Nat
        BY Sizes
      <3>2. IsFiniteSet(Noting(n) \ {s}) /\ b = Cardinality(Noting(n)) - 1
        BY <2>1, <3>1, FS_RemoveElement
      <3>3. b \in Nat
        BY <3>2, FS_CardinalityType
      <3> QED
        BY <3>1, <3>2, <3>3
    <2>3. b1 <= b /\ a1 <= a
      BY <1>3, <2>1, <2>2, Sizes, FS_Subset
    <2>4. l1 <= MaxAttempts - 1
      <3>1. CASE lock \in Sessions /\ at[lock] = "note" /\ mine[lock] = n
        <4>1. l1 = MaxAttempts - 1
                 - (IF tries' < seen[lock] THEN tries' ELSE seen[lock])
          BY <1>1, <1>6, <3>1 DEF Line, TypeOK
        <4> QED
          BY <4>1, <1>1, <1>4, <3>1, BoundsAssumption DEF TypeOK
      <3>2. CASE ~(lock \in Sessions /\ at[lock] = "note" /\ mine[lock] = n)
        <4>1. l1 = MaxAttempts - (seen[s] + 1)
          BY <1>1, <1>6, <3>2 DEF Line, TypeOK
        <4> QED
          BY <4>1, <1>4, BoundsAssumption
      <3> QED
        BY <3>1, <3>2
    <2>5. /\ w \in Int /\ l \in Int /\ l >= 0 /\ l1 \in Int /\ l + MaxAttempts - 1 \in Int
          /\ a \in Nat /\ a1 \in Nat /\ b1 \in Nat /\ b \in Nat
          /\ overtaken \in Nat /\ stopped \in Nat /\ MaxAttempts >= 1
      BY <2>1, <2>2, Sizes, LineType, BoundsAssumption DEF TypeOK
    <2>6. Fits(w, l, a, b + 1, overtaken, stopped)
      BY <2>2 DEF Budget
    <2>7. l1 <= l + MaxAttempts - 1
      BY <2>4, <2>5, BoundsAssumption
    <2> HIDE DEF w, l, l1, a, b, a1, b1
    <2>8. Fits(w, l + MaxAttempts - 1, a, b, overtaken, stopped)
      BY <2>5, <2>6, FitsBack
    <2>9. Fits(w, l1, a1, b1, overtaken, stopped)
      BY <2>3, <2>5, <2>7, <2>8, FitsKept
    <2> QED
      BY <1>1, <1>2, <2>9 DEF w, l1, a1, b1
  <1> QED
    BY <1>5, <1>6

\* A wrong guess is compared before it is counted.
LEMMA BudgetGuess ==
  ASSUME TypeOK, LockInv, NumberInv, TypeOK', LockInv', NumberInv', Budget, [Next]_vars,
         Counted, NEW s \in Sessions, LookWrong(s)
  PROVE  Budget'
  <1> SUFFICES ASSUME NEW n \in Numbers
               PROVE  Fits(wrong'[n], Line(n)', Cardinality(Looking'), Cardinality(Noting(n)'),
                           overtaken', stopped')
    BY DEF Budget
  <1>1. /\ stopped' = stopped /\ lock' = lock /\ code' = code /\ tries' = tries /\ at[s] = "look"
        /\ code \in Numbers
        /\ \A t \in Sessions : t # s => at'[t] = at[t] /\ mine'[t] = mine[t] /\ seen'[t] = seen[t]
        /\ at'[s] \in {"note", "release"}
        /\ at'[s] = "note" => mine'[s] = code /\ seen'[s] = tries
        /\ wrong' = IF at'[s] = "note" THEN [wrong EXCEPT ![code] = @ + 1] ELSE wrong
    BY DEF LookWrong, Readable, GoTo, Judge, At, TypeOK, codeVars
  <1>2. Overrun' \subseteq Overrun /\ overtaken' = overtaken
    <2>1. ~ExpireLock
      BY <1>1 DEF ExpireLock, TypeOK, sessionVars
    <2> QED
      BY <2>1, LockMoves
  <1>3. Looking' \subseteq Looking
    BY <1>1, <1>2 DEF Looking, Overrun, TypeOK
  <1>4. CASE at'[s] = "release" \/ code # n
    <2>1. wrong'[n] = wrong[n]
      BY <1>1, <1>4 DEF TypeOK
    <2>2. Noting(n)' \subseteq Noting(n)
      BY <1>1, <1>2, <1>4 DEF Noting, Overrun
    <2>3. Line(n)' <= Line(n)
      <3>1. CASE lock = s
        <4>1. Line(n) = IF code = n THEN MaxAttempts - tries ELSE 0
          BY <1>1, <3>1 DEF Line
        <4>2. Line(n)' = IF code = n THEN MaxAttempts - tries ELSE 0
          BY <1>1, <1>4, <3>1 DEF Line
        <4> QED
          BY <4>1, <4>2, BoundsAssumption DEF TypeOK
      <3>2. CASE lock # s
        <4>1. Line(n)' = Line(n)
          BY <1>1, <3>2 DEF Line
        <4> QED
          BY <4>1, LineType
      <3> QED
        BY <3>1, <3>2
    <2> QED
      BY <1>1, <1>2, <1>3, <2>1, <2>2, <2>3, BudgetKept
  <1>5. CASE at'[s] = "note" /\ code = n
    <2> DEFINE w == wrong[n]  l == Line(n)  l1 == Line(n)'
               a == Cardinality(Looking)   b == Cardinality(Noting(n))
               a1 == Cardinality(Looking')   b1 == Cardinality(Noting(n)')
    <2>1. wrong'[n] = w + 1
      BY <1>1, <1>5 DEF TypeOK
    <2>2. /\ w \in Int /\ l \in Int /\ l - 1 \in Int /\ l1 \in Int /\ w + 1 \in Int
          /\ a \in Nat /\ b \in Nat /\ a1 \in Nat /\ b1 \in Nat
          /\ overtaken \in Nat /\ stopped \in Nat
          /\ IsFiniteSet(Looking) /\ IsFiniteSet(Noting(n))
      BY Sizes DEF TypeOK
    <2>3. Fits(w, l, a, b, overtaken, stopped)
      BY DEF Budget
    <2>4. b > 0 => MaxAttempts >= 1
      BY Sizes
    <2>5. CASE lock = s
      <3>1. Noting(n)' \subseteq Noting(n)
        BY <1>1, <1>2, <2>5 DEF Noting, Overrun
      <3>2. a1 <= a /\ b1 <= b
        BY <1>3, <2>2, <3>1, FS_Subset
      <3>3. l = MaxAttempts - tries /\ l1 = MaxAttempts - 1 - tries
        BY <1>1, <1>5, <2>5 DEF Line
      <3>4. l1 <= l - 1
        BY <3>3, BoundsAssumption DEF TypeOK
      <3> HIDE DEF w, l, l1, a, b, a1, b1
      <3>5. Fits(w + 1, l - 1, a, b, overtaken, stopped)
        BY <2>2, <2>3, FitsGuess
      <3>6. Fits(w + 1, l1, a1, b1, overtaken, stopped)
        BY <2>2, <2>4, <3>2, <3>4, <3>5, FitsKept
      <3> QED
        BY <1>1, <1>2, <2>1, <3>6 DEF l1, a1, b1
    <2>6. CASE lock # s
      <3>1. s \in Looking /\ Looking' \subseteq Looking \ {s}
        BY <1>1, <1>3, <1>5, <2>6 DEF Looking, Overrun, InCritical, TypeOK
      <3>2. Noting(n)' \subseteq Noting(n) \cup {s} /\ s \notin Noting(n)
        BY <1>1, <1>2 DEF Noting, Overrun
      <3> DEFINE d == Cardinality(Looking \ {s})  e == Cardinality(Noting(n) \cup {s})
      <3>3. IsFiniteSet(Looking \ {s}) /\ d = a - 1
        BY <2>2, <3>1, FS_RemoveElement
      <3>4. IsFiniteSet(Noting(n) \cup {s}) /\ e = b + 1
        BY <2>2, <3>2, FS_AddElement
      <3>5. d \in Nat /\ e \in Nat /\ a = d + 1
        BY <2>2, <3>3, <3>4, FS_CardinalityType
      <3>6. a1 <= d /\ b1 <= e
        BY <3>1, <3>2, <3>3, <3>4, FS_Subset
      <3>7. l1 = l
        <4>1. lock \in Sessions => at'[lock] = at[lock] /\ mine'[lock] = mine[lock]
                                      /\ seen'[lock] = seen[lock]
          BY <1>1, <2>6
        <4> QED
          BY <1>1, <4>1 DEF Line
      <3>8. MaxAttempts >= 1
        BY <1>1, <1>5, BoundsAssumption DEF NumberInv, TypeOK
      <3> HIDE DEF w, l, l1, a, b, a1, b1, d, e
      <3>9. Fits(w + 1, l, d, e, overtaken, stopped)
        BY <2>2, <2>3, <3>4, <3>5, FitsBlind
      <3>10. Fits(w + 1, l1, a1, b1, overtaken, stopped)
        <4>1. /\ w + 1 \in Int /\ l \in Int /\ l1 \in Int /\ l1 <= l
              /\ d \in Nat /\ e \in Nat /\ a1 \in Nat /\ b1 \in Nat
              /\ overtaken \in Nat /\ stopped \in Nat
          BY <2>2, <3>5, <3>7
        <4> QED
          BY <4>1, <3>6, <3>8, <3>9, FitsKept
      <3> QED
        BY <1>1, <1>2, <2>1, <3>10 DEF l1, a1, b1
    <2> QED
      BY <2>5, <2>6
  <1> QED
    BY <1>1, <1>4, <1>5

\* The lock expires: the session that held it is one guess and one write late.
LEMMA BudgetExpire ==
  ASSUME TypeOK, LockInv, NumberInv, TypeOK', LockInv', NumberInv', Budget, ExpireLock
  PROVE  Budget'
  <1> SUFFICES ASSUME NEW n \in Numbers
               PROVE  Fits(wrong'[n], Line(n)', Cardinality(Looking'), Cardinality(Noting(n)'),
                           overtaken', stopped')
    BY DEF Budget
  <1>1. /\ wrong' = wrong /\ stopped' = stopped /\ lock' = Nobody
        /\ code' = code /\ tries' = tries /\ at' = at /\ mine' = mine /\ seen' = seen
        /\ channel' = channel /\ Nobody \notin Sessions /\ Orphan \notin Sessions
        /\ lock = Orphan => overtaken' = overtaken
        /\ lock # Orphan => overtaken' = overtaken + 1 /\ lock \in Sessions
    BY NamesAssumption DEF ExpireLock, TypeOK, sessionVars, codeVars
  <1> DEFINE w == wrong[n]  l == Line(n)  l1 == Line(n)'
             a == Cardinality(Looking)   b == Cardinality(Noting(n))
             a1 == Cardinality(Looking')   b1 == Cardinality(Noting(n)')
  <1>2. /\ w \in Int /\ l \in Int /\ l1 \in Int /\ l + 1 \in Int
        /\ a \in Nat /\ b \in Nat /\ a1 \in Nat /\ b1 \in Nat
        /\ overtaken \in Nat /\ stopped \in Nat /\ overtaken + 1 \in Nat
        /\ IsFiniteSet(Looking) /\ IsFiniteSet(Noting(n))
        /\ l >= 0
        /\ b > 0 => MaxAttempts >= 1
    BY Sizes DEF TypeOK
  <1>3. Fits(w, l, a, b, overtaken, stopped)
    BY DEF Budget
  <1>4. l1 = IF code = n THEN MaxAttempts - tries ELSE 0
    BY <1>1 DEF Line
  <1>5. CASE lock = Orphan
    <2>1. Overrun' = Overrun
      BY <1>1, <1>5 DEF Overrun, InCritical
    <2>2. Looking' \subseteq Looking /\ Noting(n)' \subseteq Noting(n)
      BY <1>1, <2>1 DEF Looking, Noting
    <2>3. l1 <= l
      BY <1>1, <1>2, <1>4, <1>5 DEF Line
    <2> QED
      BY <1>1, <1>5, <2>2, <2>3, BudgetKept
  <1>6. CASE lock # Orphan
    <2>1. Overrun' = Overrun \cup {lock} /\ lock \notin Overrun
      BY <1>1, <1>6 DEF Overrun, InCritical, LockInv
    <2>2. CASE at[lock] = "note" /\ mine[lock] = n
      <3>1. Looking' = Looking
        BY <1>1, <2>1, <2>2 DEF Looking
      <3>2. Noting(n)' = Noting(n) \cup {lock} /\ lock \notin Noting(n)
        BY <1>1, <2>1, <2>2 DEF Noting
      <3>3. b1 = b + 1 /\ a1 = a
        BY <1>2, <3>1, <3>2, FS_AddElement
      <3>4. l1 <= l + 1
        <4>1. l = MaxAttempts - 1
                 - (IF code = n /\ tries < seen[lock] THEN tries ELSE seen[lock])
          BY <1>1, <1>6, <2>2 DEF Line
        <4>2. seen[lock] \in Nat /\ tries \in Nat /\ MaxAttempts \in Nat
          BY <1>1, <1>6, BoundsAssumption DEF TypeOK
        <4> QED
          BY <1>2, <1>4, <4>1, <4>2
      <3>5. MaxAttempts >= 1
        BY <1>1, <1>6, <2>2, BoundsAssumption DEF NumberInv, TypeOK
      <3> HIDE DEF w, l, l1, a, b, a1, b1
      <3>6. Fits(w, l + 1, a, b1, overtaken', stopped)
        BY <1>1, <1>2, <1>3, <1>6, <3>3, FitsLateNote
      <3>7. Fits(w, l1, a1, b1, overtaken', stopped)
        <4>1. /\ w \in Int /\ l1 \in Int /\ l + 1 \in Int
              /\ a \in Nat /\ a1 \in Nat /\ b1 \in Nat /\ a1 <= a /\ b1 <= b1
              /\ overtaken' \in Nat /\ stopped \in Nat
          BY <1>1, <1>2, <1>6, <3>3
        <4> QED
          BY <3>4, <3>5, <3>6, <4>1, FitsKept
      <3> QED
        BY <1>1, <3>7 DEF w, l1, a1, b1
    <2>3. CASE ~(at[lock] = "note" /\ mine[lock] = n)
      <3>1. Noting(n)' = Noting(n)
        BY <1>1, <2>1, <2>3 DEF Noting
      <3>2. Looking' \subseteq Looking \cup {lock} /\ lock \notin Looking
        BY <1>1, <2>1 DEF Looking
      <3> DEFINE d == Cardinality(Looking \cup {lock})
      <3>3. IsFiniteSet(Looking \cup {lock}) /\ d = a + 1 /\ d \in Nat
        BY <1>2, <3>2, FS_AddElement
      <3>4. a1 <= d /\ b1 = b
        BY <3>1, <3>2, <3>3, FS_Subset
      <3>5. l1 = l
        BY <1>4, <2>3 DEF Line
      <3> HIDE DEF w, l, l1, a, b, a1, b1, d
      <3>6. Fits(w, l, d, b, overtaken', stopped)
        BY <1>1, <1>2, <1>3, <1>6, <3>3, FitsLateLook
      <3>7. Fits(w, l1, a1, b1, overtaken', stopped)
        <4>1. /\ w \in Int /\ l1 \in Int /\ l \in Int /\ l1 <= l
              /\ d \in Nat /\ a1 \in Nat /\ b \in Nat /\ b1 \in Nat /\ b1 <= b
              /\ overtaken' \in Nat /\ stopped \in Nat
              /\ b > 0 => MaxAttempts >= 1
          BY <1>1, <1>2, <1>6, <3>3, <3>4, <3>5
        <4> QED
          BY <3>4, <3>6, <4>1, FitsKept
      <3> QED
        BY <1>1, <3>7 DEF w, l1, a1, b1
    <2> QED
      BY <2>2, <2>3
  <1> QED
    BY <1>5, <1>6

\* A session that ends before it has counted its guess leaves one to spare.
LEMMA BudgetStop ==
  ASSUME TypeOK, LockInv, NumberInv, TypeOK', LockInv', NumberInv', Budget, [Next]_vars,
         NEW s \in Sessions, Stop(s)
  PROVE  Budget'
  <1> SUFFICES ASSUME NEW n \in Numbers
               PROVE  Fits(wrong'[n], Line(n)', Cardinality(Looking'), Cardinality(Noting(n)'),
                           overtaken', stopped')
    BY DEF Budget
  <1>1. /\ wrong' = wrong /\ stopped' = stopped + 1
        /\ code' = code /\ tries' = tries /\ overtaken' = overtaken
        /\ at' = [at EXCEPT ![s] = "idle"]
        /\ \A t \in Sessions : t # s => mine'[t] = mine[t] /\ seen'[t] = seen[t]
        /\ lock' = IF lock = s THEN Orphan ELSE lock
        /\ Orphan \notin Sessions
    BY NamesAssumption DEF Stop, End, TypeOK, codeVars
  <1>2. Overrun' \subseteq Overrun
    <2>1. ~ExpireLock
      BY <1>1 DEF ExpireLock, TypeOK
    <2> QED
      BY <2>1, LockMoves
  <1>3. Looking' \subseteq Looking /\ Noting(n)' \subseteq Noting(n)
    BY <1>1, <1>2 DEF Looking, Noting, Overrun, TypeOK
  <1> DEFINE w == wrong[n]  l == Line(n)  l1 == Line(n)'
             a == Cardinality(Looking)   b == Cardinality(Noting(n))
             a1 == Cardinality(Looking')   b1 == Cardinality(Noting(n)')
  <1>4. /\ w \in Int /\ l \in Int /\ l1 \in Int /\ l + 1 \in Int
        /\ a \in Nat /\ b \in Nat /\ a1 \in Nat /\ b1 \in Nat
        /\ overtaken \in Nat /\ stopped \in Nat /\ stopped + 1 \in Nat
        /\ l >= 0
        /\ b > 0 => MaxAttempts >= 1
    BY Sizes DEF TypeOK
  <1>5. a1 <= a /\ b1 <= b
    BY <1>3, Sizes, FS_Subset
  <1>6. Fits(w, l, a, b, overtaken, stopped)
    BY DEF Budget
  <1>7. l1 <= l + 1
    <2>1. CASE lock = s
      <3>1. l1 = IF code = n THEN MaxAttempts - tries ELSE 0
        BY <1>1, <2>1 DEF Line
      <3>2. CASE at[s] = "note" /\ mine[s] = n
        <4>1. l = MaxAttempts - 1
                 - (IF code = n /\ tries < seen[s] THEN tries ELSE seen[s])
          BY <2>1, <3>2 DEF Line
        <4>2. seen[s] \in Nat /\ tries \in Nat /\ MaxAttempts \in Nat
          BY BoundsAssumption DEF TypeOK
        <4> QED
          BY <1>4, <3>1, <4>1, <4>2
      <3>3. CASE ~(at[s] = "note" /\ mine[s] = n)
        <4>1. l = IF code = n THEN MaxAttempts - tries ELSE 0
          BY <2>1, <3>3 DEF Line
        <4> QED
          BY <1>4, <3>1, <4>1
      <3> QED
        BY <3>2, <3>3
    <2>2. CASE lock # s
      <3>1. l1 = l
        BY <1>1, <2>2 DEF Line, TypeOK
      <3> QED
        BY <1>4, <3>1
    <2> QED
      BY <2>1, <2>2
  <1> HIDE DEF w, l, l1, a, b, a1, b1
  <1>8. Fits(w, l + 1, a, b, overtaken, stopped + 1)
    BY <1>4, <1>6, FitsStop
  <1>9. Fits(w, l1, a1, b1, overtaken, stopped + 1)
    BY <1>4, <1>5, <1>7, <1>8, FitsKept
  <1> QED
    BY <1>1, <1>9 DEF w, l1, a1, b1

LEMMA ChannelStays ==
  ASSUME [Next]_vars
  PROVE  channel' = channel
  BY DEF Next, vars, Send, Verify, TakeRate, Store, Mail, Withdraw, Acquire, GiveUp, LookRefused,
         LookSpent, LookWrong, LookRight, Note, Discard, BindEmail, BindPhone, Consume, FreeRate,
         Release, Stop, ExpireCode, ExpireRate, ExpireLock

LEMMA BudgetStep ==
  ASSUME TypeOK, LockInv, NumberInv, TypeOK', LockInv', NumberInv', BudgetInv, [Next]_vars
  PROVE  BudgetInv'
  <1> SUFFICES ASSUME Counted, Budget
               PROVE  Budget'
    BY ChannelStays DEF BudgetInv, Counted
  <1>1. CASE ExpireLock \/ \E s \in Sessions : Store(s) \/ LookWrong(s) \/ Note(s) \/ Stop(s)
    BY <1>1, BudgetExpire, BudgetStore, BudgetGuess, BudgetNote, BudgetStop
  <1>2. CASE ~(ExpireLock \/ \E s \in Sessions : Store(s) \/ LookWrong(s) \/ Note(s) \/ Stop(s))
    <2> SUFFICES ASSUME NEW n \in Numbers
                 PROVE  Fits(wrong'[n], Line(n)', Cardinality(Looking'), Cardinality(Noting(n)'),
                             overtaken', stopped')
      BY DEF Budget
    <2> QED
      BY <1>2, Eased, BudgetKept
  <1> QED
    BY <1>1, <1>2

-----------------------------------------------------------------------------
(* The last code, once *)

LEMMA OnceStep ==
  ASSUME TypeOK, TypeOK', LockInv, NumberInv, OnceInv, [Next]_vars
  PROVE  OnceInv'
  <1> DEFINE Latest == code \in {NoCode, sent}
             Read == \A t \in Sessions : Settling(t) => mine[t] = sent
             Once == \A n \in Numbers :
                         /\ used[n] <= 1 + unspent[n]
                         /\ used[n] > unspent[n] => Deleting(n) \/ Gone(n)
  <1> SUFFICES ASSUME ~crossed', overtaken' = 0
               PROVE  Latest' /\ Read' /\ Once'
    BY DEF OnceInv, Calm
  <1>1. ~crossed /\ overtaken = 0
    <2> USE DEF TypeOK, At, GoTo, Begin, End, Judge, DropCode, codeVars, sessionVars, historyVars
    <2>1. ASSUME NEW s \in Sessions, NEW u \in Users, Send(s, u) PROVE ~crossed /\ overtaken = 0
      BY <2>1 DEF Send
    <2>2. ASSUME NEW s \in Sessions, NEW u \in Users, NEW g \in 0 .. sent, Verify(s, u, g) PROVE
         ~crossed /\ overtaken = 0
      BY <2>2 DEF Verify
    <2>3. ASSUME NEW s \in Sessions, TakeRate(s) PROVE ~crossed /\ overtaken = 0
      BY <2>3 DEF TakeRate
    <2>4. ASSUME NEW s \in Sessions, Store(s) PROVE ~crossed /\ overtaken = 0
      BY <2>4 DEF Store
    <2>5. ASSUME NEW s \in Sessions, Mail(s) PROVE ~crossed /\ overtaken = 0
      BY <2>5 DEF Mail
    <2>6. ASSUME NEW s \in Sessions, Withdraw(s) PROVE ~crossed /\ overtaken = 0
      BY <2>6 DEF Withdraw
    <2>7. ASSUME NEW s \in Sessions, Acquire(s) PROVE ~crossed /\ overtaken = 0
      BY <2>7 DEF Acquire
    <2>8. ASSUME NEW s \in Sessions, GiveUp(s) PROVE ~crossed /\ overtaken = 0
      BY <2>8 DEF GiveUp
    <2>9. ASSUME NEW s \in Sessions, LookRefused(s) PROVE ~crossed /\ overtaken = 0
      BY <2>9 DEF LookRefused
    <2>10. ASSUME NEW s \in Sessions, LookSpent(s) PROVE ~crossed /\ overtaken = 0
      BY <2>10 DEF LookSpent
    <2>11. ASSUME NEW s \in Sessions, LookWrong(s) PROVE ~crossed /\ overtaken = 0
      BY <2>11 DEF LookWrong
    <2>12. ASSUME NEW s \in Sessions, LookRight(s) PROVE ~crossed /\ overtaken = 0
      BY <2>12 DEF LookRight
    <2>13. ASSUME NEW s \in Sessions, Note(s) PROVE ~crossed /\ overtaken = 0
      BY <2>13 DEF Note
    <2>14. ASSUME NEW s \in Sessions, Discard(s) PROVE ~crossed /\ overtaken = 0
      BY <2>14 DEF Discard
    <2>15. ASSUME NEW s \in Sessions, BindEmail(s) PROVE ~crossed /\ overtaken = 0
      BY <2>15 DEF BindEmail
    <2>16. ASSUME NEW s \in Sessions, BindPhone(s) PROVE ~crossed /\ overtaken = 0
      BY <2>16 DEF BindPhone
    <2>17. ASSUME NEW s \in Sessions, Consume(s) PROVE ~crossed /\ overtaken = 0
      BY <2>17 DEF Consume
    <2>18. ASSUME NEW s \in Sessions, FreeRate(s) PROVE ~crossed /\ overtaken = 0
      BY <2>18 DEF FreeRate
    <2>19. ASSUME NEW s \in Sessions, Release(s) PROVE ~crossed /\ overtaken = 0
      BY <2>19 DEF Release
    <2>20. ASSUME NEW s \in Sessions, Stop(s) PROVE ~crossed /\ overtaken = 0
      BY <2>20 DEF Stop
    <2>21. ASSUME ExpireCode PROVE ~crossed /\ overtaken = 0
      BY <2>21 DEF ExpireCode
    <2>22. ASSUME ExpireRate PROVE ~crossed /\ overtaken = 0
      BY <2>22 DEF ExpireRate
    <2>23. ASSUME ExpireLock PROVE ~crossed /\ overtaken = 0
      BY <2>23 DEF ExpireLock
    <2>24. CASE UNCHANGED vars
      BY <2>24 DEF vars
    <2> QED
      BY <2>1, <2>2, <2>3, <2>4, <2>5, <2>6, <2>7, <2>8, <2>9, <2>10, <2>11, <2>12, <2>13, <2>14,
           <2>15, <2>16, <2>17, <2>18, <2>19, <2>20, <2>21, <2>22, <2>23, <2>24 DEF Next
  <1>2. Latest /\ Read /\ Once
    BY <1>1 DEF OnceInv, Calm
  <1>3. \A t \in Sessions : Settling(t) => lock = t
    <2>1. Overrun = {}
      <3>1. Cardinality(Overrun) = 0
        BY <1>1, FS_CardinalityType DEF LockInv
      <3> QED
        BY <3>1, FS_EmptySet DEF LockInv
    <2> QED
      BY <2>1 DEF Overrun, InCritical, Settling
  <1>4. ASSUME NEW n \in Numbers, used[n] > unspent[n] PROVE n <= sent
    <2>1. n > sent => used[n] = 0
      BY DEF NumberInv
    <2>2. n \in Int /\ sent \in Int
      BY BoundsAssumption DEF Numbers, TypeOK
    <2>3. unspent[n] \in Nat
      BY DEF TypeOK
    <2> QED
      BY <1>4, <2>1, <2>2, <2>3
  <1> DEFINE Still == /\ code' \in {code, NoCode} /\ sent' = sent /\ channel' = channel
                      /\ used' = used /\ unspent' = unspent
                      /\ \A t \in Sessions :
                            \/ at'[t] = at[t] /\ mine'[t] = mine[t]
                            \/ ~Settling(t)' /\ at[t] # "consume"
  <1>5. ASSUME Still PROVE Latest' /\ Read' /\ Once'
    <2>1. \A t \in Sessions : Settling(t)' => Settling(t) /\ mine'[t] = mine[t]
      BY <1>5 DEF Settling
    <2>2. Latest' /\ Read'
      BY <1>2, <1>5, <2>1
    <2>3. ASSUME NEW n \in Numbers
          PROVE  /\ used'[n] <= 1 + unspent'[n]
                 /\ used'[n] > unspent'[n] => Deleting(n)' \/ Gone(n)'
      <3>1. NoCode # n
        BY DEF Numbers
      <3>2. Gone(n) => Gone(n)'
        BY <1>5, <2>1, <3>1 DEF Gone
      <3>3. Deleting(n) => Deleting(n)'
        BY <1>5 DEF Deleting
      <3> QED
        BY <1>2, <1>5, <3>2, <3>3
    <2> QED
      BY <2>2, <2>3
  <1>6. Latest' /\ Read' /\ Once'
    <2> USE <1>2, <1>3 DEF TypeOK, NumberInv, Settling, Deleting, Gone, At, GoTo, Begin, End, Judge, DropCode,
         codeVars, sessionVars, historyVars
    <2>1. ASSUME NEW s \in Sessions, NEW u \in Users, Send(s, u) PROVE Latest' /\ Read' /\ Once'
      <3>1. Still
        BY <2>1 DEF Send
      <3> QED
        BY <1>5, <3>1
    <2>2. ASSUME NEW s \in Sessions, NEW u \in Users, NEW g \in 0 .. sent, Verify(s, u, g) PROVE
         Latest' /\ Read' /\ Once'
      <3>1. Still
        BY <2>2 DEF Verify
      <3> QED
        BY <1>5, <3>1
    <2>3. ASSUME NEW s \in Sessions, TakeRate(s) PROVE Latest' /\ Read' /\ Once'
      <3>1. Still
        BY <2>3 DEF TakeRate
      <3> QED
        BY <1>5, <3>1
    <2>4. ASSUME NEW s \in Sessions, Store(s) PROVE Latest' /\ Read' /\ Once'
      <3>1. \A t \in Sessions : ~Settling(t)'
        <4>1. Checking = {}
          BY <2>4 DEF Store
        <4> QED
          BY <2>4, <4>1 DEF Store, Checking
      <3>2. code' = sent' /\ sent' = sent + 1 /\ used' = used /\ unspent' = unspent
        BY <2>4 DEF Store
      <3>3. \A n \in Numbers : used[n] > unspent[n] => n <= sent
        BY <1>4
      <3>4. \A n \in Numbers : /\ used'[n] <= 1 + unspent'[n]
                               /\ used'[n] > unspent'[n] => code' # n
        BY <3>2, <3>3 DEF Numbers
      <3> QED
        BY <3>1, <3>2, <3>4
    <2>5. ASSUME NEW s \in Sessions, Mail(s) PROVE Latest' /\ Read' /\ Once'
      <3>1. Still
        BY <2>5 DEF Mail
      <3> QED
        BY <1>5, <3>1
    <2>6. ASSUME NEW s \in Sessions, Withdraw(s) PROVE Latest' /\ Read' /\ Once'
      <3>1. Still
        BY <2>6 DEF Withdraw
      <3> QED
        BY <1>5, <3>1
    <2>7. ASSUME NEW s \in Sessions, Acquire(s) PROVE Latest' /\ Read' /\ Once'
      <3>1. Still
        BY <2>7 DEF Acquire
      <3> QED
        BY <1>5, <3>1
    <2>8. ASSUME NEW s \in Sessions, GiveUp(s) PROVE Latest' /\ Read' /\ Once'
      <3>1. Still
        BY <2>8 DEF GiveUp
      <3> QED
        BY <1>5, <3>1
    <2>9. ASSUME NEW s \in Sessions, LookRefused(s) PROVE Latest' /\ Read' /\ Once'
      <3>1. Still
        BY <2>9 DEF LookRefused
      <3> QED
        BY <1>5, <3>1
    <2>10. ASSUME NEW s \in Sessions, LookSpent(s) PROVE Latest' /\ Read' /\ Once'
      <3>1. code = sent /\ code \in Numbers
        BY <2>10 DEF LookSpent, Readable
      <3>2. /\ code' = code /\ sent' = sent /\ used' = used /\ unspent' = unspent
            /\ at[s] = "look"
            /\ \A t \in Sessions : t # s => at'[t] = at[t] /\ mine'[t] = mine[t]
            /\ Settling(s)' => mine'[s] = code
            /\ channel' = channel
        BY <2>10 DEF LookSpent
      <3> QED
        BY <3>1, <3>2
    <2>11. ASSUME NEW s \in Sessions, LookWrong(s) PROVE Latest' /\ Read' /\ Once'
      <3>1. code = sent /\ code \in Numbers
        BY <2>11 DEF LookWrong, Readable
      <3>2. /\ code' = code /\ sent' = sent /\ used' = used /\ unspent' = unspent
            /\ at[s] = "look"
            /\ \A t \in Sessions : t # s => at'[t] = at[t] /\ mine'[t] = mine[t]
            /\ Settling(s)' => mine'[s] = code
            /\ channel' = channel
        BY <2>11 DEF LookWrong
      <3> QED
        BY <3>1, <3>2
    <2>12. ASSUME NEW s \in Sessions, LookRight(s) PROVE Latest' /\ Read' /\ Once'
      <3>1. code = sent /\ code \in Numbers
        BY <2>12 DEF LookRight, Readable
      <3>2. /\ code' = code /\ sent' = sent /\ used' = used /\ unspent' = unspent
            /\ at[s] = "look"
            /\ \A t \in Sessions : t # s => at'[t] = at[t] /\ mine'[t] = mine[t]
            /\ Settling(s)' => mine'[s] = code
            /\ channel' = channel
        BY <2>12 DEF LookRight
      <3> QED
        BY <3>1, <3>2
    <2>13. ASSUME NEW s \in Sessions, Note(s) PROVE Latest' /\ Read' /\ Once'
      BY <2>13 DEF Note
    <2>14. ASSUME NEW s \in Sessions, Discard(s) PROVE Latest' /\ Read' /\ Once'
      <3>1. Still
        BY <2>14 DEF Discard
      <3> QED
        BY <1>5, <3>1
    <2>15. ASSUME NEW s \in Sessions, BindEmail(s) PROVE Latest' /\ Read' /\ Once'
      <3>1. /\ code' = code /\ sent' = sent /\ mine' = mine /\ channel = "email" /\ channel' = channel
            /\ unspent' = unspent /\ at[s] = "bind"
            /\ \A t \in Sessions : t # s => at'[t] = at[t]
            /\ \/ at'[s] = "consume" /\ used' = [used EXCEPT ![mine[s]] = used[mine[s]] + 1]
               \/ at'[s] = "release" /\ used' = used
        BY <2>15 DEF BindEmail
      <3>2. Latest' /\ Read'
        BY <3>1
      <3>3. ASSUME NEW n \in Numbers
            PROVE  /\ used'[n] <= 1 + unspent'[n]
                   /\ used'[n] > unspent'[n] => Deleting(n)' \/ Gone(n)'
        <4>1. used[n] \in Nat /\ unspent[n] \in Nat
          OBVIOUS
        <4>2. CASE at'[s] = "consume" /\ n = mine[s]
          <5>1. Deleting(n)' /\ used'[n] = used[n] + 1 /\ ~Gone(n)
            BY <3>1, <4>2
          <5>2. ~Deleting(n)
            BY <3>1
          <5>3. used[n] <= unspent[n]
            BY <4>1, <5>1, <5>2
          <5> QED
            BY <3>1, <4>1, <5>1, <5>3
        <4>3. CASE ~(at'[s] = "consume" /\ n = mine[s])
          <5>1. used'[n] = used[n]
            BY <3>1, <4>3
          <5>2. (Deleting(n) => Deleting(n)') /\ (Gone(n) => Gone(n)')
            BY <3>1
          <5> QED
            BY <3>1, <5>1, <5>2
        <4> QED
          BY <4>2, <4>3
      <3> QED
        BY <3>2, <3>3
    <2>16. ASSUME NEW s \in Sessions, BindPhone(s) PROVE Latest' /\ Read' /\ Once'
      <3>1. Still
        BY <2>16 DEF BindPhone
      <3> QED
        BY <1>5, <3>1
    <2>17. ASSUME NEW s \in Sessions, Consume(s) PROVE Latest' /\ Read' /\ Once'
      <3>1. /\ code' = NoCode /\ sent' = sent /\ mine' = mine /\ channel' = channel
            /\ unspent' = unspent
            /\ used' = IF channel = "email" THEN used
                      ELSE [used EXCEPT ![mine[s]] = used[mine[s]] + 1]
            /\ at[s] = "consume" /\ ~Settling(s)'
            /\ \A t \in Sessions : t # s => at'[t] = at[t]
        BY <2>17 DEF Consume, Accepted
      <3>2. \A t \in Sessions : ~Settling(t)'
        BY <3>1
      <3>3. ASSUME NEW n \in Numbers PROVE used'[n] <= 1 + unspent'[n] /\ Gone(n)'
        <4>1. used[n] \in Nat /\ unspent[n] \in Nat
          OBVIOUS
        <4>2. Gone(n)'
          BY <3>1, <3>2 DEF Numbers
        <4>3. CASE channel = "email" \/ n # mine[s]
          BY <3>1, <4>1, <4>2, <4>3
        <4>4. CASE channel # "email" /\ n = mine[s]
          <5>1. ~Deleting(n) /\ ~Gone(n)
            BY <3>1, <4>4
          <5>2. used[n] <= unspent[n]
            BY <4>1, <5>1
          <5>3. used'[n] = used[n] + 1
            BY <3>1, <4>4
          <5> QED
            BY <3>1, <4>1, <4>2, <5>2, <5>3
        <4> QED
          BY <4>3, <4>4
      <3>4. Latest' /\ Read'
        BY <3>1, <3>2
      <3> QED
        BY <3>3, <3>4
    <2>18. ASSUME NEW s \in Sessions, FreeRate(s) PROVE Latest' /\ Read' /\ Once'
      <3>1. Still
        BY <2>18 DEF FreeRate
      <3> QED
        BY <1>5, <3>1
    <2>19. ASSUME NEW s \in Sessions, Release(s) PROVE Latest' /\ Read' /\ Once'
      <3>1. Still
        BY <2>19 DEF Release
      <3> QED
        BY <1>5, <3>1
    <2>20. ASSUME NEW s \in Sessions, Stop(s) PROVE Latest' /\ Read' /\ Once'
      <3>1. /\ code' = code /\ sent' = sent /\ used' = used /\ channel' = channel
            /\ at'[s] = "idle" /\ ~Settling(s)'
            /\ \A t \in Sessions : t # s => at'[t] = at[t] /\ mine'[t] = mine[t]
            /\ unspent' = IF channel = "email" /\ at[s] = "consume"
                         THEN [unspent EXCEPT ![mine[s]] = unspent[mine[s]] + 1] ELSE unspent
        BY <2>20 DEF Stop
      <3>2. Latest' /\ Read'
        BY <3>1
      <3>3. ASSUME NEW n \in Numbers
            PROVE  /\ used'[n] <= 1 + unspent'[n]
                   /\ used'[n] > unspent'[n] => Deleting(n)' \/ Gone(n)'
        <4>1. used[n] \in Nat /\ unspent[n] \in Nat
          OBVIOUS
        <4>2. Gone(n) => Gone(n)'
          BY <3>1
        <4>3. CASE channel = "email" /\ at[s] = "consume" /\ mine[s] = n
          <5>1. unspent'[n] = unspent[n] + 1
            BY <3>1, <4>3
          <5> QED
            BY <3>1, <4>1, <5>1
        <4>4. CASE ~(channel = "email" /\ at[s] = "consume" /\ mine[s] = n)
          <5>1. unspent'[n] = unspent[n]
            BY <3>1, <4>4
          <5>2. Deleting(n) => Deleting(n)'
            BY <3>1, <4>4
          <5> QED
            BY <3>1, <4>2, <5>1, <5>2
        <4> QED
          BY <4>3, <4>4
      <3> QED
        BY <3>2, <3>3
    <2>21. ASSUME ExpireCode PROVE Latest' /\ Read' /\ Once'
      <3>1. Still
        BY <2>21 DEF ExpireCode
      <3> QED
        BY <1>5, <3>1
    <2>22. ASSUME ExpireRate PROVE Latest' /\ Read' /\ Once'
      <3>1. Still
        BY <2>22 DEF ExpireRate
      <3> QED
        BY <1>5, <3>1
    <2>23. ASSUME ExpireLock PROVE Latest' /\ Read' /\ Once'
      <3>1. Still
        BY <2>23 DEF ExpireLock
      <3> QED
        BY <1>5, <3>1
    <2>24. CASE UNCHANGED vars
      <3>1. Still
        BY <2>24 DEF vars
      <3> QED
        BY <1>5, <3>1
    <2> HIDE DEF Latest, Read, Once, Still
    <2> QED
      BY <2>1, <2>2, <2>3, <2>4, <2>5, <2>6, <2>7, <2>8, <2>9, <2>10, <2>11, <2>12, <2>13, <2>14,
           <2>15, <2>16, <2>17, <2>18, <2>19, <2>20, <2>21, <2>22, <2>23, <2>24 DEF Next
  <1> QED
    BY <1>6

-----------------------------------------------------------------------------
(* The theorems *)

LEMMA InitInv ==
  ASSUME Init
  PROVE  IInv
  <1>1. TypeOK
    BY InitType
  <1>2. Overrun = {} /\ lock \notin Sessions
    BY NamesAssumption DEF Init, Overrun, InCritical
  <1>3. LockInv
    BY <1>2, FS_EmptySet DEF LockInv, Init
  <1>4. NumberInv
    BY BoundsAssumption DEF NumberInv, Init, Numbers
  <1>5. BudgetInv
    <2> SUFFICES ASSUME NEW n \in Numbers
                 PROVE  Fits(wrong[n], Line(n), Cardinality(Looking), Cardinality(Noting(n)),
                             overtaken, stopped)
      BY DEF BudgetInv, Budget
    <2>1. Line(n) = 0
      BY <1>2 DEF Line, Init, Numbers
    <2>2. Looking = {} /\ Noting(n) = {}
      BY <1>2 DEF Looking, Noting
    <2>3. Cardinality(Looking) = 0 /\ Cardinality(Noting(n)) = 0
      BY <2>2, FS_EmptySet
    <2>4. wrong[n] = 0 /\ overtaken = 0 /\ stopped = 0
      BY DEF Init
    <2>5. Fits(0, 0, 0, 0, 0, 0)
      BY BoundsAssumption DEF Fits
    <2> QED
      BY <2>1, <2>3, <2>4, <2>5
  <1>6. OnceInv
    BY DEF OnceInv, Init, Settling
  <1> QED
    BY <1>1, <1>3, <1>4, <1>5, <1>6 DEF IInv

LEMMA StepInv ==
  ASSUME IInv, [Next]_vars
  PROVE  IInv'
  <1>1. TypeOK'
    BY TypeStep DEF IInv
  <1>2. LockInv'
    BY <1>1, LockStep DEF IInv
  <1>3. NumberInv'
    BY NumberStep DEF IInv
  <1>4. BudgetInv'
    BY <1>1, <1>2, <1>3, BudgetStep DEF IInv
  <1>5. OnceInv'
    BY <1>1, OnceStep DEF IInv
  <1> QED
    BY <1>1, <1>2, <1>3, <1>4, <1>5 DEF IInv

LEMMA Invariant == Spec => []IInv
  <1>1. Init => IInv
    BY InitInv
  <1>2. IInv /\ [Next]_vars => IInv'
    BY StepInv
  <1> QED
    BY <1>1, <1>2, PTL DEF Spec

\* The record of a code, its lock and every session that sends or checks one
\* hold values of their types.
THEOREM TypeCorrect == Spec => []TypeOK
  <1>1. IInv => TypeOK
    BY DEF IInv
  <1> QED
    BY <1>1, Invariant, PTL

\* A code that binds an address or a number is guessed at no more often than its
\* attempts allow, one round of attempts more for every lock that expires under a
\* request, and one guess more for every request that ends early: comparing and
\* counting are two Redis commands under a lock that does not last
\* (AuthService.verify_email_code and SMSService.verify_code).  The administrator's
\* code is left out: nothing counts the guesses at it.
THEOREM GuessesCorrect == Spec => []GuessesBounded
  <1>1. IInv => GuessesBounded
    <2> SUFFICES ASSUME IInv, Counted, NEW n \in Numbers
                 PROVE  wrong[n] <= MaxAttempts * (1 + overtaken) + stopped
      BY DEF GuessesBounded
    <2> DEFINE w == wrong[n]  l == Line(n)  a == Cardinality(Looking)  b == Cardinality(Noting(n))
    <2>1. Looking \subseteq Overrun /\ Noting(n) \subseteq Overrun
      BY DEF Looking, Noting
    <2>2. IsFiniteSet(Looking) /\ IsFiniteSet(Noting(n))
      BY <2>1, FS_Subset DEF IInv, LockInv
    <2>3. a \in Nat /\ b \in Nat
      BY <2>2, FS_CardinalityType
    <2>4. b > 0 => MaxAttempts >= 1
      <3>1. Noting(n) # {} => MaxAttempts >= 1
        BY LineType DEF IInv
      <3> QED
        BY <3>1, FS_EmptySet
    <2>5. l \in Int /\ l >= 0
      BY LineType DEF IInv
    <2>6. w \in Int /\ overtaken \in Nat /\ stopped \in Nat
      BY DEF IInv, TypeOK
    <2>7. Fits(w, l, a, b, overtaken, stopped)
      BY DEF IInv, BudgetInv, Budget
    <2> DEFINE none == 0
    <2>8. none \in Nat /\ none \in Int /\ none <= l /\ none <= a /\ none <= b
      BY <2>3, <2>5
    <2> HIDE DEF w, l, a, b, none
    <2>9. Fits(w, none, none, none, overtaken, stopped)
      BY <2>3, <2>4, <2>5, <2>6, <2>7, <2>8, FitsKept
    <2> QED
      BY <2>6, <2>9, BoundsAssumption DEF Fits, w, none
  <1> QED
    BY <1>1, Invariant, PTL

\* While no lock has expired under a request and no code was stored during a
\* check, the code in Redis is the last one sent, and a code is accepted once and
\* once more for each request that ended between binding the address and deleting
\* the code: the lock leaves one session between reading the record and deleting it.
THEOREM LatestCorrect == Spec => []LatestCodeOnce
  <1>1. IInv => LatestCodeOnce
    BY DEF IInv, OnceInv, Calm, LatestCodeOnce
  <1> QED
    BY <1>1, Invariant, PTL
=============================================================================
