---------------------------- MODULE Tokens_proofs ----------------------------
(***************************************************************************)
(* What logins, logouts and the clean-up leave of a user's two keys: one   *)
(* token when they take turns, and one that works when logins overtake     *)
(* each other.                                                             *)
(***************************************************************************)
EXTENDS Tokens, TLAPS

\* The commands of every session, in order.
PhaseInv ==
    \A s \in Sessions :
        /\ kind[s] = "none" => at[s] = "idle"
        /\ at[s] = "idle" => kind[s] = "none"
        /\ kind[s] = "login" => at[s] \in {"acquire", "read", "drop", "set", "latest", "recheck",
                                           "undo", "release"}
        /\ kind[s] = "logout" => at[s] \in {"admit", "read", "drop", "forget"}
        /\ kind[s] = "clean" => at[s] \in {"acquire", "compare", "drop", "release"}
        /\ kind[s] # "none" => mine[s] \in Tokens

\* Until a lock expires or its holder stops, only its holder works under it.
Working(s) ==
    \/ kind[s] = "login" /\ at[s] # "acquire"
    \/ kind[s] = "clean" /\ at[s] # "acquire"
LockInv ==
    /\ lock = Orphan => stopped > 0
    /\ overtaken = 0 /\ stopped = 0 => \A s \in Sessions : Working(s) => lock = s

ApartInv ==
    \A s, x \in Sessions :
        /\ ~crossed => ~(kind[s] = "login" /\ kind[x] = "logout")
        /\ ~swept => ~(kind[s] = "login" /\ kind[x] = "clean")

\* When nothing goes wrong: what each command finds in Redis.
Replacing(s) == kind[s] = "login" /\ at[s] \in {"set", "latest", "recheck", "undo", "release"}
SmoothInv == Smooth =>
    /\ (\A s \in Sessions : ~Replacing(s)) =>
          /\ live \subseteq {latest}
          /\ \/ latest = None \/ latest \in live
             \/ \E s \in Sessions : At(s, "logout", "forget")
    /\ \A s \in Sessions :
          /\ At(s, "login", "drop") => latest \in {None, old[s]}
          /\ At(s, "login", "set") => live \subseteq {mine[s]}
          /\ At(s, "login", "latest") => live = {mine[s]}
          /\ kind[s] = "login" /\ at[s] \in {"recheck", "release"} =>
                live = {mine[s]} /\ latest = mine[s]
          /\ ~At(s, "login", "undo")
          /\ At(s, "logout", "drop") => live \subseteq {old[s]}
          /\ At(s, "logout", "forget") => live = {}
          /\ At(s, "clean", "drop") => mine[s] \notin live

\* When logins do not meet anything but logins, and no token is issued twice: every
\* token in Redis is known, and the one that counts is there or about to be replaced.
Alone == ~crossed /\ ~swept /\ ~again /\ stopped = 0
Issued(t) == t = None \/ t \in given \/
             \E s \in Sessions : kind[s] = "login" /\ mine[s] = t
                                 /\ at[s] \in {"recheck", "undo", "release"}
AgreeInv == Alone =>
    /\ Issued(latest)
    /\ \A t \in live : Issued(t) \/ \E s \in Sessions : At(s, "login", "latest") /\ mine[s] = t
    /\ \A s \in Sessions :
          /\ Issued(old[s])
          /\ kind[s] = "login" => mine[s] \notin given
          /\ \A x \in Sessions :
                kind[s] = "login" /\ kind[x] = "login" /\ mine[s] = mine[x] => s = x
          /\ At(s, "login", "latest") => mine[s] \in live
          /\ At(s, "login", "undo") => latest # mine[s]
          /\ At(s, "clean", "drop") => latest # mine[s]
    /\ \/ latest = None \/ latest \in live
       \/ \E s \in Sessions : /\ old[s] = latest
                              /\ At(s, "login", "set") \/ At(s, "login", "latest")
       \/ \E s \in Sessions : At(s, "logout", "forget")

IInv == TypeOK /\ PhaseInv /\ LockInv /\ ApartInv /\ SmoothInv /\ AgreeInv

-----------------------------------------------------------------------------
(* Types, phases and the lock *)

LEMMA InitInv == ASSUME Init PROVE IInv
  <1> USE NamesAssumption DEF Init
  <1>1. TypeOK /\ PhaseInv
    BY DEF TypeOK, Steps, Tokens, PhaseInv
  <1>2. LockInv /\ ApartInv
    BY DEF LockInv, Working, ApartInv
  <1>3. SmoothInv
    BY DEF SmoothInv, Replacing, At
  <1>4. AgreeInv
    BY DEF AgreeInv, Issued, At
  <1> QED
    BY <1>1, <1>2, <1>3, <1>4 DEF IInv

LEMMA TypeStep ==
  ASSUME TypeOK, PhaseInv, [Next]_vars
  PROVE  TypeOK'
  <1> USE NamesAssumption, BoundsAssumption DEF TypeOK, PhaseInv, Tokens, Steps, At, GoTo, Begin,
       End, Read, storeVars, sessionVars, historyVars
  <1>1. ASSUME NEW s \in Sessions, Login(s) PROVE TypeOK'
    BY <1>1 DEF Login
  <1>2. ASSUME NEW s \in Sessions, Acquire(s) PROVE TypeOK'
    BY <1>2 DEF Acquire
  <1>3. ASSUME NEW s \in Sessions, GiveUp(s) PROVE TypeOK'
    BY <1>3 DEF GiveUp
  <1>4. ASSUME NEW s \in Sessions, ReadOld(s) PROVE TypeOK'
    BY <1>4 DEF ReadOld
  <1>5. ASSUME NEW s \in Sessions, DropOld(s) PROVE TypeOK'
    BY <1>5 DEF DropOld
  <1>6. ASSUME NEW s \in Sessions, SetToken(s) PROVE TypeOK'
    BY <1>6 DEF SetToken
  <1>7. ASSUME NEW s \in Sessions, SetLatest(s) PROVE TypeOK'
    BY <1>7 DEF SetLatest
  <1>8. ASSUME NEW s \in Sessions, Recheck(s) PROVE TypeOK'
    BY <1>8 DEF Recheck
  <1>9. ASSUME NEW s \in Sessions, Undo(s) PROVE TypeOK'
    BY <1>9 DEF Undo
  <1>10. ASSUME NEW s \in Sessions, Release(s) PROVE TypeOK'
    BY <1>10 DEF Release
  <1>11. ASSUME NEW s \in Sessions, Admit(s) PROVE TypeOK'
    BY <1>11 DEF Admit
  <1>12. ASSUME NEW s \in Sessions, ReadLatest(s) PROVE TypeOK'
    BY <1>12 DEF ReadLatest
  <1>13. ASSUME NEW s \in Sessions, DropToken(s) PROVE TypeOK'
    BY <1>13 DEF DropToken
  <1>14. ASSUME NEW s \in Sessions, Forget(s) PROVE TypeOK'
    BY <1>14 DEF Forget
  <1>15. ASSUME NEW s \in Sessions, Compare(s) PROVE TypeOK'
    BY <1>15 DEF Compare
  <1>16. ASSUME NEW s \in Sessions, DropForgotten(s) PROVE TypeOK'
    BY <1>16 DEF DropForgotten
  <1>17. ASSUME NEW s \in Sessions, Stop(s) PROVE TypeOK'
    BY <1>17 DEF Stop
  <1>18. ASSUME NEW s \in Sessions, NEW t \in live, Logout(s, t) PROVE TypeOK'
    BY <1>18 DEF Logout
  <1>19. ASSUME NEW s \in Sessions, NEW t \in live, Clean(s, t) PROVE TypeOK'
    BY <1>19 DEF Clean
  <1>20. ASSUME NEW t \in live, ExpireToken(t) PROVE TypeOK'
    BY <1>20 DEF ExpireToken
  <1>21. ASSUME ExpireLock PROVE TypeOK'
    BY <1>21 DEF ExpireLock
  <1>22. ASSUME Tick PROVE TypeOK'
    BY <1>22 DEF Tick
  <1>23. CASE UNCHANGED vars
    BY <1>23 DEF vars
  <1> HIDE DEF TypeOK, PhaseInv
  <1> QED
    BY <1>1, <1>2, <1>3, <1>4, <1>5, <1>6, <1>7, <1>8, <1>9, <1>10, <1>11, <1>12, <1>13, <1>14,
         <1>15, <1>16, <1>17, <1>18, <1>19, <1>20, <1>21, <1>22, <1>23 DEF Next

LEMMA PhaseStep ==
  ASSUME TypeOK, PhaseInv, [Next]_vars
  PROVE  PhaseInv'
  <1> USE NamesAssumption, BoundsAssumption DEF TypeOK, PhaseInv, Tokens, At, GoTo, Begin, End,
       Read, storeVars, sessionVars, historyVars
  <1>1. ASSUME NEW s \in Sessions, Login(s) PROVE PhaseInv'
    BY <1>1 DEF Login
  <1>2. ASSUME NEW s \in Sessions, Acquire(s) PROVE PhaseInv'
    BY <1>2 DEF Acquire
  <1>3. ASSUME NEW s \in Sessions, GiveUp(s) PROVE PhaseInv'
    BY <1>3 DEF GiveUp
  <1>4. ASSUME NEW s \in Sessions, ReadOld(s) PROVE PhaseInv'
    BY <1>4 DEF ReadOld
  <1>5. ASSUME NEW s \in Sessions, DropOld(s) PROVE PhaseInv'
    BY <1>5 DEF DropOld
  <1>6. ASSUME NEW s \in Sessions, SetToken(s) PROVE PhaseInv'
    BY <1>6 DEF SetToken
  <1>7. ASSUME NEW s \in Sessions, SetLatest(s) PROVE PhaseInv'
    BY <1>7 DEF SetLatest
  <1>8. ASSUME NEW s \in Sessions, Recheck(s) PROVE PhaseInv'
    BY <1>8 DEF Recheck
  <1>9. ASSUME NEW s \in Sessions, Undo(s) PROVE PhaseInv'
    BY <1>9 DEF Undo
  <1>10. ASSUME NEW s \in Sessions, Release(s) PROVE PhaseInv'
    BY <1>10 DEF Release
  <1>11. ASSUME NEW s \in Sessions, Admit(s) PROVE PhaseInv'
    BY <1>11 DEF Admit
  <1>12. ASSUME NEW s \in Sessions, ReadLatest(s) PROVE PhaseInv'
    BY <1>12 DEF ReadLatest
  <1>13. ASSUME NEW s \in Sessions, DropToken(s) PROVE PhaseInv'
    BY <1>13 DEF DropToken
  <1>14. ASSUME NEW s \in Sessions, Forget(s) PROVE PhaseInv'
    BY <1>14 DEF Forget
  <1>15. ASSUME NEW s \in Sessions, Compare(s) PROVE PhaseInv'
    BY <1>15 DEF Compare
  <1>16. ASSUME NEW s \in Sessions, DropForgotten(s) PROVE PhaseInv'
    BY <1>16 DEF DropForgotten
  <1>17. ASSUME NEW s \in Sessions, Stop(s) PROVE PhaseInv'
    BY <1>17 DEF Stop
  <1>18. ASSUME NEW s \in Sessions, NEW t \in live, Logout(s, t) PROVE PhaseInv'
    BY <1>18 DEF Logout
  <1>19. ASSUME NEW s \in Sessions, NEW t \in live, Clean(s, t) PROVE PhaseInv'
    BY <1>19 DEF Clean
  <1>20. ASSUME NEW t \in live, ExpireToken(t) PROVE PhaseInv'
    BY <1>20 DEF ExpireToken
  <1>21. ASSUME ExpireLock PROVE PhaseInv'
    BY <1>21 DEF ExpireLock
  <1>22. ASSUME Tick PROVE PhaseInv'
    BY <1>22 DEF Tick
  <1>23. CASE UNCHANGED vars
    BY <1>23 DEF vars
  <1> HIDE DEF TypeOK, PhaseInv
  <1> QED
    BY <1>1, <1>2, <1>3, <1>4, <1>5, <1>6, <1>7, <1>8, <1>9, <1>10, <1>11, <1>12, <1>13, <1>14,
         <1>15, <1>16, <1>17, <1>18, <1>19, <1>20, <1>21, <1>22, <1>23 DEF Next

LEMMA LockStep ==
  ASSUME TypeOK, PhaseInv, LockInv, [Next]_vars
  PROVE  LockInv'
  <1> USE NamesAssumption, BoundsAssumption DEF TypeOK, PhaseInv, LockInv, Working, MoreMishaps,
       At, GoTo, Begin, End, Read, storeVars, sessionVars, historyVars
  <1>1. ASSUME NEW s \in Sessions, Login(s) PROVE LockInv'
    BY <1>1 DEF Login
  <1>2. ASSUME NEW s \in Sessions, Acquire(s) PROVE LockInv'
    BY <1>2 DEF Acquire
  <1>3. ASSUME NEW s \in Sessions, GiveUp(s) PROVE LockInv'
    BY <1>3 DEF GiveUp
  <1>4. ASSUME NEW s \in Sessions, ReadOld(s) PROVE LockInv'
    BY <1>4 DEF ReadOld
  <1>5. ASSUME NEW s \in Sessions, DropOld(s) PROVE LockInv'
    BY <1>5 DEF DropOld
  <1>6. ASSUME NEW s \in Sessions, SetToken(s) PROVE LockInv'
    BY <1>6 DEF SetToken
  <1>7. ASSUME NEW s \in Sessions, SetLatest(s) PROVE LockInv'
    BY <1>7 DEF SetLatest
  <1>8. ASSUME NEW s \in Sessions, Recheck(s) PROVE LockInv'
    BY <1>8 DEF Recheck
  <1>9. ASSUME NEW s \in Sessions, Undo(s) PROVE LockInv'
    BY <1>9 DEF Undo
  <1>10. ASSUME NEW s \in Sessions, Release(s) PROVE LockInv'
    BY <1>10 DEF Release
  <1>11. ASSUME NEW s \in Sessions, Admit(s) PROVE LockInv'
    BY <1>11 DEF Admit
  <1>12. ASSUME NEW s \in Sessions, ReadLatest(s) PROVE LockInv'
    BY <1>12 DEF ReadLatest
  <1>13. ASSUME NEW s \in Sessions, DropToken(s) PROVE LockInv'
    BY <1>13 DEF DropToken
  <1>14. ASSUME NEW s \in Sessions, Forget(s) PROVE LockInv'
    BY <1>14 DEF Forget
  <1>15. ASSUME NEW s \in Sessions, Compare(s) PROVE LockInv'
    BY <1>15 DEF Compare
  <1>16. ASSUME NEW s \in Sessions, DropForgotten(s) PROVE LockInv'
    BY <1>16 DEF DropForgotten
  <1>17. ASSUME NEW s \in Sessions, Stop(s) PROVE LockInv'
    BY <1>17 DEF Stop
  <1>18. ASSUME NEW s \in Sessions, NEW t \in live, Logout(s, t) PROVE LockInv'
    BY <1>18 DEF Logout
  <1>19. ASSUME NEW s \in Sessions, NEW t \in live, Clean(s, t) PROVE LockInv'
    BY <1>19 DEF Clean
  <1>20. ASSUME NEW t \in live, ExpireToken(t) PROVE LockInv'
    BY <1>20 DEF ExpireToken
  <1>21. ASSUME ExpireLock PROVE LockInv'
    BY <1>21 DEF ExpireLock
  <1>22. ASSUME Tick PROVE LockInv'
    BY <1>22 DEF Tick
  <1>23. CASE UNCHANGED vars
    BY <1>23 DEF vars
  <1> HIDE DEF TypeOK, PhaseInv, LockInv
  <1> QED
    BY <1>1, <1>2, <1>3, <1>4, <1>5, <1>6, <1>7, <1>8, <1>9, <1>10, <1>11, <1>12, <1>13, <1>14,
         <1>15, <1>16, <1>17, <1>18, <1>19, <1>20, <1>21, <1>22, <1>23 DEF Next

LEMMA ApartStep ==
  ASSUME TypeOK, PhaseInv, ApartInv, [Next]_vars
  PROVE  ApartInv'
  <1> USE NamesAssumption, BoundsAssumption DEF TypeOK, PhaseInv, ApartInv, Under, At, GoTo,
       Begin, End, Read, storeVars, sessionVars, historyVars
  <1>1. ASSUME NEW s \in Sessions, Login(s) PROVE ApartInv'
    BY <1>1 DEF Login
  <1>2. ASSUME NEW s \in Sessions, Acquire(s) PROVE ApartInv'
    BY <1>2 DEF Acquire
  <1>3. ASSUME NEW s \in Sessions, GiveUp(s) PROVE ApartInv'
    BY <1>3 DEF GiveUp
  <1>4. ASSUME NEW s \in Sessions, ReadOld(s) PROVE ApartInv'
    BY <1>4 DEF ReadOld
  <1>5. ASSUME NEW s \in Sessions, DropOld(s) PROVE ApartInv'
    BY <1>5 DEF DropOld
  <1>6. ASSUME NEW s \in Sessions, SetToken(s) PROVE ApartInv'
    BY <1>6 DEF SetToken
  <1>7. ASSUME NEW s \in Sessions, SetLatest(s) PROVE ApartInv'
    BY <1>7 DEF SetLatest
  <1>8. ASSUME NEW s \in Sessions, Recheck(s) PROVE ApartInv'
    BY <1>8 DEF Recheck
  <1>9. ASSUME NEW s \in Sessions, Undo(s) PROVE ApartInv'
    BY <1>9 DEF Undo
  <1>10. ASSUME NEW s \in Sessions, Release(s) PROVE ApartInv'
    BY <1>10 DEF Release
  <1>11. ASSUME NEW s \in Sessions, Admit(s) PROVE ApartInv'
    BY <1>11 DEF Admit
  <1>12. ASSUME NEW s \in Sessions, ReadLatest(s) PROVE ApartInv'
    BY <1>12 DEF ReadLatest
  <1>13. ASSUME NEW s \in Sessions, DropToken(s) PROVE ApartInv'
    BY <1>13 DEF DropToken
  <1>14. ASSUME NEW s \in Sessions, Forget(s) PROVE ApartInv'
    BY <1>14 DEF Forget
  <1>15. ASSUME NEW s \in Sessions, Compare(s) PROVE ApartInv'
    BY <1>15 DEF Compare
  <1>16. ASSUME NEW s \in Sessions, DropForgotten(s) PROVE ApartInv'
    BY <1>16 DEF DropForgotten
  <1>17. ASSUME NEW s \in Sessions, Stop(s) PROVE ApartInv'
    BY <1>17 DEF Stop
  <1>18. ASSUME NEW s \in Sessions, NEW t \in live, Logout(s, t) PROVE ApartInv'
    BY <1>18 DEF Logout
  <1>19. ASSUME NEW s \in Sessions, NEW t \in live, Clean(s, t) PROVE ApartInv'
    BY <1>19 DEF Clean
  <1>20. ASSUME NEW t \in live, ExpireToken(t) PROVE ApartInv'
    BY <1>20 DEF ExpireToken
  <1>21. ASSUME ExpireLock PROVE ApartInv'
    BY <1>21 DEF ExpireLock
  <1>22. ASSUME Tick PROVE ApartInv'
    BY <1>22 DEF Tick
  <1>23. CASE UNCHANGED vars
    BY <1>23 DEF vars
  <1> HIDE DEF TypeOK, PhaseInv, ApartInv
  <1> QED
    BY <1>1, <1>2, <1>3, <1>4, <1>5, <1>6, <1>7, <1>8, <1>9, <1>10, <1>11, <1>12, <1>13, <1>14,
         <1>15, <1>16, <1>17, <1>18, <1>19, <1>20, <1>21, <1>22, <1>23 DEF Next

-----------------------------------------------------------------------------
(* Turn by turn *)

LEMMA SmoothBefore ==
  ASSUME TypeOK, Smooth', [Next]_vars
  PROVE  Smooth
  <1> USE NamesAssumption, BoundsAssumption DEF TypeOK, Smooth, At, GoTo, Begin, End, Read,
       storeVars, sessionVars, historyVars
  <1>1. ASSUME NEW s \in Sessions, Login(s) PROVE Smooth
    BY <1>1 DEF Login
  <1>2. ASSUME NEW s \in Sessions, Acquire(s) PROVE Smooth
    BY <1>2 DEF Acquire
  <1>3. ASSUME NEW s \in Sessions, GiveUp(s) PROVE Smooth
    BY <1>3 DEF GiveUp
  <1>4. ASSUME NEW s \in Sessions, ReadOld(s) PROVE Smooth
    BY <1>4 DEF ReadOld
  <1>5. ASSUME NEW s \in Sessions, DropOld(s) PROVE Smooth
    BY <1>5 DEF DropOld
  <1>6. ASSUME NEW s \in Sessions, SetToken(s) PROVE Smooth
    BY <1>6 DEF SetToken
  <1>7. ASSUME NEW s \in Sessions, SetLatest(s) PROVE Smooth
    BY <1>7 DEF SetLatest
  <1>8. ASSUME NEW s \in Sessions, Recheck(s) PROVE Smooth
    BY <1>8 DEF Recheck
  <1>9. ASSUME NEW s \in Sessions, Undo(s) PROVE Smooth
    BY <1>9 DEF Undo
  <1>10. ASSUME NEW s \in Sessions, Release(s) PROVE Smooth
    BY <1>10 DEF Release
  <1>11. ASSUME NEW s \in Sessions, Admit(s) PROVE Smooth
    BY <1>11 DEF Admit
  <1>12. ASSUME NEW s \in Sessions, ReadLatest(s) PROVE Smooth
    BY <1>12 DEF ReadLatest
  <1>13. ASSUME NEW s \in Sessions, DropToken(s) PROVE Smooth
    BY <1>13 DEF DropToken
  <1>14. ASSUME NEW s \in Sessions, Forget(s) PROVE Smooth
    BY <1>14 DEF Forget
  <1>15. ASSUME NEW s \in Sessions, Compare(s) PROVE Smooth
    BY <1>15 DEF Compare
  <1>16. ASSUME NEW s \in Sessions, DropForgotten(s) PROVE Smooth
    BY <1>16 DEF DropForgotten
  <1>17. ASSUME NEW s \in Sessions, Stop(s) PROVE Smooth
    BY <1>17 DEF Stop
  <1>18. ASSUME NEW s \in Sessions, NEW t \in live, Logout(s, t) PROVE Smooth
    BY <1>18 DEF Logout
  <1>19. ASSUME NEW s \in Sessions, NEW t \in live, Clean(s, t) PROVE Smooth
    BY <1>19 DEF Clean
  <1>20. ASSUME NEW t \in live, ExpireToken(t) PROVE Smooth
    BY <1>20 DEF ExpireToken
  <1>21. ASSUME ExpireLock PROVE Smooth
    BY <1>21 DEF ExpireLock
  <1>22. ASSUME Tick PROVE Smooth
    BY <1>22 DEF Tick
  <1>23. CASE UNCHANGED vars
    BY <1>23 DEF vars
  <1> HIDE DEF TypeOK, Smooth
  <1> QED
    BY <1>1, <1>2, <1>3, <1>4, <1>5, <1>6, <1>7, <1>8, <1>9, <1>10, <1>11, <1>12, <1>13, <1>14,
         <1>15, <1>16, <1>17, <1>18, <1>19, <1>20, <1>21, <1>22, <1>23 DEF Next

LEMMA SmoothStep ==
  ASSUME TypeOK, PhaseInv, LockInv, ApartInv, SmoothInv, Smooth, Smooth', [Next]_vars
  PROVE  SmoothInv'
  <1> USE NamesAssumption, BoundsAssumption DEF TypeOK, PhaseInv, LockInv, ApartInv, SmoothInv,
       Smooth, Replacing, Working, Tokens, Under, At, GoTo, Begin, End, Read, storeVars,
       sessionVars, historyVars
  <1>1. ASSUME NEW s \in Sessions, Login(s) PROVE SmoothInv'
    BY <1>1 DEF Login
  <1>2. ASSUME NEW s \in Sessions, Acquire(s) PROVE SmoothInv'
    BY <1>2 DEF Acquire
  <1>3. ASSUME NEW s \in Sessions, GiveUp(s) PROVE SmoothInv'
    BY <1>3 DEF GiveUp
  <1>4. ASSUME NEW s \in Sessions, ReadOld(s) PROVE SmoothInv'
    BY <1>4 DEF ReadOld
  <1>5. ASSUME NEW s \in Sessions, DropOld(s) PROVE SmoothInv'
    <2>1. Working(s) /\ \A x \in Sessions : Working(x) => x = s
      BY <1>5 DEF DropOld
    <2>2. \A x \in Sessions : ~Replacing(x)
      BY <1>5, <2>1 DEF DropOld
    <2>3. live \subseteq {old[s]}
      BY <1>5, <2>2 DEF DropOld
    <2>4. live' \subseteq {mine[s]}
      BY <1>5, <2>3 DEF DropOld
    <2>5. \A x \in Sessions : kind[x] # "logout"
      BY <1>5 DEF DropOld
    <2> QED
      BY <1>5, <2>1, <2>4, <2>5 DEF DropOld
  <1>6. ASSUME NEW s \in Sessions, SetToken(s) PROVE SmoothInv'
    BY <1>6 DEF SetToken
  <1>7. ASSUME NEW s \in Sessions, SetLatest(s) PROVE SmoothInv'
    BY <1>7 DEF SetLatest
  <1>8. ASSUME NEW s \in Sessions, Recheck(s) PROVE SmoothInv'
    BY <1>8 DEF Recheck
  <1>9. ASSUME NEW s \in Sessions, Undo(s) PROVE SmoothInv'
    BY <1>9 DEF Undo
  <1>10. ASSUME NEW s \in Sessions, Release(s) PROVE SmoothInv'
    BY <1>10 DEF Release
  <1>11. ASSUME NEW s \in Sessions, Admit(s) PROVE SmoothInv'
    BY <1>11 DEF Admit
  <1>12. ASSUME NEW s \in Sessions, ReadLatest(s) PROVE SmoothInv'
    BY <1>12 DEF ReadLatest
  <1>13. ASSUME NEW s \in Sessions, DropToken(s) PROVE SmoothInv'
    <2>1. live' = {}
      BY <1>13 DEF DropToken
    <2>2. \A x \in Sessions : kind'[x] # "login"
      BY <1>13 DEF DropToken
    <2>3. At(s, "logout", "forget")' /\ latest' = latest
      BY <1>13 DEF DropToken
    <2> QED
      BY <1>13, <2>1, <2>2, <2>3 DEF DropToken
  <1>14. ASSUME NEW s \in Sessions, Forget(s) PROVE SmoothInv'
    BY <1>14 DEF Forget
  <1>15. ASSUME NEW s \in Sessions, Compare(s) PROVE SmoothInv'
    BY <1>15 DEF Compare
  <1>16. ASSUME NEW s \in Sessions, DropForgotten(s) PROVE SmoothInv'
    BY <1>16 DEF DropForgotten
  <1>17. ASSUME NEW s \in Sessions, Stop(s) PROVE SmoothInv'
    BY <1>17 DEF Stop
  <1>18. ASSUME NEW s \in Sessions, NEW t \in live, Logout(s, t) PROVE SmoothInv'
    BY <1>18 DEF Logout
  <1>19. ASSUME NEW s \in Sessions, NEW t \in live, Clean(s, t) PROVE SmoothInv'
    BY <1>19 DEF Clean
  <1>20. ASSUME NEW t \in live, ExpireToken(t) PROVE SmoothInv'
    BY <1>20 DEF ExpireToken
  <1>21. ASSUME ExpireLock PROVE SmoothInv'
    BY <1>21 DEF ExpireLock
  <1>22. ASSUME Tick PROVE SmoothInv'
    BY <1>22 DEF Tick
  <1>23. CASE UNCHANGED vars
    BY <1>23 DEF vars
  <1> HIDE DEF TypeOK, PhaseInv, LockInv, ApartInv, SmoothInv, Smooth
  <1> QED
    BY <1>1, <1>2, <1>3, <1>4, <1>5, <1>6, <1>7, <1>8, <1>9, <1>10, <1>11, <1>12, <1>13, <1>14,
         <1>15, <1>16, <1>17, <1>18, <1>19, <1>20, <1>21, <1>22, <1>23 DEF Next

-----------------------------------------------------------------------------
(* Logins that overtake each other *)

LEMMA AloneBefore ==
  ASSUME TypeOK, Alone', [Next]_vars
  PROVE  Alone
  <1> USE NamesAssumption, BoundsAssumption DEF TypeOK, Alone, At, GoTo, Begin, End, Read,
       storeVars, sessionVars, historyVars
  <1>1. ASSUME NEW s \in Sessions, Login(s) PROVE Alone
    BY <1>1 DEF Login
  <1>2. ASSUME NEW s \in Sessions, Acquire(s) PROVE Alone
    BY <1>2 DEF Acquire
  <1>3. ASSUME NEW s \in Sessions, GiveUp(s) PROVE Alone
    BY <1>3 DEF GiveUp
  <1>4. ASSUME NEW s \in Sessions, ReadOld(s) PROVE Alone
    BY <1>4 DEF ReadOld
  <1>5. ASSUME NEW s \in Sessions, DropOld(s) PROVE Alone
    BY <1>5 DEF DropOld
  <1>6. ASSUME NEW s \in Sessions, SetToken(s) PROVE Alone
    BY <1>6 DEF SetToken
  <1>7. ASSUME NEW s \in Sessions, SetLatest(s) PROVE Alone
    BY <1>7 DEF SetLatest
  <1>8. ASSUME NEW s \in Sessions, Recheck(s) PROVE Alone
    BY <1>8 DEF Recheck
  <1>9. ASSUME NEW s \in Sessions, Undo(s) PROVE Alone
    BY <1>9 DEF Undo
  <1>10. ASSUME NEW s \in Sessions, Release(s) PROVE Alone
    BY <1>10 DEF Release
  <1>11. ASSUME NEW s \in Sessions, Admit(s) PROVE Alone
    BY <1>11 DEF Admit
  <1>12. ASSUME NEW s \in Sessions, ReadLatest(s) PROVE Alone
    BY <1>12 DEF ReadLatest
  <1>13. ASSUME NEW s \in Sessions, DropToken(s) PROVE Alone
    BY <1>13 DEF DropToken
  <1>14. ASSUME NEW s \in Sessions, Forget(s) PROVE Alone
    BY <1>14 DEF Forget
  <1>15. ASSUME NEW s \in Sessions, Compare(s) PROVE Alone
    BY <1>15 DEF Compare
  <1>16. ASSUME NEW s \in Sessions, DropForgotten(s) PROVE Alone
    BY <1>16 DEF DropForgotten
  <1>17. ASSUME NEW s \in Sessions, Stop(s) PROVE Alone
    BY <1>17 DEF Stop
  <1>18. ASSUME NEW s \in Sessions, NEW t \in live, Logout(s, t) PROVE Alone
    BY <1>18 DEF Logout
  <1>19. ASSUME NEW s \in Sessions, NEW t \in live, Clean(s, t) PROVE Alone
    BY <1>19 DEF Clean
  <1>20. ASSUME NEW t \in live, ExpireToken(t) PROVE Alone
    BY <1>20 DEF ExpireToken
  <1>21. ASSUME ExpireLock PROVE Alone
    BY <1>21 DEF ExpireLock
  <1>22. ASSUME Tick PROVE Alone
    BY <1>22 DEF Tick
  <1>23. CASE UNCHANGED vars
    BY <1>23 DEF vars
  <1> HIDE DEF TypeOK, Alone
  <1> QED
    BY <1>1, <1>2, <1>3, <1>4, <1>5, <1>6, <1>7, <1>8, <1>9, <1>10, <1>11, <1>12, <1>13, <1>14,
         <1>15, <1>16, <1>17, <1>18, <1>19, <1>20, <1>21, <1>22, <1>23 DEF Next

LEMMA AgreeStep ==
  ASSUME TypeOK, PhaseInv, ApartInv, AgreeInv, Alone, Alone', [Next]_vars
  PROVE  AgreeInv'
  <1> USE NamesAssumption, BoundsAssumption DEF TypeOK, PhaseInv, ApartInv, AgreeInv, Alone,
       Issued, Tokens, Under, At, GoTo, Begin, End, Read, storeVars, sessionVars, historyVars
  <1>1. ASSUME NEW s \in Sessions, Login(s) PROVE AgreeInv'
    <2>1. /\ clock \notin given /\ \A x \in Sessions : kind[x] = "login" => mine[x] # clock
          /\ \A x \in Sessions : kind[x] # "logout"
      BY <1>1 DEF Login
    <2>2. /\ kind[s] = "none" /\ at[s] = "idle" /\ old' = old /\ given' = given
          /\ live' = live /\ latest' = latest
          /\ kind' = [kind EXCEPT ![s] = "login"] /\ at' = [at EXCEPT ![s] = "acquire"]
          /\ mine' = [mine EXCEPT ![s] = clock]
      BY <1>1 DEF Login
    <2>3. \A t : Issued(t) => Issued(t)'
      BY <2>2
    <2>4. \A t, x : x \in Sessions /\ At(x, "login", "latest") /\ mine[x] = t =>
             At(x, "login", "latest")' /\ mine'[x] = t
      BY <2>2
    <2>5. \A x \in Sessions :
             /\ kind'[x] = "login" => mine'[x] \notin given'
             /\ \A y \in Sessions :
                   kind'[x] = "login" /\ kind'[y] = "login" /\ mine'[x] = mine'[y] => x = y
      BY <2>1, <2>2
    <2>6. \A x \in Sessions :
             /\ At(x, "login", "latest")' => mine'[x] \in live'
             /\ At(x, "login", "undo")' => latest' # mine'[x]
             /\ At(x, "clean", "drop")' => latest' # mine'[x]
      BY <2>2
    <2>7. \/ latest' = None \/ latest' \in live'
          \/ \E x \in Sessions : /\ old'[x] = latest'
                                 /\ At(x, "login", "set")' \/ At(x, "login", "latest")'
      BY <2>1, <2>2
    <2>8. Issued(latest)' /\ \A x \in Sessions : Issued(old[x])'
      BY <2>2, <2>3
    <2>9. \A t \in live' : Issued(t)' \/ \E x \in Sessions : At(x, "login", "latest")' /\ mine'[x]
         = t
      BY <2>2, <2>3, <2>4
    <2> QED
      BY <2>5, <2>6, <2>7, <2>8, <2>9 DEF AgreeInv
  <1>2. ASSUME NEW s \in Sessions, Acquire(s) PROVE AgreeInv'
    BY <1>2 DEF Acquire
  <1>3. ASSUME NEW s \in Sessions, GiveUp(s) PROVE AgreeInv'
    BY <1>3 DEF GiveUp
  <1>4. ASSUME NEW s \in Sessions, ReadOld(s) PROVE AgreeInv'
    BY <1>4 DEF ReadOld
  <1>5. ASSUME NEW s \in Sessions, DropOld(s) PROVE AgreeInv'
    BY <1>5 DEF DropOld
  <1>6. ASSUME NEW s \in Sessions, SetToken(s) PROVE AgreeInv'
    BY <1>6 DEF SetToken
  <1>7. ASSUME NEW s \in Sessions, SetLatest(s) PROVE AgreeInv'
    BY <1>7 DEF SetLatest
  <1>8. ASSUME NEW s \in Sessions, Recheck(s) PROVE AgreeInv'
    BY <1>8 DEF Recheck
  <1>9. ASSUME NEW s \in Sessions, Undo(s) PROVE AgreeInv'
    BY <1>9 DEF Undo
  <1>10. ASSUME NEW s \in Sessions, Release(s) PROVE AgreeInv'
    BY <1>10 DEF Release
  <1>11. ASSUME NEW s \in Sessions, Admit(s) PROVE AgreeInv'
    BY <1>11 DEF Admit
  <1>12. ASSUME NEW s \in Sessions, ReadLatest(s) PROVE AgreeInv'
    BY <1>12 DEF ReadLatest
  <1>13. ASSUME NEW s \in Sessions, DropToken(s) PROVE AgreeInv'
    BY <1>13 DEF DropToken
  <1>14. ASSUME NEW s \in Sessions, Forget(s) PROVE AgreeInv'
    BY <1>14 DEF Forget
  <1>15. ASSUME NEW s \in Sessions, Compare(s) PROVE AgreeInv'
    BY <1>15 DEF Compare
  <1>16. ASSUME NEW s \in Sessions, DropForgotten(s) PROVE AgreeInv'
    BY <1>16 DEF DropForgotten
  <1>17. ASSUME NEW s \in Sessions, Stop(s) PROVE AgreeInv'
    BY <1>17 DEF Stop
  <1>18. ASSUME NEW s \in Sessions, NEW t \in live, Logout(s, t) PROVE AgreeInv'
    BY <1>18 DEF Logout
  <1>19. ASSUME NEW s \in Sessions, NEW t \in live, Clean(s, t) PROVE AgreeInv'
    BY <1>19 DEF Clean
  <1>20. ASSUME NEW t \in live, ExpireToken(t) PROVE AgreeInv'
    BY <1>20 DEF ExpireToken
  <1>21. ASSUME ExpireLock PROVE AgreeInv'
    BY <1>21 DEF ExpireLock
  <1>22. ASSUME Tick PROVE AgreeInv'
    BY <1>22 DEF Tick
  <1>23. CASE UNCHANGED vars
    BY <1>23 DEF vars
  <1> HIDE DEF TypeOK, PhaseInv, ApartInv, AgreeInv, Alone
  <1> QED
    BY <1>1, <1>2, <1>3, <1>4, <1>5, <1>6, <1>7, <1>8, <1>9, <1>10, <1>11, <1>12, <1>13, <1>14,
         <1>15, <1>16, <1>17, <1>18, <1>19, <1>20, <1>21, <1>22, <1>23 DEF Next

-----------------------------------------------------------------------------
(* The theorems *)

LEMMA StepInv == ASSUME IInv, [Next]_vars PROVE IInv'
  <1>1. TypeOK' /\ PhaseInv'
    BY TypeStep, PhaseStep DEF IInv
  <1>2. LockInv' /\ ApartInv'
    BY LockStep, ApartStep DEF IInv
  <1>3. SmoothInv'
    <2>1. CASE Smooth'
      BY <2>1, SmoothBefore, SmoothStep DEF IInv
    <2>2. CASE ~Smooth'
      BY <2>2 DEF SmoothInv
    <2> QED
      BY <2>1, <2>2
  <1>4. AgreeInv'
    <2>1. CASE Alone'
      BY <2>1, AloneBefore, AgreeStep DEF IInv
    <2>2. CASE ~Alone'
      BY <2>2 DEF AgreeInv
    <2> QED
      BY <2>1, <2>2
  <1> QED
    BY <1>1, <1>2, <1>3, <1>4 DEF IInv

\* What every command may rely on holds in every state, for any number of requests.
THEOREM Invariant == Spec => []IInv
  <1>1. Init => IInv
    BY InitInv
  <1>2. IInv /\ [Next]_vars => IInv'
    BY StepInv
  <1> QED
    BY <1>1, <1>2, PTL DEF Spec

\* The two keys, the lock and what every session knows of them keep their types.
THEOREM TypeCorrect == Spec => []TypeOK
  BY Invariant, PTL DEF IInv

\* When logins and logouts have taken turns and nothing went wrong, Redis holds both
\* keys of one token or none (auth_service.py, logout).
THEOREM OneTokenCorrect == Spec => []OneTokenLeft
  <1>1. ASSUME IInv, Idle, Smooth
        PROVE  live \subseteq {latest} /\ (latest = None \/ latest \in live)
    <2>1. \A s \in Sessions : kind[s] = "none"
      BY <1>1 DEF IInv, PhaseInv, Idle, TypeOK
    <2> QED
      BY <1>1, <2>1 DEF IInv, SmoothInv, Replacing, At
  <1>2. IInv => OneTokenLeft
    BY <1>1 DEF OneTokenLeft
  <1> QED
    BY <1>2, Invariant, PTL

\* Logins that overtake each other's lock still leave a token that works, when no
\* token is issued twice: each takes back its own, never the one that counts.
THEOREM LoginsCorrect == Spec => []LoginsAgree
  <1>1. ASSUME IInv, Idle, ~crossed, ~swept, ~again, stopped = 0
        PROVE  latest = None \/ latest \in live
    <2>1. \A s \in Sessions : kind[s] = "none"
      BY <1>1 DEF IInv, PhaseInv, Idle, TypeOK
    <2> QED
      BY <1>1, <2>1 DEF IInv, AgreeInv, Alone, At
  <1>2. IInv => LoginsAgree
    BY <1>1 DEF LoginsAgree
  <1> QED
    BY <1>2, Invariant, PTL

LEMMA NotAgain ==
  ASSUME IInv, [Next]_vars, Smooth, NEW r \in given, Accepted(r)', ~Accepted(r)
  PROVE  \E s \in Sessions : mine[s] = r /\ at[s] \in {"set", "latest"}
  <1> DEFINE Goal == \E s \in Sessions : mine[s] = r /\ at[s] \in {"set", "latest"}
  <1> SUFFICES Goal
    OBVIOUS
  <1>1. TypeOK /\ PhaseInv /\ LockInv /\ SmoothInv
    BY DEF IInv
  <1>2. Goal
    <2> USE <1>1, NamesAssumption DEF Accepted, At, GoTo, Begin, End, Read, storeVars,
         sessionVars, historyVars
    <2>1. ASSUME NEW s \in Sessions, Login(s) PROVE Goal
      BY <2>1 DEF Login
    <2>2. ASSUME NEW s \in Sessions, Acquire(s) PROVE Goal
      BY <2>2 DEF Acquire
    <2>3. ASSUME NEW s \in Sessions, GiveUp(s) PROVE Goal
      BY <2>3 DEF GiveUp
    <2>4. ASSUME NEW s \in Sessions, ReadOld(s) PROVE Goal
      BY <2>4 DEF ReadOld
    <2>5. ASSUME NEW s \in Sessions, DropOld(s) PROVE Goal
      BY <2>5 DEF DropOld
    <2>6. ASSUME NEW s \in Sessions, SetToken(s) PROVE Goal
      BY <2>6 DEF SetToken
    <2>7. ASSUME NEW s \in Sessions, SetLatest(s) PROVE Goal
      BY <2>7 DEF SetLatest, PhaseInv, Tokens
    <2>8. ASSUME NEW s \in Sessions, Recheck(s) PROVE Goal
      BY <2>8 DEF Recheck
    <2>9. ASSUME NEW s \in Sessions, Undo(s) PROVE Goal
      BY <2>9 DEF Undo
    <2>10. ASSUME NEW s \in Sessions, Release(s) PROVE Goal
      BY <2>10 DEF Release
    <2>11. ASSUME NEW s \in Sessions, Admit(s) PROVE Goal
      BY <2>11 DEF Admit
    <2>12. ASSUME NEW s \in Sessions, ReadLatest(s) PROVE Goal
      BY <2>12 DEF ReadLatest
    <2>13. ASSUME NEW s \in Sessions, DropToken(s) PROVE Goal
      BY <2>13 DEF DropToken
    <2>14. ASSUME NEW s \in Sessions, Forget(s) PROVE Goal
      BY <2>14 DEF Forget, SmoothInv, TypeOK
    <2>15. ASSUME NEW s \in Sessions, Compare(s) PROVE Goal
      BY <2>15 DEF Compare
    <2>16. ASSUME NEW s \in Sessions, DropForgotten(s) PROVE Goal
      BY <2>16 DEF DropForgotten
    <2>17. ASSUME NEW s \in Sessions, Stop(s) PROVE Goal
      BY <2>17 DEF Stop
    <2>18. ASSUME NEW s \in Sessions, NEW t \in live, Logout(s, t) PROVE Goal
      BY <2>18 DEF Logout
    <2>19. ASSUME NEW s \in Sessions, NEW t \in live, Clean(s, t) PROVE Goal
      BY <2>19 DEF Clean
    <2>20. ASSUME NEW t \in live, ExpireToken(t) PROVE Goal
      <3>1. CASE \E s \in Sessions : Replacing(s)
        BY <2>20, <3>1 DEF ExpireToken, SmoothInv, Replacing, TypeOK, PhaseInv
      <3>2. CASE \A s \in Sessions : ~Replacing(s)
        BY <2>20, <3>2 DEF ExpireToken, SmoothInv, TypeOK
      <3> QED
        BY <3>1, <3>2
    <2>21. ASSUME ExpireLock PROVE Goal
      BY <2>21 DEF ExpireLock
    <2>22. ASSUME Tick PROVE Goal
      BY <2>22 DEF Tick
    <2>23. CASE UNCHANGED vars
      BY <2>23 DEF vars
    <2> HIDE DEF Goal
    <2> QED
      BY <2>1, <2>2, <2>3, <2>4, <2>5, <2>6, <2>7, <2>8, <2>9, <2>10, <2>11, <2>12, <2>13, <2>14,
           <2>15, <2>16, <2>17, <2>18, <2>19, <2>20, <2>21, <2>22, <2>23 DEF Next
  <1> QED
    BY <1>2

\* A token that was refused is not accepted again while nothing goes wrong, unless a
\* login is just issuing it (verify_token against delete_token and the clean-up).
THEOREM RevivalCorrect == Spec => NoRevival
  <1> DEFINE Kept == Smooth => \A t \in given :
                Accepted(t)' /\ ~Accepted(t) =>
                   \E s \in Sessions : mine[s] = t /\ at[s] \in {"set", "latest"}
  <1>1. IInv /\ [Next]_vars => Kept
    BY NotAgain
  <1>2. IInv /\ [Next]_vars => [Kept]_vars
    BY <1>1
  <1>3. Spec => [][Kept]_vars
    BY <1>2, Invariant, PTL DEF Spec
  <1> QED
    BY <1>3 DEF NoRevival
=============================================================================
