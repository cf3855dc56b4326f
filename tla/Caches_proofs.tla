---------------------------- MODULE Caches_proofs ----------------------------
(***************************************************************************)
(* What the caches of one user show is old for a known reason only, for    *)
(* every number of sessions, writes and every choice of handlers.  The     *)
(* inductive invariant adds to the types where a session may owe a drop    *)
(* and which handlers reach which step.                                    *)
(***************************************************************************)
EXTENDS Caches, TLAPS

Reading == {"look", "load", "fill"}
Filling == {"note", "fill", "refill"}

\* Only a session between its write and its last drop has keys to drop.
Owing == \A s \in Sessions : todrop[s] # {} => at[s] \in {"reload", "drop"}

\* A session without a handler is idle; readers alone read through, writers
\* alone write.
Placed ==
    \A s \in Sessions :
        /\ IF At(s, "idle") THEN kind[s] = "none" ELSE kind[s] \in Kinds
        /\ at[s] \in Reading => kind[s] \in Readers
        /\ at[s] \in {"get", "write"} => kind[s] \in Writers

\* A request that begins after the deletion never comes to fill a key.
Barred ==
    deleted => \A s \in Sessions \ early :
        /\ at[s] \notin Filling
        /\ kind[s] = "get_user_profile" => At(s, "check")

Inv == TypeOK /\ Owing /\ Placed /\ StaleHasCause /\ Barred

\* What a handler that drops keys changes is shown by the keys it drops.
LEMMA DropsWhatItChanges == \A k \in Droppers : Shows[k] \subseteq Profile
  BY DEF Droppers, Shows, Profile

\* What the readers read is one of the keys.
LEMMA ReadsKeys == \A k \in Readers : Reads[k] \in Keys
  BY DEF Readers, Reads, Keys, Profile

\* What the writers change is shown by keys.
LEMMA ShowsKeys == \A k \in Writers : Shows[k] \subseteq Keys
  BY DEF Writers, Shows, Keys, Profile

\* The first step of a handler never fills, and is one of its kind.
LEMMA OpeningStep ==
  ASSUME NEW k
  PROVE  /\ Opening(k) \in {"check", "look", "get", "write"}
         /\ Opening(k) = "look" => k \in Readers
         /\ Opening(k) \in {"get", "write"} /\ k \in Kinds => k \in Writers
         /\ k = "get_user_profile" => Opening(k) = "check"
  BY KindsAssumption DEF Opening, Readers, Reads, Checked, Writers, Shows

\* Whoever deletes drops the keys.
LEMMA DeletersDrop == Deleters \subseteq Droppers
  BY DEF Deleters, Droppers

LEMMA InitInv == Init => Inv
  <1> SUFFICES ASSUME Init PROVE Inv
    OBVIOUS
  <1>1. TypeOK
    <2>1. 0 \in Nat /\ 0 \in 0 .. MaxWrites /\ "idle" \in Steps
      BY BoundAssumption DEF Steps
    <2>. QED
      BY <2>1 DEF Init, TypeOK
  <1>2. Owing /\ Placed /\ Barred
    BY DEF Init, Owing, Placed, Barred, At, Reading
  <1>3. StaleHasCause
    BY DEF Init, StaleHasCause, Stale
  <1>. QED
    BY <1>1, <1>2, <1>3 DEF Inv

\* Types.
LEMMA TypeStep ==
  ASSUME TypeOK, Placed, [Next]_vars
  PROVE  TypeOK'
  <1>. USE DEF TypeOK, Placed, At, GoTo, End, Read, SameCache, SameRow, Steps, sessionVars
  <1>1. ASSUME NEW s \in Sessions, Begin(s) PROVE TypeOK'
    BY <1>1, OpeningStep, KindsAssumption DEF Begin
  <1>2. ASSUME NEW s \in Sessions, Admit(s) PROVE TypeOK'
    <2>1. "cache" \in Keys
      BY DEF Keys, Profile
    <2>. QED
      BY <1>2, <2>1 DEF Admit
  <1>3. ASSUME NEW s \in Sessions, Note(s) PROVE TypeOK'
    <2>1. "cache" \in Keys
      BY DEF Keys, Profile
    <2>. QED
      BY <1>3, <2>1, OpeningStep DEF Note, Put
  <1>4. ASSUME NEW s \in Sessions, Check(s) PROVE TypeOK'
    BY <1>4 DEF Check
  <1>5. ASSUME NEW s \in Sessions, Look(s) PROVE TypeOK'
    BY <1>5 DEF Look
  <1>6. ASSUME NEW s \in Sessions, Load(s) PROVE TypeOK'
    <2>1. At(s, "load") => Reads[kind[s]] \in Keys
      BY ReadsKeys DEF Reading
    <2>. QED
      BY <1>6, <2>1 DEF Load
  <1>7. ASSUME NEW s \in Sessions, Fill(s) PROVE TypeOK'
    <2>1. At(s, "fill") => Reads[kind[s]] \in Keys
      BY ReadsKeys DEF Reading
    <2>. QED
      BY <1>7, <2>1 DEF Fill, Put
  <1>8. ASSUME NEW s \in Sessions, Get(s) PROVE TypeOK'
    <2>1. "me" \in Keys
      BY DEF Keys, Profile
    <2>. QED
      BY <1>8, <2>1 DEF Get
  <1>9. ASSUME NEW s \in Sessions, Write(s) PROVE TypeOK'
    <2>1. now' \in [Keys -> Nat] /\ kept' \subseteq Keys
      <3>1. \A k \in Keys : now'[k] \in {now[k], now[k] + 1}
        BY <1>9 DEF Write
      <3>2. now' = [k \in Keys |-> now'[k]]
        BY <1>9 DEF Write
      <3>3. kept' = kept \cup {k \in Shows[kind[s]] \ (IF kind[s] \in Droppers THEN Profile ELSE {}) :
                                cached[k] # None}
        BY <1>9 DEF Write
      <3>4. Shows[kind[s]] \subseteq Keys
        BY <1>9, ShowsKeys DEF Write
      <3>. QED
        BY <3>1, <3>2, <3>3, <3>4
    <2>2. writes' \in 0 .. MaxWrites
      BY <1>9, BoundAssumption DEF Write
    <2>3. at' \in [Sessions -> Steps] /\ todrop' \in [Sessions -> SUBSET Profile]
      BY <1>9 DEF Write, AfterWrite
    <2>4. mine' \in [Sessions -> Nat]
      BY <1>9 DEF Write
    <2>. QED
      BY <1>9, <2>1, <2>2, <2>3, <2>4 DEF Write
  <1>10. ASSUME NEW s \in Sessions, Reload(s) PROVE TypeOK'
    <2>1. "me" \in Keys /\ Profile \subseteq Keys
      BY DEF Keys, Profile
    <2>. QED
      BY <1>10, <2>1 DEF Reload
  <1>11. ASSUME NEW s \in Sessions, Drop(s) PROVE TypeOK'
    <2>1. Profile \subseteq Keys
      BY DEF Keys
    <2>. QED
      BY <1>11, <2>1 DEF Drop, Gone
  <1>12. ASSUME NEW s \in Sessions, DropFails(s) PROVE TypeOK'
    <2>1. Profile \subseteq Keys
      BY DEF Keys
    <2>. QED
      BY <1>12, <2>1 DEF DropFails
  <1>13. ASSUME NEW s \in Sessions, Dropped(s) PROVE TypeOK'
    BY <1>13 DEF Dropped
  <1>14. ASSUME NEW s \in Sessions, Rebuild(s) PROVE TypeOK'
    BY <1>14 DEF Rebuild
  <1>15. ASSUME NEW s \in Sessions, Refill(s) PROVE TypeOK'
    <2>1. "me" \in Keys
      BY DEF Keys, Profile
    <2>. QED
      BY <1>15, <2>1 DEF Refill, Put
  <1>16. ASSUME NEW s \in Sessions, Stop(s) PROVE TypeOK'
    <2>1. Profile \subseteq Keys
      BY DEF Keys
    <2>. QED
      BY <1>16, <2>1 DEF Stop
  <1>17. ASSUME NEW k \in Keys, Expire(k) PROVE TypeOK'
    BY <1>17 DEF Expire, Gone
  <1>18. CASE UNCHANGED vars
    BY <1>18 DEF vars
  <1>. QED
    BY <1>1, <1>2, <1>3, <1>4, <1>5, <1>6, <1>7, <1>8, <1>9, <1>10, <1>11, <1>12, <1>13, <1>14, <1>15, <1>16, <1>17, <1>18 DEF Next, Step

\* Drops are owed by writers only.
LEMMA OwingStep ==
  ASSUME TypeOK, Owing, [Next]_vars
  PROVE  Owing'
  <1>. USE DEF TypeOK, Owing, At, GoTo, End, Read, SameCache, SameRow, sessionVars
  <1>1. ASSUME NEW s \in Sessions, Begin(s) PROVE Owing'
    BY <1>1 DEF Begin
  <1>2. ASSUME NEW s \in Sessions, Admit(s) PROVE Owing'
    BY <1>2 DEF Admit
  <1>3. ASSUME NEW s \in Sessions, Note(s) PROVE Owing'
    BY <1>3 DEF Note
  <1>4. ASSUME NEW s \in Sessions, Check(s) PROVE Owing'
    BY <1>4 DEF Check
  <1>5. ASSUME NEW s \in Sessions, Look(s) PROVE Owing'
    BY <1>5 DEF Look
  <1>6. ASSUME NEW s \in Sessions, Load(s) PROVE Owing'
    BY <1>6 DEF Load
  <1>7. ASSUME NEW s \in Sessions, Fill(s) PROVE Owing'
    BY <1>7 DEF Fill
  <1>8. ASSUME NEW s \in Sessions, Get(s) PROVE Owing'
    BY <1>8 DEF Get
  <1>9. ASSUME NEW s \in Sessions, Write(s) PROVE Owing'
    <2>1. kind[s] \in Droppers => AfterWrite(s) \in {"reload", "drop"}
      BY DEF AfterWrite
    <2>. QED
      BY <1>9, <2>1 DEF Write
  <1>10. ASSUME NEW s \in Sessions, Reload(s) PROVE Owing'
    BY <1>10 DEF Reload
  <1>11. ASSUME NEW s \in Sessions, Drop(s) PROVE Owing'
    BY <1>11 DEF Drop
  <1>12. ASSUME NEW s \in Sessions, DropFails(s) PROVE Owing'
    BY <1>12 DEF DropFails
  <1>13. ASSUME NEW s \in Sessions, Dropped(s) PROVE Owing'
    BY <1>13 DEF Dropped
  <1>14. ASSUME NEW s \in Sessions, Rebuild(s) PROVE Owing'
    BY <1>14 DEF Rebuild
  <1>15. ASSUME NEW s \in Sessions, Refill(s) PROVE Owing'
    BY <1>15 DEF Refill
  <1>16. ASSUME NEW s \in Sessions, Stop(s) PROVE Owing'
    BY <1>16 DEF Stop
  <1>17. ASSUME NEW k \in Keys, Expire(k) PROVE Owing'
    BY <1>17 DEF Expire, Gone
  <1>18. CASE UNCHANGED vars
    BY <1>18 DEF vars
  <1>. QED
    BY <1>1, <1>2, <1>3, <1>4, <1>5, <1>6, <1>7, <1>8, <1>9, <1>10, <1>11, <1>12, <1>13, <1>14, <1>15, <1>16, <1>17, <1>18 DEF Next, Step

\* Idle sessions and readers.
LEMMA PlacedStep ==
  ASSUME TypeOK, Placed, [Next]_vars
  PROVE  Placed'
  <1>. USE DEF TypeOK, Placed, At, GoTo, End, Read, SameCache, SameRow, sessionVars, Reading
  <1>1. ASSUME NEW s \in Sessions, Begin(s) PROVE Placed'
    <2>1. PICK k \in Kinds : kind' = [kind EXCEPT ![s] = k] /\ at'[s] \in {"admit", Opening(k)}
      BY <1>1 DEF Begin
    <2>2. at'[s] # "idle" /\ (at'[s] \in Reading => k \in Readers)
                        /\ (at'[s] \in {"get", "write"} => k \in Writers)
      BY <2>1, OpeningStep
    <2>. QED
      BY <1>1, <2>1, <2>2 DEF Begin
  <1>2. ASSUME NEW s \in Sessions, Admit(s) PROVE Placed'
    BY <1>2 DEF Admit
  <1>3. ASSUME NEW s \in Sessions, Note(s) PROVE Placed'
    BY <1>3, OpeningStep DEF Note
  <1>4. ASSUME NEW s \in Sessions, Check(s) PROVE Placed'
    BY <1>4, KindsAssumption DEF Check
  <1>5. ASSUME NEW s \in Sessions, Look(s) PROVE Placed'
    BY <1>5 DEF Look
  <1>6. ASSUME NEW s \in Sessions, Load(s) PROVE Placed'
    BY <1>6 DEF Load
  <1>7. ASSUME NEW s \in Sessions, Fill(s) PROVE Placed'
    BY <1>7 DEF Fill
  <1>8. ASSUME NEW s \in Sessions, Get(s) PROVE Placed'
    BY <1>8 DEF Get
  <1>9. ASSUME NEW s \in Sessions, Write(s) PROVE Placed'
    BY <1>9 DEF Write, AfterWrite
  <1>10. ASSUME NEW s \in Sessions, Reload(s) PROVE Placed'
    BY <1>10 DEF Reload
  <1>11. ASSUME NEW s \in Sessions, Drop(s) PROVE Placed'
    BY <1>11 DEF Drop
  <1>12. ASSUME NEW s \in Sessions, DropFails(s) PROVE Placed'
    BY <1>12 DEF DropFails
  <1>13. ASSUME NEW s \in Sessions, Dropped(s) PROVE Placed'
    BY <1>13 DEF Dropped
  <1>14. ASSUME NEW s \in Sessions, Rebuild(s) PROVE Placed'
    BY <1>14 DEF Rebuild
  <1>15. ASSUME NEW s \in Sessions, Refill(s) PROVE Placed'
    BY <1>15 DEF Refill
  <1>16. ASSUME NEW s \in Sessions, Stop(s) PROVE Placed'
    BY <1>16 DEF Stop
  <1>17. ASSUME NEW k \in Keys, Expire(k) PROVE Placed'
    BY <1>17 DEF Expire, Gone
  <1>18. CASE UNCHANGED vars
    BY <1>18 DEF vars
  <1>. QED
    BY <1>1, <1>2, <1>3, <1>4, <1>5, <1>6, <1>7, <1>8, <1>9, <1>10, <1>11, <1>12, <1>13, <1>14, <1>15, <1>16, <1>17, <1>18 DEF Next, Step

\* No step leaves an old row in a key without a cause.
LEMMA StaleStep ==
  ASSUME Inv, [Next]_vars
  PROVE  StaleHasCause'
  <1>. USE DEF Inv, TypeOK, Owing, StaleHasCause, Stale, At, GoTo, End, Read, SameCache, SameRow, sessionVars
  <1>1. ASSUME NEW s \in Sessions, Begin(s) PROVE StaleHasCause'
    BY <1>1 DEF Begin
  <1>2. ASSUME NEW s \in Sessions, Admit(s) PROVE StaleHasCause'
    BY <1>2 DEF Admit
  <1>3. ASSUME NEW s \in Sessions, Note(s) PROVE StaleHasCause'
    BY <1>3 DEF Note, Put
  <1>4. ASSUME NEW s \in Sessions, Check(s) PROVE StaleHasCause'
    BY <1>4 DEF Check
  <1>5. ASSUME NEW s \in Sessions, Look(s) PROVE StaleHasCause'
    BY <1>5 DEF Look
  <1>6. ASSUME NEW s \in Sessions, Load(s) PROVE StaleHasCause'
    BY <1>6 DEF Load
  <1>7. ASSUME NEW s \in Sessions, Fill(s) PROVE StaleHasCause'
    BY <1>7 DEF Fill, Put
  <1>8. ASSUME NEW s \in Sessions, Get(s) PROVE StaleHasCause'
    BY <1>8 DEF Get
  <1>9. ASSUME NEW s \in Sessions, Write(s) PROVE StaleHasCause'
    <2>. SUFFICES ASSUME NEW k \in Keys, Stale(k)'
                  PROVE  k \in late' \cup kept' \/ \E t \in Sessions : k \in todrop'[t]
      OBVIOUS
    <2>1. todrop[s] = {}
      BY <1>9 DEF Write
    <2>2. CASE Stale(k)
      BY <1>9, <2>1, <2>2 DEF Write
    <2>3. CASE ~Stale(k)
      <3>1. k \in Shows[kind[s]] /\ cached[k] # None
        BY <1>9, <2>3 DEF Write
      <3>2. CASE kind[s] \in Droppers
        BY <1>9, <3>1, <3>2, DropsWhatItChanges DEF Write, Profile
      <3>3. CASE kind[s] \notin Droppers
        BY <1>9, <3>1, <3>3 DEF Write
      <3>. QED
        BY <3>2, <3>3
    <2>. QED
      BY <2>2, <2>3
  <1>10. ASSUME NEW s \in Sessions, Reload(s) PROVE StaleHasCause'
    BY <1>10 DEF Reload
  <1>11. ASSUME NEW s \in Sessions, Drop(s) PROVE StaleHasCause'
    BY <1>11 DEF Drop, Gone
  <1>12. ASSUME NEW s \in Sessions, DropFails(s) PROVE StaleHasCause'
    BY <1>12 DEF DropFails
  <1>13. ASSUME NEW s \in Sessions, Dropped(s) PROVE StaleHasCause'
    BY <1>13 DEF Dropped
  <1>14. ASSUME NEW s \in Sessions, Rebuild(s) PROVE StaleHasCause'
    BY <1>14 DEF Rebuild
  <1>15. ASSUME NEW s \in Sessions, Refill(s) PROVE StaleHasCause'
    BY <1>15 DEF Refill, Put
  <1>16. ASSUME NEW s \in Sessions, Stop(s) PROVE StaleHasCause'
    BY <1>16 DEF Stop
  <1>17. ASSUME NEW k \in Keys, Expire(k) PROVE StaleHasCause'
    BY <1>17 DEF Expire, Gone
  <1>18. CASE UNCHANGED vars
    BY <1>18 DEF vars
  <1>. QED
    BY <1>1, <1>2, <1>3, <1>4, <1>5, <1>6, <1>7, <1>8, <1>9, <1>10, <1>11, <1>12, <1>13, <1>14, <1>15, <1>16, <1>17, <1>18 DEF Next, Step

\* Requests after the deletion are turned away before they fill a key.
LEMMA BarredStep ==
  ASSUME Inv, [Next]_vars
  PROVE  Barred'
  <1>. USE DEF Inv, TypeOK, Placed, Barred, At, GoTo, End, Read, SameCache, SameRow, sessionVars, Reading, Filling
  <1>1. ASSUME NEW s \in Sessions, Begin(s) PROVE Barred'
    <2>1. PICK k \in Kinds : /\ kind' = [kind EXCEPT ![s] = k]
                          /\ at'[s] = IF k \in Own THEN "admit" ELSE Opening(k)
      BY <1>1 DEF Begin
    <2>2. at'[s] \notin Filling /\ (k = "get_user_profile" => at'[s] = "check")
      BY <2>1, OpeningStep DEF Own
    <2>. QED
      BY <1>1, <2>1, <2>2 DEF Begin
  <1>2. ASSUME NEW s \in Sessions, Admit(s) PROVE Barred'
    BY <1>2 DEF Admit
  <1>3. ASSUME NEW s \in Sessions, Note(s) PROVE Barred'
    BY <1>3 DEF Note
  <1>4. ASSUME NEW s \in Sessions, Check(s) PROVE Barred'
    BY <1>4 DEF Check
  <1>5. ASSUME NEW s \in Sessions, Look(s) PROVE Barred'
    BY <1>5 DEF Look
  <1>6. ASSUME NEW s \in Sessions, Load(s) PROVE Barred'
    BY <1>6 DEF Load
  <1>7. ASSUME NEW s \in Sessions, Fill(s) PROVE Barred'
    BY <1>7 DEF Fill
  <1>8. ASSUME NEW s \in Sessions, Get(s) PROVE Barred'
    BY <1>8 DEF Get
  <1>9. ASSUME NEW s \in Sessions, Write(s) PROVE Barred'
    <2>1. at'[s] \in {"reload", "drop", "idle"}
      BY <1>9 DEF Write, AfterWrite
    <2>2. kind[s] # "get_user_profile" /\ kind'[s] \in {kind[s], "none"}
      BY <1>9 DEF Write, Writers, Shows
    <2>3. \A t \in Sessions \ {s} : at'[t] = at[t] /\ kind'[t] = kind[t]
      BY <1>9 DEF Write
    <2>4. CASE deleted /\ early' \in {early, early \ {s}}
      BY <2>1, <2>2, <2>3, <2>4
    <2>5. CASE ~deleted /\ deleted'
      <3>1. kind[s] \in Deleters /\ Profile # {}
        BY <1>9, <2>5 DEF Write, Profile
      <3>2. early' = {t \in Sessions : ~At(t, "idle")}
        BY <1>9, <2>5, <3>1, DeletersDrop DEF Write
      <3>3. s \in early'
        BY <1>9, <3>2 DEF Write
      <3>. QED
        BY <2>3, <3>2, <3>3
    <2>6. CASE ~deleted'
      BY <2>6
    <2>. QED
      BY <1>9, <2>4, <2>5, <2>6 DEF Write
  <1>10. ASSUME NEW s \in Sessions, Reload(s) PROVE Barred'
    BY <1>10 DEF Reload
  <1>11. ASSUME NEW s \in Sessions, Drop(s) PROVE Barred'
    BY <1>11 DEF Drop
  <1>12. ASSUME NEW s \in Sessions, DropFails(s) PROVE Barred'
    BY <1>12 DEF DropFails
  <1>13. ASSUME NEW s \in Sessions, Dropped(s) PROVE Barred'
    BY <1>13 DEF Dropped
  <1>14. ASSUME NEW s \in Sessions, Rebuild(s) PROVE Barred'
    BY <1>14 DEF Rebuild
  <1>15. ASSUME NEW s \in Sessions, Refill(s) PROVE Barred'
    BY <1>15 DEF Refill
  <1>16. ASSUME NEW s \in Sessions, Stop(s) PROVE Barred'
    BY <1>16 DEF Stop
  <1>17. ASSUME NEW k \in Keys, Expire(k) PROVE Barred'
    BY <1>17 DEF Expire, Gone
  <1>18. CASE UNCHANGED vars
    BY <1>18 DEF vars
  <1>. QED
    BY <1>1, <1>2, <1>3, <1>4, <1>5, <1>6, <1>7, <1>8, <1>9, <1>10, <1>11, <1>12, <1>13, <1>14, <1>15, <1>16, <1>17, <1>18 DEF Next, Step

(* What the caches keep, whatever readers and writers interleave, is inductive. *)
THEOREM Invariant == Spec => []Inv
  <1>1. Inv /\ [Next]_vars => Inv'
    BY TypeStep, OwingStep, PlacedStep, StaleStep, BarredStep DEF Inv
  <1>. QED
    BY InitInv, <1>1, PTL DEF Spec

(* Every variable keeps its type, for any number of sessions and writes. *)
THEOREM TypeCorrect == Spec => []TypeOK
  BY Invariant, PTL DEF Inv

(* No key shows an old row without one of the known causes. *)
THEOREM StaleCorrect == Spec => []StaleHasCause
  BY Invariant, PTL DEF Inv

(* No request that began after the deletion caches anything. *)
THEOREM DeletedCorrect == Spec => DeletedStaysGone
  <1>. DEFINE Kept == \A k \in Keys :
                cached'[k] \in {cached[k], None} \/ \E s \in early : at'[s] # at[s]
  <1>1. ASSUME Inv, [Next]_vars, deleted PROVE Kept
    <2>. USE DEF Inv, TypeOK, Barred, Filling, At, GoTo, End, SameCache
    <2>1. ASSUME NEW s \in Sessions, Note(s) \/ Fill(s) \/ Refill(s) PROVE Kept
      <3>1. s \in early
        BY <1>1, <2>1 DEF Note, Fill, Refill
      <3>2. Opening(kind[s]) # "note"
        BY OpeningStep
      <3>3. at'[s] # at[s]
        BY <1>1, <2>1, <3>2 DEF Note, Fill, Refill
      <3>. QED
        BY <3>1, <3>3
    <2>2. ASSUME NEW s \in Sessions, Drop(s) PROVE Kept
      BY <2>2 DEF Drop, Gone
    <2>3. ASSUME NEW k \in Keys, Expire(k) PROVE Kept
      BY <2>3 DEF Expire, Gone
    <2>4. CASE UNCHANGED cached
      BY <2>4
    <2>5. ASSUME NEW s \in Sessions, Step(s) PROVE Kept
      BY <2>1, <2>2, <2>4, <2>5
         DEF Step, Begin, Admit, Check, Look, Load, Get, Write, Reload, DropFails, Dropped,
             Rebuild, Stop
    <2>. QED
      BY <1>1, <2>3, <2>4, <2>5 DEF Next, vars
  <1>2. Inv /\ [Next]_vars => [deleted => Kept]_vars
    BY <1>1
  <1>. QED
    BY Invariant, <1>2, PTL DEF Spec, DeletedStaysGone
=============================================================================
