------------------------------- MODULE Tokens -------------------------------
(***************************************************************************)
(* The access tokens of one user in Redis: token:{t} for every token that  *)
(* is known, user_token:{uid} for the one that counts.  A login replaces   *)
(* both under a lock that expires; a logout removes both without it; the   *)
(* clean-up of forgotten tokens takes the lock for every token it looks    *)
(* at.  Every step is one Redis command.                                   *)
(*                                                                         *)
(* A token carries the second it expires in and nothing random, so logins  *)
(* of one second are given the same token: tokens are seconds here.        *)
(***************************************************************************)
EXTENDS Integers, FiniteSets

CONSTANTS
    Sessions,       \* requests, and runs of the clean-up, at the same time
    MaxSeconds,     \* bound: the clock
    MaxMishaps,     \* bound: locks that expire under their holder, and stops
    None, Nobody, Orphan

ASSUME NamesAssumption ==
    /\ None \notin Nat
    /\ Nobody \notin Sessions /\ Orphan \notin Sessions /\ Nobody # Orphan

ASSUME BoundsAssumption == MaxSeconds \in Nat /\ MaxMishaps \in Nat

VARIABLES
    clock,
    live,       \* tokens t with a key token:{t}
    latest,     \* user_token:{uid}
    lock,       \* lock:user_token:{uid}
    at,         \* the command each session sends next
    kind,       \* what it is doing: "login", "logout", "clean" or "none"
    mine,       \* the token it was issued, authenticated with, or looks at
    old,        \* what it has read from user_token:{uid}
    given,      \* history: tokens that a login has returned
    crossed,    \* history: a logout and a login were under way together
    swept,      \* history: a clean-up and a login were under way together
    again,      \* history: a token was issued twice
    overtaken,  \* history: locks that expired under their holder
    stopped     \* history: sessions that ended between two commands

storeVars == <<live, latest>>
sessionVars == <<at, kind, mine, old>>
historyVars == <<given, crossed, swept, again, overtaken, stopped>>
vars == <<clock, live, latest, lock, at, kind, mine, old, given, crossed, swept,
          again, overtaken, stopped>>

Tokens == Nat

Init ==
    /\ clock = 0
    /\ live = {} /\ latest = None
    /\ lock = Nobody
    /\ at = [s \in Sessions |-> "idle"]
    /\ kind = [s \in Sessions |-> "none"]
    /\ mine = [s \in Sessions |-> None]
    /\ old = [s \in Sessions |-> None]
    /\ given = {}
    /\ crossed = FALSE /\ swept = FALSE /\ again = FALSE
    /\ overtaken = 0 /\ stopped = 0

\* What the next request that shows token t is told.
Accepted(t) == t \in live /\ latest \in {None, t}

At(s, k, step) == kind[s] = k /\ at[s] = step
GoTo(s, step) == at' = [at EXCEPT ![s] = step] /\ UNCHANGED <<kind, mine, old>>

Begin(s, k, t, step) ==
    /\ at[s] = "idle"
    /\ at' = [at EXCEPT ![s] = step]
    /\ kind' = [kind EXCEPT ![s] = k]
    /\ mine' = [mine EXCEPT ![s] = t]
    /\ UNCHANGED old

End(s) ==
    /\ at' = [at EXCEPT ![s] = "idle"]
    /\ kind' = [kind EXCEPT ![s] = "none"]
    /\ mine' = [mine EXCEPT ![s] = None]
    /\ old' = [old EXCEPT ![s] = None]

Read(s, step) ==
    /\ old' = [old EXCEPT ![s] = latest]
    /\ at' = [at EXCEPT ![s] = step]
    /\ UNCHANGED <<kind, mine>>

Under(k) == \E s \in Sessions : kind[s] = k

-----------------------------------------------------------------------------
(* Logging in *)

Login(s) ==
    /\ Begin(s, "login", clock, "acquire")
    /\ crossed' = (crossed \/ Under("logout"))
    /\ swept' = (swept \/ Under("clean"))
    /\ again' = (again \/ clock \in given \/ \E x \in Sessions : kind[x] = "login" /\ mine[x] = clock)
    /\ UNCHANGED <<clock, storeVars, lock, given, overtaken, stopped>>

Acquire(s) ==
    /\ at[s] = "acquire"
    /\ lock = Nobody
    /\ lock' = s
    /\ GoTo(s, IF kind[s] = "login" THEN "read" ELSE "compare")
    /\ UNCHANGED <<clock, storeVars, historyVars>>

\* The lock was not free while the session waited for it.
GiveUp(s) ==
    /\ at[s] = "acquire"
    /\ lock # Nobody
    /\ End(s)
    /\ UNCHANGED <<clock, storeVars, lock, historyVars>>

\* Slip: the token before this one is not looked for.
ReadOld_Never(s) ==
    /\ At(s, "login", "read")
    /\ GoTo(s, "drop")
    /\ UNCHANGED <<clock, storeVars, lock, historyVars>>

ReadOld(s) ==
    /\ At(s, "login", "read")
    /\ Read(s, "drop")
    /\ UNCHANGED <<clock, storeVars, lock, historyVars>>

DropOld(s) ==
    /\ At(s, "login", "drop")
    /\ live' = IF old[s] = mine[s] THEN live ELSE live \ {old[s]}
    /\ GoTo(s, "set")
    /\ UNCHANGED <<clock, latest, lock, historyVars>>

SetToken(s) ==
    /\ At(s, "login", "set")
    /\ live' = live \cup {mine[s]}
    /\ GoTo(s, "latest")
    /\ UNCHANGED <<clock, latest, lock, historyVars>>

SetLatest(s) ==
    /\ At(s, "login", "latest")
    /\ latest' = mine[s]
    /\ GoTo(s, "recheck")
    /\ UNCHANGED <<clock, live, lock, historyVars>>

Recheck(s) ==
    /\ At(s, "login", "recheck")
    /\ Read(s, IF latest \in {None, mine[s]} THEN "release" ELSE "undo")
    /\ UNCHANGED <<clock, storeVars, lock, historyVars>>

\* Slip: the token that was found there is taken away.
Undo_Other(s) ==
    /\ At(s, "login", "undo")
    /\ live' = live \ {old[s]}
    /\ GoTo(s, "release")
    /\ UNCHANGED <<clock, latest, lock, historyVars>>

Undo(s) ==
    /\ At(s, "login", "undo")
    /\ live' = live \ {mine[s]}
    /\ GoTo(s, "release")
    /\ UNCHANGED <<clock, latest, lock, historyVars>>

\* Slip: the caller is given what was read last.
Release_GivesOld(s) ==
    /\ at[s] = "release"
    /\ lock' = IF lock = s THEN Nobody ELSE lock
    /\ given' = IF kind[s] = "login" THEN given \cup {old[s]} ELSE given
    /\ End(s)
    /\ UNCHANGED <<clock, storeVars, crossed, swept, again, overtaken, stopped>>

\* Only the lock that still holds the session's own value is dropped.
Release(s) ==
    /\ at[s] = "release"
    /\ lock' = IF lock = s THEN Nobody ELSE lock
    /\ given' = IF kind[s] = "login" THEN given \cup {mine[s]} ELSE given
    /\ End(s)
    /\ UNCHANGED <<clock, storeVars, crossed, swept, again, overtaken, stopped>>

-----------------------------------------------------------------------------
(* Logging out: the token shown is looked up before anything is removed *)

Logout(s, t) ==
    /\ t \in given /\ t \in live
    /\ Begin(s, "logout", t, "admit")
    /\ crossed' = (crossed \/ Under("login"))
    /\ UNCHANGED <<clock, storeVars, lock, given, swept, again, overtaken, stopped>>

Admit(s) ==
    /\ At(s, "logout", "admit")
    /\ IF latest \in {None, mine[s]} THEN GoTo(s, "read") ELSE End(s)
    /\ UNCHANGED <<clock, storeVars, lock, historyVars>>

ReadLatest(s) ==
    /\ At(s, "logout", "read")
    /\ IF latest = None THEN End(s) ELSE Read(s, "drop")
    /\ UNCHANGED <<clock, storeVars, lock, historyVars>>

\* Slip: the key of the token is left to expire.
DropToken_Kept(s) ==
    /\ At(s, "logout", "drop")
    /\ GoTo(s, "forget")
    /\ UNCHANGED <<clock, storeVars, lock, historyVars>>

DropToken(s) ==
    /\ At(s, "logout", "drop")
    /\ live' = live \ {old[s]}
    /\ GoTo(s, "forget")
    /\ UNCHANGED <<clock, latest, lock, historyVars>>

Forget(s) ==
    /\ At(s, "logout", "forget")
    /\ latest' = None
    /\ End(s)
    /\ UNCHANGED <<clock, live, lock, historyVars>>

-----------------------------------------------------------------------------
(* Cleaning up, one token at a time *)

Clean(s, t) ==
    /\ t \in live
    /\ Begin(s, "clean", t, "acquire")
    /\ swept' = (swept \/ Under("login"))
    /\ UNCHANGED <<clock, storeVars, lock, given, crossed, again, overtaken, stopped>>

Compare(s) ==
    /\ At(s, "clean", "compare")
    /\ Read(s, IF latest = mine[s] THEN "release" ELSE "drop")
    /\ UNCHANGED <<clock, storeVars, lock, historyVars>>

DropForgotten(s) ==
    /\ At(s, "clean", "drop")
    /\ live' = live \ {mine[s]}
    /\ GoTo(s, "release")
    /\ UNCHANGED <<clock, latest, lock, historyVars>>

-----------------------------------------------------------------------------
(* Time and failures *)

Tick ==
    /\ clock < MaxSeconds
    /\ clock' = clock + 1
    /\ UNCHANGED <<storeVars, lock, sessionVars, historyVars>>

\* The two keys of one token are set together and expire together, long after
\* the requests that set them have ended.
ExpireToken(t) ==
    /\ t \in live /\ t < clock
    /\ \A s \in Sessions : mine[s] # t
    /\ live' = live \ {t}
    /\ latest' = IF latest = t THEN None ELSE latest
    /\ UNCHANGED <<clock, lock, sessionVars, historyVars>>

MoreMishaps == overtaken + stopped < MaxMishaps

ExpireLock ==
    /\ lock # Nobody
    /\ IF lock = Orphan THEN UNCHANGED overtaken
       ELSE MoreMishaps /\ overtaken' = overtaken + 1
    /\ lock' = Nobody
    /\ UNCHANGED <<clock, storeVars, sessionVars, given, crossed, swept, again, stopped>>

Stop(s) ==
    /\ at[s] # "idle"
    /\ MoreMishaps
    /\ stopped' = stopped + 1
    /\ lock' = IF lock = s THEN Orphan ELSE lock
    /\ End(s)
    /\ UNCHANGED <<clock, storeVars, given, crossed, swept, again, overtaken>>

Next ==
    \/ \E s \in Sessions :
          \/ Login(s) \/ Acquire(s) \/ GiveUp(s) \/ ReadOld(s) \/ DropOld(s)
          \/ SetToken(s) \/ SetLatest(s) \/ Recheck(s) \/ Undo(s) \/ Release(s)
          \/ \E t \in live : Logout(s, t) \/ Clean(s, t)
          \/ Admit(s) \/ ReadLatest(s) \/ DropToken(s) \/ Forget(s)
          \/ Compare(s) \/ DropForgotten(s)
          \/ Stop(s)
    \/ \E t \in live : ExpireToken(t)
    \/ ExpireLock
    \/ Tick

Spec == Init /\ [][Next]_vars

-----------------------------------------------------------------------------
(* Properties *)

Steps == {"idle", "acquire", "read", "drop", "set", "latest", "recheck", "undo", "release",
          "admit", "forget", "compare"}

TypeOK ==
    /\ clock \in Nat
    /\ live \subseteq Tokens
    /\ latest \in Tokens \cup {None}
    /\ lock \in Sessions \cup {Nobody, Orphan}
    /\ at \in [Sessions -> Steps]
    /\ kind \in [Sessions -> {"none", "login", "logout", "clean"}]
    /\ mine \in [Sessions -> Tokens \cup {None}]
    /\ old \in [Sessions -> Tokens \cup {None}]
    /\ given \subseteq Tokens
    /\ crossed \in BOOLEAN /\ swept \in BOOLEAN /\ again \in BOOLEAN
    /\ overtaken \in Nat /\ stopped \in Nat

Idle == \A s \in Sessions : at[s] = "idle"
Smooth == ~crossed /\ overtaken = 0 /\ stopped = 0

(* When logins and logouts have not crossed and nothing went wrong, Redis is
   left with both keys of the last login, or with none: every login has taken
   the token before it away, every logout its own. *)
OneTokenLeft ==
    Idle /\ Smooth =>
        /\ live \subseteq {latest}
        /\ latest = None \/ latest \in live

(* Logins leave a token that works even when one of them has overtaken the
   other's lock: each looks again at what it has written and takes its own
   token back, never the one that counts.  (It does not hold when a token is
   issued twice: who replaces the first takes the second away.) *)
LoginsAgree ==
    Idle /\ ~crossed /\ ~swept /\ ~again /\ stopped = 0 => latest = None \/ latest \in live

(* As long as nothing goes wrong, a token that was refused is not accepted again,
   but in the second in which it is issued again. *)
NoRevival ==
    [][Smooth => \A t \in given :
          Accepted(t)' /\ ~Accepted(t) => \E s \in Sessions : mine[s] = t /\ at[s] \in {"set", "latest"}]_vars
=============================================================================
