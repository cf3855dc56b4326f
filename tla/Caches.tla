------------------------------- MODULE Caches -------------------------------
(***************************************************************************)
(* What Redis caches about one user, and the requests that read, change    *)
(* and drop it: user:profile:cache, which authentication fills,            *)
(* user:profile:me and user:profile:public, which the profile pages fill   *)
(* and every change of the profile should drop, and user:reputation.       *)
(*                                                                         *)
(* A key shows some columns; now[k] counts the changes of those columns,   *)
(* and what is cached is the count of the row it was built from.  Every    *)
(* step is one statement or one Redis command.                             *)
(***************************************************************************)
EXTENDS Naturals, FiniteSets

CONSTANTS
    Sessions,   \* requests that are served at the same time
    Kinds,      \* the handlers they run
    MaxWrites,  \* bound: writes of the user's row
    Faults,     \* "redis": commands fail; "stop": a process ends
    None

Profile == {"cache", "me", "public"}
Keys == Profile \cup {"reputation"}

\* The columns a handler changes, by the keys that show them.
Shows ==
    [update_me |-> Profile, update_user_admin |-> Profile, verify_email |-> Profile,
     delete_me |-> Profile, delete_user_admin |-> Profile, bind_phone |-> {"cache", "me"},
     upload |-> {"me", "public"}, add_credit |-> {"me", "public"},
     login |-> {"me"}, swagger_login |-> {"cache", "me"}, release_reviews |-> {"reputation"}]

\* The handlers that drop the three profile keys after their write, and those
\* of them that then fill user:profile:me again.
Droppers == {"update_me", "update_user_admin", "verify_email", "bind_phone",
             "delete_me", "delete_user_admin"}
Refillers == {"update_me", "update_user_admin", "bind_phone"}
Deleters == {"delete_me", "delete_user_admin"}

Writers == DOMAIN Shows
Reads == [get_me |-> "me", get_user_public |-> "public", get_user_profile |-> "reputation"]
Readers == DOMAIN Reads

\* Requests of the user himself, which get_current_user lets in first; and
\* handlers that look whether he is deleted, at their start only.
Own == {"get_me", "update_me", "verify_email", "delete_me", "bind_phone", "upload"}
Checked == {"get_user_profile", "login", "swagger_login", "add_credit"}

Steps == {"idle", "admit", "note", "check", "look", "load", "fill", "get", "write",
          "reload", "drop", "rebuild", "refill"}

ASSUME KindsAssumption == Kinds \subseteq Writers \cup Readers
ASSUME NoneAssumption == None \notin Nat
ASSUME BoundAssumption == MaxWrites \in Nat

VARIABLES
    now,        \* the version of what each key is built from
    deleted,    \* user.is_deleted
    cached,     \* the version each key shows, None without the key
    at, kind,   \* where each session is, in which handler
    mine,       \* the version it has read
    todrop,     \* keys it still has to drop
    late,       \* history: keys filled from a row that had been changed
    kept,       \* history: keys whose row was changed and that nobody drops
    early,      \* history: sessions under way when the user was deleted
    writes      \* history: writes so far

sessionVars == <<at, kind, mine, todrop>>
vars == <<now, deleted, cached, at, kind, mine, todrop, late, kept, early, writes>>

Init ==
    /\ now = [k \in Keys |-> 0]
    /\ deleted = FALSE
    /\ cached = [k \in Keys |-> None]
    /\ at = [s \in Sessions |-> "idle"]
    /\ kind = [s \in Sessions |-> "none"]
    /\ mine = [s \in Sessions |-> 0]
    /\ todrop = [s \in Sessions |-> {}]
    /\ late = {} /\ kept = {} /\ early = {}
    /\ writes = 0

-----------------------------------------------------------------------------
(* Helpers *)

At(s, step) == at[s] = step
GoTo(s, step) == at' = [at EXCEPT ![s] = step]

End(s) ==
    /\ GoTo(s, "idle")
    /\ kind' = [kind EXCEPT ![s] = "none"]
    /\ mine' = [mine EXCEPT ![s] = 0]
    /\ todrop' = [todrop EXCEPT ![s] = {}]
    /\ early' = early \ {s}

\* The first step of the handler proper.
Opening(k) ==
    CASE k \in Checked -> "check"
      [] k \in Readers \ Checked -> "look"
      [] k = "bind_phone" -> "get"
      [] OTHER -> "write"

Read(s, k) == mine' = [mine EXCEPT ![s] = now[k]]

\* Key k is filled with what the session has read.
Put(s, k) ==
    /\ cached' = [cached EXCEPT ![k] = mine[s]]
    /\ late' = IF mine[s] = now[k] THEN late \ {k} ELSE late \cup {k}
    /\ kept' = kept \ {k}

Gone(k) ==
    /\ cached' = [cached EXCEPT ![k] = None]
    /\ late' = late \ {k}
    /\ kept' = kept \ {k}

SameCache == UNCHANGED <<cached, late, kept>>
SameRow == UNCHANGED <<now, deleted, writes>>

-----------------------------------------------------------------------------
(* A request of the user himself is let in by get_current_user.  The cached
   profile never spares the SELECT: reading it fails on a name the function
   binds later, and the failure is passed over. *)

Begin(s) ==
    /\ At(s, "idle")
    /\ \E k \in Kinds :
         /\ kind' = [kind EXCEPT ![s] = k]
         /\ GoTo(s, IF k \in Own THEN "admit" ELSE Opening(k))
    /\ SameRow /\ SameCache
    /\ UNCHANGED <<mine, todrop, early>>

Admit(s) ==
    /\ At(s, "admit")
    /\ \/ deleted /\ End(s)
       \/ /\ ~deleted
          /\ Read(s, "cache") /\ GoTo(s, "note")
          /\ UNCHANGED <<kind, todrop, early>>
    /\ SameRow /\ SameCache

\* The profile is cached for the next request; a failure is passed over.
Note(s) ==
    /\ At(s, "note")
    /\ \/ Put(s, "cache")
       \/ "redis" \in Faults /\ SameCache
    /\ GoTo(s, Opening(kind[s])) /\ mine' = [mine EXCEPT ![s] = 0]
    /\ SameRow
    /\ UNCHANGED <<kind, todrop, early>>

-----------------------------------------------------------------------------
(* Reading through: the profile pages and the reputation *)

Check(s) ==
    /\ At(s, "check")
    /\ \/ deleted /\ End(s)
       \/ /\ ~deleted
          /\ GoTo(s, IF kind[s] \in Readers THEN "look" ELSE "write")
          /\ UNCHANGED <<kind, mine, todrop, early>>
    /\ SameRow /\ SameCache

\* A failing command is a miss for the pages and an error for the reputation.
Look(s) ==
    /\ At(s, "look")
    /\ LET fails == "redis" \in Faults
           hit == cached[Reads[kind[s]]] # None
       IN  \/ hit /\ End(s)
           \/ fails /\ kind[s] = "get_user_profile" /\ End(s)
           \/ /\ ~hit \/ (fails /\ kind[s] # "get_user_profile")
              /\ GoTo(s, "load")
              /\ UNCHANGED <<kind, mine, todrop, early>>
    /\ SameRow /\ SameCache

\* The pages read an undeleted user's row, the reputation any user's reviews.
Load(s) ==
    /\ At(s, "load")
    /\ \/ deleted /\ kind[s] # "get_user_profile" /\ End(s)
       \/ /\ ~deleted \/ kind[s] = "get_user_profile"
          /\ Read(s, Reads[kind[s]]) /\ GoTo(s, "fill")
          /\ UNCHANGED <<kind, todrop, early>>
    /\ SameRow /\ SameCache

Fill(s) ==
    /\ At(s, "fill")
    /\ \/ Put(s, Reads[kind[s]])
       \/ "redis" \in Faults /\ SameCache
    /\ End(s)
    /\ SameRow

-----------------------------------------------------------------------------
(* Changing the row *)

\* bind_phone takes the row into its session before it changes it, and shows
\* that row afterwards.
Get(s) ==
    /\ At(s, "get")
    /\ Read(s, "me") /\ GoTo(s, "write")
    /\ SameRow /\ SameCache
    /\ UNCHANGED <<kind, todrop, early>>

\* What follows a handler's write.
AfterWrite(s) ==
    CASE kind[s] \in {"update_me", "update_user_admin"} -> "reload"
      [] kind[s] \in Droppers \ {"update_me", "update_user_admin"} -> "drop"
      [] OTHER -> "idle"

Write(s) ==
    /\ At(s, "write")
    /\ writes < MaxWrites
    /\ writes' = writes + 1
    /\ LET changed == Shows[kind[s]]
           drops == IF kind[s] \in Droppers THEN Profile ELSE {}
       IN  /\ now' = [k \in Keys |-> now[k] + IF k \in changed THEN 1 ELSE 0]
           /\ kept' = kept \cup {k \in changed \ drops : cached[k] # None}
           /\ deleted' = (deleted \/ kind[s] \in Deleters)
           /\ IF drops = {}
              THEN End(s)
              ELSE /\ GoTo(s, AfterWrite(s))
                   /\ mine' = [mine EXCEPT ![s] =
                        IF kind[s] = "bind_phone" /\ @ = now["me"] THEN @ + 1 ELSE @]
                   /\ todrop' = [todrop EXCEPT ![s] = drops]
                   /\ early' = IF kind[s] \in Deleters /\ ~deleted
                               THEN {t \in Sessions : ~At(t, "idle")} ELSE early
                   /\ UNCHANGED kind
    /\ UNCHANGED <<cached, late>>

\* Slip: the row is read back through the filter on deleted users.
Reload_Filtered(s) ==
    /\ At(s, "reload")
    /\ mine' = [mine EXCEPT ![s] = IF deleted THEN None ELSE now["me"]]
    /\ GoTo(s, "drop")
    /\ SameRow /\ SameCache
    /\ UNCHANGED <<kind, todrop, early>>

\* The updates read the row back, and no later SELECT of the session replaces
\* what it holds.  A user deleted meanwhile ends his own request here.
Reload(s) ==
    /\ At(s, "reload")
    /\ \/ /\ deleted /\ kind[s] = "update_me"
          /\ kept' = kept \cup todrop[s]
          /\ End(s)
       \/ /\ ~deleted \/ kind[s] # "update_me"
          /\ Read(s, "me") /\ GoTo(s, "drop")
          /\ UNCHANGED <<kept, kind, todrop, early>>
    /\ SameRow
    /\ UNCHANGED <<cached, late>>

-----------------------------------------------------------------------------
(* Dropping the three keys, and filling user:profile:me again *)

Foremost(S) == IF "cache" \in S THEN "cache" ELSE IF "me" \in S THEN "me" ELSE "public"

\* Slip: user:profile:public is forgotten.
Drop_PublicStays(s) ==
    /\ At(s, "drop") /\ todrop[s] # {}
    /\ IF Foremost(todrop[s]) = "public" THEN SameCache ELSE Gone(Foremost(todrop[s]))
    /\ todrop' = [todrop EXCEPT ![s] = @ \ {Foremost(@)}]
    /\ SameRow
    /\ UNCHANGED <<at, kind, mine, early>>

Drop(s) ==
    /\ At(s, "drop") /\ todrop[s] # {}
    /\ Gone(Foremost(todrop[s]))
    /\ todrop' = [todrop EXCEPT ![s] = @ \ {Foremost(@)}]
    /\ SameRow
    /\ UNCHANGED <<at, kind, mine, early>>

\* A command that fails spares the keys that are left.
DropFails(s) ==
    /\ At(s, "drop") /\ todrop[s] # {}
    /\ "redis" \in Faults
    /\ kept' = kept \cup todrop[s]
    /\ todrop' = [todrop EXCEPT ![s] = {}]
    /\ SameRow
    /\ UNCHANGED <<cached, late, at, kind, mine, early>>

Dropped(s) ==
    /\ At(s, "drop") /\ todrop[s] = {}
    /\ IF kind[s] \in Refillers
       THEN GoTo(s, "rebuild") /\ UNCHANGED <<kind, mine, todrop, early>>
       ELSE End(s)
    /\ SameRow /\ SameCache

\* Slip: the row is selected whether or not the user is deleted.
Rebuild_Admin(s) ==
    /\ At(s, "rebuild")
    /\ GoTo(s, "refill") /\ UNCHANGED <<kind, mine, todrop, early>>
    /\ SameRow /\ SameCache

\* The SELECT of the rebuild finds no deleted user; the failure is passed over.
Rebuild(s) ==
    /\ At(s, "rebuild")
    /\ \/ deleted /\ End(s)
       \/ ~deleted /\ GoTo(s, "refill") /\ UNCHANGED <<kind, mine, todrop, early>>
    /\ SameRow /\ SameCache

Refill(s) ==
    /\ At(s, "refill")
    /\ \/ Put(s, "me")
       \/ "redis" \in Faults /\ SameCache
    /\ End(s)
    /\ SameRow

-----------------------------------------------------------------------------
\* USER_PROFILE_CACHE_TTL or REPUTATION_CACHE_TTL has passed.
Expire(k) ==
    /\ cached[k] # None
    /\ Gone(k)
    /\ SameRow
    /\ UNCHANGED <<sessionVars, early>>

Stop(s) ==
    /\ "stop" \in Faults
    /\ ~At(s, "idle")
    /\ kept' = kept \cup todrop[s]
    /\ End(s)
    /\ SameRow
    /\ UNCHANGED <<cached, late>>

Step(s) ==
    \/ Begin(s) \/ Admit(s) \/ Note(s)
    \/ Check(s) \/ Look(s) \/ Load(s) \/ Fill(s)
    \/ Get(s) \/ Write(s) \/ Reload(s)
    \/ Drop(s) \/ DropFails(s) \/ Dropped(s)
    \/ Rebuild(s) \/ Refill(s)
    \/ Stop(s)

Next == (\E s \in Sessions : Step(s)) \/ (\E k \in Keys : Expire(k))

Spec == Init /\ [][Next]_vars

-----------------------------------------------------------------------------
(* Properties *)

TypeOK ==
    /\ now \in [Keys -> Nat]
    /\ deleted \in BOOLEAN
    /\ cached \in [Keys -> Nat \cup {None}]
    /\ at \in [Sessions -> Steps]
    /\ kind \in [Sessions -> Kinds \cup {"none"}]
    /\ mine \in [Sessions -> Nat]
    /\ todrop \in [Sessions -> SUBSET Profile]
    /\ late \subseteq Keys /\ kept \subseteq Keys
    /\ early \subseteq Sessions
    /\ writes \in 0 .. MaxWrites

Stale(k) == cached[k] \notin {None, now[k]}

(* A key shows an old row for one of four reasons only: a handler that drops it
   has not come to it yet, or failed or stopped before; the change was of a
   kind that drops nothing (uploads, credit, logins, released reviews); or a
   row read before the change was filled in after it.  Apart from these every
   page shows the latest change at once. *)
StaleHasCause ==
    \A k \in Keys : Stale(k) => k \in late \cup kept \/ \E s \in Sessions : k \in todrop[s]

(* What a deleted user's keys showed may linger in a request that was under way
   when he was deleted, but no later request puts it into Redis again: neither
   his own, nor a visitor's, nor an administrator's edit of him. *)
DeletedStaysGone ==
    [][deleted => \A k \in Keys :
         cached'[k] \in {cached[k], None} \/ \E s \in early : at'[s] # at[s]]_vars
=============================================================================
