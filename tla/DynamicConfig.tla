---------------------------- MODULE DynamicConfig ----------------------------
(***************************************************************************)
(* The business parameters in the table sys_config, the copy of them that  *)
(* every server process keeps in memory, and the Redis channel over which  *)
(* the process that serves an update tells the others to load them again.  *)
(* A value is the number of the update that wrote it, 0 the default.       *)
(*                                                                         *)
(* load_all is a SELECT and, when the process goes on, the replacement of  *)
(* the copy; a process may run several at a time, one for its subscription *)
(* and one for each update it serves.  Init, Next, Spec and TypeOK are     *)
(* called ConfigInit, ... so that another component can be extended next   *)
(* to this one.                                                            *)
(***************************************************************************)
EXTENDS Naturals, FiniteSets

CONSTANTS
    Procs,      \* server processes
    Updates,    \* PATCH requests
    Keys,       \* keys of DEFAULT_DYNAMIC_CONFIGS
    MaxStops,   \* bound: processes that end, subscriptions lost
    Faults      \* "db", "redis": statements and commands fail

ASSUME UpdatesAssumption == IsFiniteSet(Updates)
ASSUME BoundAssumption == MaxStops \in Nat

VARIABLES
    seeded,     \* the table has its rows
    stored,     \* their values
    phase,      \* "off", then the steps of lifespan, then "up"
    knows,      \* whether the rows were there when the process looked
    cache,      \* DynamicConfigManager._cache
    subscribed,
    inbox,      \* refresh messages not yet handled
    listener,   \* "wait", or "install" after the SELECT of load_all
    loaded,     \* what that SELECT, or the one at start-up, has returned
    at,         \* the next step of each update
    host, key,  \* the process that serves it, and what it changes
    mine,       \* the value of key in its session
    found,      \* what its SELECT has returned
    behind,     \* history: processes that missed a refresh, or failed to load
    stops       \* history: processes that ended, subscriptions lost

rowVars == <<seeded, stored>>
procVars == <<phase, knows, cache, subscribed, inbox, listener, loaded>>
updateVars == <<at, host, key, mine, found>>
configVars == <<seeded, stored, phase, knows, cache, subscribed, inbox, listener, loaded,
                at, host, key, mine, found, behind, stops>>

Values == [Keys -> Nat]
Defaults == [k \in Keys |-> 0]

ConfigInit ==
    /\ seeded \in BOOLEAN
    /\ stored = Defaults
    /\ phase = [p \in Procs |-> "off"]
    /\ knows = [p \in Procs |-> FALSE]
    /\ cache = [p \in Procs |-> Defaults]
    /\ subscribed = {}
    /\ inbox = [p \in Procs |-> 0]
    /\ listener = [p \in Procs |-> "wait"]
    /\ loaded = [p \in Procs |-> Defaults]
    /\ at = [u \in Updates |-> "new"]
    /\ host \in [Updates -> Procs]
    /\ key \in [Updates -> Keys]
    /\ mine = [u \in Updates |-> 0]
    /\ found = [u \in Updates |-> Defaults]
    /\ behind = {}
    /\ stops = 0

Number == Cardinality({u \in Updates : at[u] # "new"})
Up == {p \in Procs : phase[p] = "up"}

-----------------------------------------------------------------------------
(* Start-up: seed_defaults_if_empty, load_all, and the task that subscribes,
   which runs when requests are served already. *)

Enter(p, step) == phase' = [phase EXCEPT ![p] = step]

LookForRows(p) ==
    /\ phase[p] = "off"
    /\ knows' = [knows EXCEPT ![p] = seeded]
    /\ Enter(p, "seed")
    /\ UNCHANGED <<rowVars, cache, subscribed, inbox, listener, loaded, updateVars, behind, stops>>

\* A process that inserts rows which another has inserted meanwhile ends.
Seed(p) ==
    /\ phase[p] = "seed"
    /\ seeded' = TRUE
    /\ Enter(p, IF ~knows[p] /\ seeded THEN "off" ELSE "load")
    /\ UNCHANGED <<stored, knows, cache, subscribed, inbox, listener, loaded, updateVars, behind, stops>>

LoadFirst(p) ==
    /\ phase[p] = "load"
    /\ loaded' = [loaded EXCEPT ![p] = stored]
    /\ Enter(p, "install")
    /\ behind' = behind \ {p}
    /\ UNCHANGED <<rowVars, knows, cache, subscribed, inbox, listener, updateVars, stops>>

InstallFirst(p) ==
    /\ phase[p] = "install"
    /\ cache' = [cache EXCEPT ![p] = loaded[p]]
    /\ Enter(p, "up")
    /\ UNCHANGED <<rowVars, knows, subscribed, inbox, listener, loaded, updateVars, behind, stops>>

Subscribe(p) ==
    /\ p \in Up \ subscribed
    /\ subscribed' = subscribed \cup {p}
    /\ UNCHANGED <<rowVars, phase, knows, cache, inbox, listener, loaded, updateVars, behind, stops>>

-----------------------------------------------------------------------------
(* watch_dynamic_config_refresh: one message after another *)

\* Slip: confirmations of the subscription are taken for messages.
Hear_Anything(p) ==
    /\ p \in Up \cap subscribed
    /\ listener[p] = "wait"
    /\ inbox' = [inbox EXCEPT ![p] = @ - 1]
    /\ loaded' = [loaded EXCEPT ![p] = stored]
    /\ listener' = [listener EXCEPT ![p] = "install"]
    /\ behind' = behind \ {p}
    /\ UNCHANGED <<rowVars, phase, knows, cache, subscribed, updateVars, stops>>

Hear(p) ==
    /\ p \in Up \cap subscribed
    /\ listener[p] = "wait"
    /\ inbox[p] > 0
    /\ inbox' = [inbox EXCEPT ![p] = @ - 1]
    /\ loaded' = [loaded EXCEPT ![p] = stored]
    /\ listener' = [listener EXCEPT ![p] = "install"]
    /\ behind' = behind \ {p}
    /\ UNCHANGED <<rowVars, phase, knows, cache, subscribed, updateVars, stops>>

\* A load that fails is logged, and the message is gone.
HearInVain(p) ==
    /\ "db" \in Faults
    /\ p \in Up \cap subscribed
    /\ listener[p] = "wait"
    /\ inbox[p] > 0
    /\ inbox' = [inbox EXCEPT ![p] = @ - 1]
    /\ behind' = behind \cup {p}
    /\ UNCHANGED <<rowVars, phase, knows, cache, subscribed, listener, loaded, updateVars, stops>>

Install(p) ==
    /\ listener[p] = "install"
    /\ cache' = [cache EXCEPT ![p] = loaded[p]]
    /\ listener' = [listener EXCEPT ![p] = "wait"]
    /\ UNCHANGED <<rowVars, phase, knows, subscribed, inbox, loaded, updateVars, behind, stops>>

-----------------------------------------------------------------------------
(* update_sys_config *)

Proceed(u, step) == at' = [at EXCEPT ![u] = step]

\* The others have no way to know of the value.
Unannounced == behind' = Procs

Commit(u) ==
    /\ at[u] = "new" /\ host[u] \in Up
    /\ stored' = [stored EXCEPT ![key[u]] = Number + 1]
    /\ Proceed(u, "reread")
    /\ UNCHANGED <<seeded, procVars, host, key, mine, found, behind, stops>>

\* The row is refreshed, and stays in the session as it is now.
Reread(u) ==
    /\ at[u] = "reread"
    /\ mine' = [mine EXCEPT ![u] = stored[key[u]]]
    /\ Proceed(u, "load")
    /\ UNCHANGED <<rowVars, procVars, host, key, found, behind, stops>>

LoadOwn(u) ==
    /\ at[u] = "load"
    /\ found' = [found EXCEPT ![u] = [stored EXCEPT ![key[u]] = mine[u]]]
    /\ Proceed(u, "install")
    /\ UNCHANGED <<rowVars, procVars, host, key, mine, behind, stops>>

InstallOwn(u) ==
    /\ at[u] = "install"
    /\ cache' = [cache EXCEPT ![host[u]] = found[u]]
    /\ Proceed(u, "publish")
    /\ UNCHANGED <<rowVars, phase, knows, subscribed, inbox, listener, loaded,
                   host, key, mine, found, behind, stops>>

\* Slip: the process that serves the update, which has just loaded it, is left out.
Publish_OthersOnly(u) ==
    /\ at[u] = "publish"
    /\ inbox' = [p \in Procs |-> inbox[p] + IF p \in subscribed \ {host[u]} THEN 1 ELSE 0]
    /\ behind' = behind \cup (Procs \ subscribed)
    /\ Proceed(u, "done")
    /\ UNCHANGED <<rowVars, phase, knows, cache, subscribed, listener, loaded,
                   host, key, mine, found, stops>>

\* Redis delivers to who is subscribed, the serving process too.
Publish(u) ==
    /\ at[u] = "publish"
    /\ inbox' = [p \in Procs |-> inbox[p] + IF p \in subscribed THEN 1 ELSE 0]
    /\ behind' = behind \cup (Procs \ subscribed)
    /\ Proceed(u, "done")
    /\ UNCHANGED <<rowVars, phase, knows, cache, subscribed, listener, loaded,
                   host, key, mine, found, stops>>

\* The request fails after its commit: nothing is published.
FailUpdate(u) ==
    /\ \/ "db" \in Faults /\ at[u] \in {"reread", "load"}
       \/ "redis" \in Faults /\ at[u] = "publish"
    /\ Unannounced
    /\ Proceed(u, "done")
    /\ UNCHANGED <<rowVars, procVars, host, key, mine, found, stops>>

-----------------------------------------------------------------------------
(* Processes that end, and connections that break *)

Stop(p) ==
    /\ stops < MaxStops /\ stops' = stops + 1
    /\ phase[p] # "off"
    /\ Enter(p, "off")
    /\ subscribed' = subscribed \ {p}
    /\ inbox' = [inbox EXCEPT ![p] = 0]
    /\ listener' = [listener EXCEPT ![p] = "wait"]
    /\ LET cut == {u \in Updates : host[u] = p /\ at[u] \notin {"new", "done"}}
       IN  /\ at' = [u \in Updates |-> IF u \in cut THEN "done" ELSE at[u]]
           /\ IF cut # {} THEN Unannounced ELSE UNCHANGED behind
    /\ UNCHANGED <<rowVars, knows, cache, loaded, host, key, mine, found>>

\* What was on its way is lost; the client subscribes again when it reconnects.
Disconnect(p) ==
    /\ stops < MaxStops /\ stops' = stops + 1
    /\ p \in subscribed
    /\ subscribed' = subscribed \ {p}
    /\ inbox' = [inbox EXCEPT ![p] = 0]
    /\ behind' = IF inbox[p] > 0 THEN behind \cup {p} ELSE behind
    /\ UNCHANGED <<rowVars, phase, knows, cache, listener, loaded, updateVars>>

StartUp(p) == LookForRows(p) \/ Seed(p) \/ LoadFirst(p) \/ InstallFirst(p) \/ Subscribe(p)
Listen(p) == Hear(p) \/ HearInVain(p) \/ Install(p)
Serve(u) == Commit(u) \/ Reread(u) \/ LoadOwn(u) \/ InstallOwn(u) \/ Publish(u) \/ FailUpdate(u)

ConfigNext ==
    \/ \E p \in Procs : StartUp(p) \/ Listen(p) \/ Stop(p) \/ Disconnect(p)
    \/ \E u \in Updates : Serve(u)

ConfigSpec == ConfigInit /\ [][ConfigNext]_configVars

-----------------------------------------------------------------------------
(* Properties *)

ConfigTypeOK ==
    /\ seeded \in BOOLEAN
    /\ stored \in Values
    /\ phase \in [Procs -> {"off", "seed", "load", "install", "up"}]
    /\ knows \in [Procs -> BOOLEAN]
    /\ cache \in [Procs -> Values]
    /\ subscribed \subseteq Procs
    /\ inbox \in [Procs -> Nat]
    /\ listener \in [Procs -> {"wait", "install"}]
    /\ loaded \in [Procs -> Values]
    /\ at \in [Updates -> {"new", "reread", "load", "install", "publish", "done"}]
    /\ host \in [Updates -> Procs]
    /\ key \in [Updates -> Keys]
    /\ mine \in [Updates -> Nat]
    /\ found \in [Updates -> Values]
    /\ behind \subseteq Procs
    /\ stops \in 0 .. MaxStops

\* Nothing on its way could still change what p has in memory.
Calm(p) ==
    /\ p \in Up /\ inbox[p] = 0 /\ listener[p] = "wait"
    /\ \A u \in Updates : at[u] \in {"new", "done"}

(* When every update has been answered and a process has handled its messages,
   it works with the values in the table, whatever loads have overtaken each
   other in it: unless it missed a message, because it had not subscribed yet
   or the update failed before it was published, or the load failed. *)
SettledAgrees ==
    \A p \in Procs : Calm(p) /\ p \notin behind => cache[p] = stored
=============================================================================
