------------------------------ MODULE Signals ------------------------------
(***************************************************************************)
(* OS signals on Unix, for one signal whose default ends or stops the      *)
(* process: crates/oam_core/src/signal.rs.                                 *)
(*                                                                         *)
(* Every isolate that listens has a handle on the signal; tokio's handler  *)
(* replaces SIG_DFL for good and hands a delivery to every receiver.  One  *)
(* task per process reproduces the default for a delivery that no listener *)
(* anywhere watches, which it decides from a count of watched handles.  A  *)
(* handle's flag and the count are changed one after the other, on the     *)
(* isolate's thread; the task runs on a runtime of its own.                *)
(***************************************************************************)
EXTENDS Integers, FiniteSets

CONSTANTS
    Listener,    \* the isolates
    MaxRaised,   \* bound on the deliveries
    MaxToggles   \* bound on the listeners added and removed

ASSUME SignalsAssumption ==
    IsFiniteSet(Listener) /\ MaxRaised \in Nat /\ MaxToggles \in Nat

VARIABLES
    stops,       \* the signal is SIGTSTP: its default stops the process
    life,        \* the process: running, stopped, dead
    installed,   \* tokio's handler is in place, not SIG_DFL
    served,      \* SERVED has the signal: the default's task is there
    handle,      \* isolate -> its SignalHandle: none, live, dropped
    watched,     \* isolate -> SignalHandle::watched
    adjust,      \* isolate -> the count_watcher it has yet to make
    count,       \* WATCHERS
    pendingRecv, \* the default's task has a delivery to receive
    task,        \* the default's task: wait, check, die, stopped
    before,      \* history: who watched since before the pending delivery
    handling,    \* history: the same, for the delivery the task handles
    owed,        \* history: a delivery found nobody, and nobody came since
    raised,      \* deliveries so far
    toggles      \* listeners added and removed so far

historyVars == <<before, handling, owed>>
watchVars == <<handle, watched, adjust, count>>
sigVars == <<stops, life, installed, served, watchVars, pendingRecv, task,
             historyVars, raised, toggles>>

SignalsInit ==
    /\ stops \in BOOLEAN
    /\ life = "running" /\ installed = FALSE /\ served = FALSE
    /\ handle = [i \in Listener |-> "none"]
    /\ watched = [i \in Listener |-> FALSE]
    /\ adjust = [i \in Listener |-> 0]
    /\ count = 0
    /\ pendingRecv = FALSE /\ task = "wait"
    /\ before = {} /\ handling = {} /\ owed = FALSE
    /\ raised = 0 /\ toggles = 0

-----------------------------------------------------------------------------
(* Listeners.                                                              *)

Toggles ==
    /\ life = "running" /\ toggles < MaxToggles
    /\ toggles' = toggles + 1

Watch(i) ==
    /\ watched' = [watched EXCEPT ![i] = TRUE]
    /\ adjust' = [adjust EXCEPT ![i] = 1]
    /\ owed' = FALSE

Unwatch(i) ==
    /\ watched' = [watched EXCEPT ![i] = FALSE]
    /\ before' = before \ {i} /\ handling' = handling \ {i}

(* serve_default_action, by itself when raw mode asks for it.              *)
ServeDefaultAction ==
    /\ life = "running" /\ ~served
    /\ served' = TRUE /\ installed' = TRUE
    /\ UNCHANGED <<stops, life, watchVars, pendingRecv, task, historyVars, raised, toggles>>

(* start_signal, for the isolate's first listener: the default is served,  *)
(* then the handler is in place, then the handle is counted.               *)
StartSignal(i) ==
    /\ Toggles /\ handle[i] = "none"
    /\ served' = TRUE /\ installed' = TRUE
    /\ handle' = [handle EXCEPT ![i] = "live"]
    /\ Watch(i)
    /\ UNCHANGED <<stops, life, count, pendingRecv, task, before, handling, raised>>

(* A later first listener re-arms the handle, the last one to go leaves it *)
(* dormant (stop_signal).                                                  *)
SetWatched(i, on) ==
    /\ Toggles /\ handle[i] = "live" /\ adjust[i] = 0
    /\ watched[i] # on
    /\ \/ on /\ Watch(i) /\ UNCHANGED <<before, handling>>
       \/ ~on /\ Unwatch(i) /\ adjust' = [adjust EXCEPT ![i] = -1] /\ UNCHANGED owed
    /\ UNCHANGED <<stops, life, installed, served, handle, count, pendingRecv, task, raised>>

(* The handle is dropped with its run.                                     *)
\* A bug: a dormant handle is counted off once more.
DropAdjustAlways(i) == -1
DropAdjust(i) == IF watched[i] THEN -1 ELSE 0

\* A bug: the default's task runs on the run's runtime and ends with it.
ServedAfterNone == FALSE
ServedAfter == served

DropHandle(i) ==
    /\ life = "running" /\ handle[i] = "live" /\ adjust[i] = 0
    /\ handle' = [handle EXCEPT ![i] = "dropped"]
    /\ Unwatch(i)
    /\ adjust' = [adjust EXCEPT ![i] = DropAdjust(i)]
    /\ served' = ServedAfter /\ pendingRecv' = (pendingRecv /\ served')
    /\ UNCHANGED <<stops, life, installed, count, task, owed, raised, toggles>>

(* count_watcher.                                                          *)
CountWatcher(i) ==
    /\ life = "running" /\ adjust[i] # 0
    /\ count' = IF count + adjust[i] < 0 THEN 0 ELSE count + adjust[i]
    /\ adjust' = [adjust EXCEPT ![i] = 0]
    /\ UNCHANGED <<stops, life, installed, served, handle, watched, pendingRecv, task,
                   historyVars, raised, toggles>>

-----------------------------------------------------------------------------
(* Deliveries.                                                             *)

Watching == {i \in Listener : watched[i] /\ adjust[i] = 0}
Quiet == \A i \in Listener : ~watched[i] /\ adjust[i] = 0

OsDefault == IF stops THEN "stopped" ELSE "dead"

(* A delivery: to every receiver when tokio's handler is there (two may    *)
(* become one), by the OS's default when it is not.                        *)
Raise ==
    /\ life = "running" /\ raised < MaxRaised
    /\ raised' = raised + 1
    /\ IF installed
       THEN /\ pendingRecv' = served
            /\ before' = before \cup Watching
            /\ owed' = (owed \/ Quiet)
            /\ UNCHANGED life
       ELSE life' = OsDefault /\ UNCHANGED <<pendingRecv, before, owed>>
    /\ UNCHANGED <<stops, installed, served, watchVars, task, handling, toggles>>

DefaultRecv ==
    /\ life = "running" /\ task = "wait" /\ pendingRecv
    /\ pendingRecv' = FALSE /\ task' = "check"
    /\ handling' = before /\ before' = {}
    /\ UNCHANGED <<stops, life, installed, served, watchVars, owed, raised, toggles>>

(* watched_anywhere.                                                       *)
DefaultCheck ==
    /\ life = "running" /\ task = "check"
    /\ task' = IF count > 0 THEN "wait" ELSE "die"
    /\ UNCHANGED <<stops, life, installed, served, watchVars, pendingRecv, historyVars,
                   raised, toggles>>

(* die_by: SIG_DFL is back, the signal is raised again.                    *)
DieBy ==
    /\ life = "running" /\ task = "die"
    /\ installed' = FALSE
    /\ life' = OsDefault
    /\ task' = "stopped"
    /\ owed' = FALSE
    /\ UNCHANGED <<stops, served, watchVars, pendingRecv, before, handling, raised, toggles>>

(* SIGCONT.  In die_by, raise returns and the handler goes back in; before *)
(* any handler, there is none to put back.                                 *)
Reinstall == task = "stopped"

Continue ==
    /\ life = "stopped"
    /\ life' = "running"
    /\ installed' = Reinstall
    /\ task' = "wait"
    /\ UNCHANGED <<stops, served, watchVars, pendingRecv, historyVars, raised, toggles>>

-----------------------------------------------------------------------------
DefaultTask == DefaultRecv \/ DefaultCheck \/ DieBy

SignalsNext ==
    \/ \E i \in Listener : \/ StartSignal(i) \/ DropHandle(i) \/ CountWatcher(i)
                           \/ \E on \in BOOLEAN : SetWatched(i, on)
    \/ ServeDefaultAction \/ Raise \/ DefaultTask \/ Continue

SignalsSpec == SignalsInit /\ [][SignalsNext]_sigVars

-----------------------------------------------------------------------------
SignalsTypeOK ==
    /\ stops \in BOOLEAN /\ life \in {"running", "stopped", "dead"}
    /\ installed \in BOOLEAN /\ served \in BOOLEAN
    /\ handle \in [Listener -> {"none", "live", "dropped"}]
    /\ watched \in [Listener -> BOOLEAN]
    /\ adjust \in [Listener -> {-1, 0, 1}]
    /\ count \in 0 .. Cardinality(Listener)
    /\ pendingRecv \in BOOLEAN /\ task \in {"wait", "check", "die", "stopped"}
    /\ before \subseteq Listener /\ handling \subseteq Listener
    /\ owed \in BOOLEAN /\ raised \in 0 .. MaxRaised /\ toggles \in 0 .. MaxToggles

(***************************************************************************)
(* The default is not taken under a listener: when the process is about to *)
(* die by a delivery, nobody has been watching since before that delivery, *)
(* in whatever isolate, though flags and count change at different times   *)
(* ("which killed the process under another isolate's listener").          *)
(***************************************************************************)
NoDeathUnderListener == task = "die" => handling = {}

(***************************************************************************)
(* A delivery nobody watches takes the default, or somebody attaches a     *)
(* listener in time: the handler never swallows the signal, not after the  *)
(* run that installed it is gone ("the process unkillable by it").         *)
(***************************************************************************)
UnwatchedKills == owed ~> ~owed
=============================================================================
