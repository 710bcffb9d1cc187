------------------------------ MODULE TsDaemon ------------------------------
(***************************************************************************)
(* The type-check daemon of one project: crates/oam_ts/src/daemon.rs.      *)
(*                                                                         *)
(* `oam check` finds the daemon by a state file, pings it and has it       *)
(* check, or spawns one; whatever fails, it checks by itself instead.      *)
(* Processes race here: several clients may spawn a daemon each, the last  *)
(* one to write the state file is found, and the others end by themselves. *)
(* A daemon may crash at any step.                                         *)
(*                                                                         *)
(* The project is two counts of edits: of the files under its root, which  *)
(* a fingerprint always walks, and of one file outside, which is part of   *)
(* the program once the root's first edit imports it, and of a fingerprint *)
(* only if tsgo listed it.  Timeouts may come at any time.  The text in    *)
(* <state>.error and the counters status() shows are left out.             *)
(***************************************************************************)
EXTENDS Integers, Sequences, SequencesExt

CONSTANTS
    Client,         \* oam processes: `oam check` and `oam daemon stop`
    MaxDaemons,     \* bound on the daemons started
    MaxRootEdits,   \* bound on the edits under the root
    MaxOtherEdits   \* bound on the edits of the file outside

ASSUME TsDaemonAssumption ==
    MaxDaemons \in Nat \ {0} /\ MaxRootEdits \in Nat /\ MaxOtherEdits \in Nat

Daemon == 1 .. MaxDaemons
NoDaemon == 0
NoClient == "nobody"

VARIABLES
    outdated,    \* daemon 1 is from another version of oam
    tree,        \* the edits so far
    stateFile,   \* the daemon the state file records
    backoff,     \* <state>.spawn-failed is there, and not older than SPAWN_BACKOFF
    daemon,      \* daemon -> its accept thread
    dog,         \* daemon -> idle_watchdog is about to shut it down
    checks,      \* daemon -> the checks handed to its worker
    filling,     \* daemon -> its check worker
    tsCache,     \* daemon -> Shared::cache
    client,      \* client -> its way through check_via_daemon or stop
    answered     \* history: the worst answer a client got

tsFileVars == <<stateFile, backoff>>
tsDaemonVars == <<daemon, dog, checks, filling, tsCache>>
tsClientVars == <<client, answered>>
tsVars == <<outdated, tree, tsFileVars, tsDaemonVars, tsClientVars>>

MaxEdits == [root |-> MaxRootEdits, other |-> MaxOtherEdits]
Tree == [root : 0 .. MaxRootEdits, other : 0 .. MaxOtherEdits]
Unedited == [root |-> 0, other |-> 0]

(* The program tsgo reads, and so lists, has the file outside.             *)
ReadsOther(t) == t.root > 0

(* list_files may fail, and nothing is cached then.                        *)
Listed == {"none", "root", "both"}

(* fingerprint: the files it stamps, by size and time.  Those of the root  *)
(* are what its walk visits, without node_modules, .git, .oam, the root's  *)
(* target and what tsc cannot load: tree.root counts edits of these.  A    *)
(* rewrite of the same size within the clock's grain keeps the stamp; it   *)
(* is no edit here.                                                        *)
Key(listed) == IF listed = "both" THEN tree ELSE [tree EXCEPT !.other = 0]

Filling == [pc : {"idle", "list", "key", "check", "store"}, who : Client \cup {NoClient},
            listed : Listed, key : Tree, seen : Tree]
NotFilling == [pc |-> "idle", who |-> NoClient, listed |-> "none", key |-> Unedited,
               seen |-> Unedited]

Cached == [listed : Listed, key : Tree, seen : Tree]
NotCached == [listed |-> "none", key |-> Unedited, seen |-> Unedited]

(* on: the daemon it found; child: the one it spawned; asked: the tree it  *)
(* asks about.                                                             *)
ClientState ==
    [pc : {"out", "read", "ping", "ask", "answer", "spawn", "loop", "retire", "exit",
           "unlink", "late", "done"},
     stops : BOOLEAN, on : Daemon \cup {NoDaemon}, child : Daemon \cup {NoDaemon},
     asked : Tree]
NotRun == [pc |-> "out", stops |-> FALSE, on |-> NoDaemon, child |-> NoDaemon,
           asked |-> Unedited]

(* A daemon of another version may be there already.                       *)
TsInit ==
    /\ outdated \in BOOLEAN
    /\ tree = Unedited
    /\ stateFile = IF outdated THEN 1 ELSE NoDaemon
    /\ backoff = FALSE
    /\ daemon = [d \in Daemon |-> IF outdated /\ d = 1 THEN "up" ELSE "none"]
    /\ dog = [d \in Daemon |-> FALSE]
    /\ checks = [d \in Daemon |-> << >>]
    /\ filling = [d \in Daemon |-> NotFilling]
    /\ tsCache = [d \in Daemon |-> NotCached]
    /\ client = [c \in Client |-> NotRun]
    /\ answered = "current"

(* A developer saves a file.                                               *)
Edit ==
    /\ \E f \in DOMAIN tree : tree[f] < MaxEdits[f] /\ tree' = [tree EXCEPT ![f] = @ + 1]
    /\ UNCHANGED <<outdated, tsFileVars, tsDaemonVars, tsClientVars>>

-----------------------------------------------------------------------------
(* The client.                                                             *)

SetClient(c, s) == client' = [client EXCEPT ![c] = s]
At(c, pc) == [client[c] EXCEPT !.pc = pc]
Over(c) == [NotRun EXCEPT !.pc = "done", !.stops = client[c].stops]

(* try_existing found no daemon to use: spawn one, or look again later.    *)
NoneUsable(c) ==
    [client[c] EXCEPT !.pc = IF client[c].child = NoDaemon THEN "spawn" ELSE "loop",
                      !.on = NoDaemon, !.asked = Unedited]

OnlyClient(c, s) ==
    SetClient(c, s) /\ UNCHANGED <<outdated, tree, tsFileVars, tsDaemonVars, answered>>

StartClient(c, stops) ==
    /\ client[c].pc = "out"
    /\ OnlyClient(c, [At(c, "read") EXCEPT !.stops = stops])

(* read_state, and what the version it records calls for.                  *)
Skewed(d) == outdated /\ d = 1

ReadState(c) ==
    LET found == [client[c] EXCEPT !.on = stateFile] IN
    /\ client[c].pc = "read"
    /\ OnlyClient(c,
          IF stateFile = NoDaemon THEN IF client[c].stops THEN Over(c) ELSE NoneUsable(c)
          ELSE IF client[c].stops \/ Skewed(stateFile) THEN [found EXCEPT !.pc = "retire"]
          ELSE [found EXCEPT !.pc = "ping"])

(* Ping, which only a daemon that accepts answers.                         *)
Accepts(d) == daemon[d] = "up"

Ping(c) ==
    /\ client[c].pc = "ping"
    /\ \/ Accepts(client[c].on) /\ OnlyClient(c, At(c, "ask"))
       \/ OnlyClient(c, NoneUsable(c))

(* Check: handle_connection hands it to the worker.                        *)
Ask(c) ==
    LET d == client[c].on IN
    /\ client[c].pc = "ask"
    /\ IF Accepts(d)
       THEN /\ checks' = [checks EXCEPT ![d] = Append(@, c)]
            /\ SetClient(c, [At(c, "answer") EXCEPT !.asked = tree])
       ELSE SetClient(c, NoneUsable(c)) /\ UNCHANGED checks
    /\ UNCHANGED <<outdated, tree, tsFileVars, daemon, dog, filling, tsCache, answered>>

(* The connection broke with the daemon.                                   *)
Broken(c) ==
    /\ client[c].pc = "answer" /\ daemon[client[c].on] = "gone"
    /\ OnlyClient(c, NoneUsable(c))

(* check_timeout, longer than SPAWN_WAIT: the worker's answer will find    *)
(* nobody, and the loop after a spawn is over.                             *)
NoAnswer(c) ==
    LET d == client[c].on IN
    /\ client[c].pc = "answer" /\ daemon[d] # "gone"
    /\ SetClient(c, [NoneUsable(c) EXCEPT !.pc = IF @ = "loop" THEN "late" ELSE @])
    /\ checks' = [checks EXCEPT ![d] = ReplaceAll(@, c, NoClient)]
    /\ filling' = [filling EXCEPT ![d].who = IF @ = c THEN NoClient ELSE @]
    /\ UNCHANGED <<outdated, tree, tsFileVars, daemon, dog, tsCache, answered>>

(* A spawn that failed a while ago is not tried again; else a daemon is    *)
(* spawned, or cannot be.                                                  *)
BacksOff(c) ==
    /\ client[c].pc = "spawn" /\ backoff
    /\ OnlyClient(c, Over(c))

SpawnDaemon(c) ==
    /\ client[c].pc = "spawn" /\ ~backoff
    /\ \/ \E d \in Daemon :
             /\ daemon[d] = "none" /\ \A k \in 1 .. d - 1 : daemon[k] # "none"
             /\ daemon' = [daemon EXCEPT ![d] = "starts"]
             /\ SetClient(c, [At(c, "loop") EXCEPT !.child = d])
       \/ SetClient(c, Over(c)) /\ UNCHANGED daemon
    /\ UNCHANGED <<outdated, tree, tsFileVars, dog, checks, filling, tsCache, answered>>

LooksAgain(c) ==
    /\ client[c].pc = "loop" /\ daemon[client[c].child] # "gone"
    /\ OnlyClient(c, At(c, "read"))

(* The child exited, or SPAWN_WAIT is over: mark_spawn_failed.             *)
GivesUp(c) ==
    /\ client[c].pc \in {"loop", "late"}
    /\ backoff' = TRUE
    /\ SetClient(c, Over(c))
    /\ UNCHANGED <<outdated, tree, stateFile, tsDaemonVars, answered>>

-----------------------------------------------------------------------------
(* retire and stop.                                                        *)

Gone(d) ==
    /\ daemon' = [daemon EXCEPT ![d] = "gone"]
    /\ dog' = [dog EXCEPT ![d] = FALSE]
    /\ checks' = [checks EXCEPT ![d] = << >>]
    /\ filling' = [filling EXCEPT ![d] = NotFilling]
    /\ tsCache' = [tsCache EXCEPT ![d] = NotCached]

(* Shutdown: the accept loop acknowledges and ends; one that does not is   *)
(* killed.  retire then waits for the process to end; stop does not.       *)
\* A bug: retire does not wait.
OnceAckedAtOnce(c) == "unlink"
OnceAcked(c) == IF client[c].stops THEN "unlink" ELSE "exit"

RetireAsks(c) ==
    LET d == client[c].on IN
    /\ client[c].pc = "retire"
    /\ \/ /\ Accepts(d)
          /\ daemon' = [daemon EXCEPT ![d] = "stops"]
          /\ SetClient(c, At(c, OnceAcked(c)))
          /\ UNCHANGED <<dog, checks, filling, tsCache>>
       \/ Gone(d) /\ SetClient(c, At(c, "unlink"))
    /\ UNCHANGED <<outdated, tree, tsFileVars, answered>>

(* wait_for_daemon_exit, with a kill at its deadline.  The kill works, and *)
(* so does the probe that looks for the process: one that cannot run says  *)
(* it is gone.                                                             *)
RetireWaits(c) ==
    /\ client[c].pc = "exit"
    /\ Gone(client[c].on)
    /\ SetClient(c, At(c, "unlink"))
    /\ UNCHANGED <<outdated, tree, tsFileVars, answered>>

(* The state file goes, whoever wrote it by now.                           *)
Unlink(c) ==
    /\ client[c].pc = "unlink"
    /\ stateFile' = NoDaemon
    /\ SetClient(c, IF client[c].stops THEN Over(c) ELSE NoneUsable(c))
    /\ UNCHANGED <<outdated, tree, backoff, tsDaemonVars, answered>>

-----------------------------------------------------------------------------
(* The daemon: serve.                                                      *)

OnlyDaemon(d, pc) ==
    /\ daemon' = [daemon EXCEPT ![d] = pc]
    /\ UNCHANGED <<outdated, tree, dog, checks, filling, tsCache, tsClientVars>>

(* tsgo is found and the listener bound: the state file is written, then   *)
(* the marker of an earlier failure removed.                               *)
Advertise(d) ==
    /\ daemon[d] = "starts"
    /\ stateFile' = d
    /\ OnlyDaemon(d, "written")
    /\ UNCHANGED backoff

ClearMarker(d) ==
    /\ daemon[d] = "written"
    /\ backoff' = FALSE
    /\ OnlyDaemon(d, "up")
    /\ UNCHANGED stateFile

(* remove_state_if_owned: it looks, then removes.                          *)
LooksAtState(d) ==
    /\ daemon[d] = "stops" /\ stateFile = d
    /\ OnlyDaemon(d, "removes")
    /\ UNCHANGED tsFileVars

(* The file goes, and with it the process: main returns right after, with  *)
(* nothing left to do that others could see.                               *)
Leaves(d) ==
    /\ \/ daemon[d] = "stops" /\ stateFile # d /\ UNCHANGED stateFile
       \/ daemon[d] = "removes" /\ stateFile' = NoDaemon
    /\ Gone(d)
    /\ UNCHANGED <<outdated, tree, backoff, tsClientVars>>

(* A setup that fails, or a crash.                                         *)
DaemonDies(d) ==
    /\ daemon[d] \notin {"none", "gone"}
    /\ Gone(d)
    /\ UNCHANGED <<outdated, tree, tsFileVars, tsClientVars>>

(* idle_watchdog looks whether a check runs and when the last request      *)
(* came, then sends Shutdown to its own daemon, or exits by itself.        *)
WatchdogLooks(d) ==
    /\ daemon[d] = "up" /\ ~dog[d] /\ filling[d].pc = "idle"
    /\ dog' = [dog EXCEPT ![d] = TRUE]
    /\ UNCHANGED <<outdated, tree, tsFileVars, daemon, checks, filling, tsCache, tsClientVars>>

WatchdogShuts(d) ==
    /\ daemon[d] = "up" /\ dog[d]
    /\ OnlyDaemon(d, "stops")
    /\ UNCHANGED tsFileVars

-----------------------------------------------------------------------------
(* The check worker, which goes on until the process ends.                 *)

Works(d) == daemon[d] \in {"up", "stops", "removes"}

(* The answer as a client sees it: older than the tree it asked about, in  *)
(* the root or in what else the program reads, or not.                     *)
Judged(c, seen) ==
    IF seen.root < client[c].asked.root THEN "stale"
    ELSE IF ReadsOther(seen) /\ seen.other < client[c].asked.other THEN "staleOther"
    ELSE "current"

Respond(c, v) ==
    IF c = NoClient THEN UNCHANGED tsClientVars
    ELSE SetClient(c, Over(c)) /\ answered' = IF answered = "current" THEN v ELSE answered

CachedIfFresh(d) ==
    tsCache[d].listed # "none" /\ Key(tsCache[d].listed) = tsCache[d].key

TakeCheck(d) ==
    LET c == Head(checks[d]) IN
    /\ Works(d) /\ filling[d].pc = "idle" /\ checks[d] # << >>
    /\ checks' = [checks EXCEPT ![d] = Tail(@)]
    /\ IF CachedIfFresh(d)
       THEN /\ Respond(c, IF c = NoClient THEN "current" ELSE Judged(c, tsCache[d].seen))
            /\ UNCHANGED filling
       ELSE /\ filling' = [filling EXCEPT ![d] = [NotFilling EXCEPT !.pc = "list", !.who = c]]
            /\ UNCHANGED tsClientVars
    /\ UNCHANGED <<outdated, tree, tsFileVars, daemon, dog, tsCache>>

SetFilling(d, f) ==
    /\ filling' = [filling EXCEPT ![d] = f]
    /\ UNCHANGED <<outdated, tree, tsFileVars, daemon, dog, checks, tsCache, tsClientVars>>

(* fill: tsgo lists the program, the list is fingerprinted, tsgo checks    *)
(* what it reads, and that is stored once it has ended.                    *)
ListFiles(d) ==
    /\ Works(d) /\ filling[d].pc = "list"
    /\ \/ SetFilling(d, [filling[d] EXCEPT !.pc = "key",
                            !.listed = IF ReadsOther(tree) THEN "both" ELSE "root"])
       \/ SetFilling(d, [filling[d] EXCEPT !.pc = "key"])

Fingerprint(d) ==
    /\ Works(d) /\ filling[d].pc = "key"
    /\ SetFilling(d, [filling[d] EXCEPT !.pc = "check",
                         !.key = IF filling[d].listed = "none" THEN Unedited
                                 ELSE Key(filling[d].listed)])

(* The key an answer is stored under is from before the check.             *)
\* A bug: the tree is fingerprinted after it.
StoredKeyLate(d) == Key(filling[d].listed)
StoredKey(d) == filling[d].key

CheckProject(d) ==
    /\ Works(d) /\ filling[d].pc = "check"
    /\ SetFilling(d, [filling[d] EXCEPT !.pc = "store", !.seen = tree])

StoreAnswer(d) ==
    LET f == filling[d] IN
    /\ Works(d) /\ f.pc = "store"
    /\ tsCache' = [tsCache EXCEPT ![d] =
          IF f.listed = "none" THEN NotCached
          ELSE [listed |-> f.listed, key |-> StoredKey(d), seen |-> f.seen]]
    /\ Respond(f.who, "current")
    /\ filling' = [filling EXCEPT ![d] = NotFilling]
    /\ UNCHANGED <<outdated, tree, tsFileVars, daemon, dog, checks>>

(* tsgo failed or was cancelled: the client checks by itself.              *)
CheckFails(d) ==
    /\ Works(d) /\ filling[d].pc = "check"
    /\ Respond(filling[d].who, "current")
    /\ filling' = [filling EXCEPT ![d] = NotFilling]
    /\ UNCHANGED <<outdated, tree, tsFileVars, daemon, dog, checks, tsCache>>

(* The marker is older than SPAWN_BACKOFF.                                 *)
BackoffEnds ==
    /\ backoff
    /\ backoff' = FALSE
    /\ UNCHANGED <<outdated, tree, stateFile, tsDaemonVars, tsClientVars>>

-----------------------------------------------------------------------------
ClientStep(c) ==
    \/ ReadState(c) \/ Ping(c) \/ Ask(c) \/ Broken(c) \/ NoAnswer(c)
    \/ BacksOff(c) \/ SpawnDaemon(c) \/ LooksAgain(c) \/ GivesUp(c)
    \/ RetireAsks(c) \/ RetireWaits(c) \/ Unlink(c)
MainStep(d) == Advertise(d) \/ ClearMarker(d) \/ LooksAtState(d) \/ Leaves(d)
DogStep(d) == WatchdogLooks(d) \/ WatchdogShuts(d)
CheckStep(d) ==
    TakeCheck(d) \/ ListFiles(d) \/ Fingerprint(d) \/ CheckProject(d) \/ StoreAnswer(d)
    \/ CheckFails(d)

TsNext ==
    \/ Edit \/ BackoffEnds
    \/ \E c \in Client : ClientStep(c) \/ \E stops \in BOOLEAN : StartClient(c, stops)
    \/ \E d \in Daemon : MainStep(d) \/ DogStep(d) \/ CheckStep(d) \/ DaemonDies(d)

TsSpec == TsInit /\ [][TsNext]_tsVars

-----------------------------------------------------------------------------
TsTypeOK ==
    /\ outdated \in BOOLEAN
    /\ tree \in Tree
    /\ stateFile \in Daemon \cup {NoDaemon}
    /\ backoff \in BOOLEAN
    /\ daemon \in [Daemon -> {"none", "starts", "written", "up", "stops", "removes", "gone"}]
    /\ dog \in [Daemon -> BOOLEAN]
    /\ checks \in [Daemon -> Seq(Client \cup {NoClient})]
    /\ filling \in [Daemon -> Filling]
    /\ tsCache \in [Daemon -> Cached]
    /\ client \in [Client -> ClientState]
    /\ answered \in {"current", "stale", "staleOther"}

(***************************************************************************)
(* No check is answered from before an edit under the project's root that  *)
(* came before it: an answer is kept under a fingerprint taken before tsgo *)
(* read the files ("an edit during the run must miss next time", fill),    *)
(* and whoever was queued behind it asks again.  Under the root are the    *)
(* files that fingerprint walks, and an edit is one that changes a file's  *)
(* size or time: its comment's "staleness envelope" is outside.            *)
(***************************************************************************)
RootEditsSeen == answered # "stale"

(***************************************************************************)
(* "so an edit to anything that can change the diagnostics misses the      *)
(* cache" (daemon.rs, the module's comment): no check is answered from     *)
(* before any edit, of a file outside the root too.                        *)
(***************************************************************************)
EveryEditSeen == answered = "current"

(***************************************************************************)
(* A daemon of this version is advertised only once the outdated one is    *)
(* gone, however many clients retire it at once and however it ends: "so   *)
(* its delayed cleanup can never fire" (retire) on the new state file.     *)
(* `oam daemon stop` does not wait, and is left out.                       *)
(***************************************************************************)
OldDaemonGone ==
    outdated /\ stateFile \notin {NoDaemon, 1} =>
        daemon[1] = "gone" \/ \E c \in Client : client[c].stops
=============================================================================
