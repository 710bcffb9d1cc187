----------------------------- MODULE HostProofs -----------------------------
(***************************************************************************)
(* Proofs about the parts that meet the host: the read of stdin under a    *)
(* change of the console's mode (StdinGate), signals (Signals), one        *)
(* connection of an HTTP server (HttpConn), and the two caches that        *)
(* processes share, compiled code on disk (CodeCache) and the type-check   *)
(* daemon (TsDaemon).  For every value of their bounds, every finite set   *)
(* of listeners and every set of processes, isolates and clients.          *)
(***************************************************************************)
EXTENDS StdinGate, Signals, HttpConn, CodeCache, TsDaemon, FiniteSetTheorems, TLAPS

-----------------------------------------------------------------------------
(* stdin.  The property is about results that were delivered; the          *)
(* invariant follows the read that is still out.  Between the mark and the *)
(* flip a read that is not discarded is one whose cancel was given up, and *)
(* none can begin, because the hold is out.                                *)

(* The hold is out from Hold to Release.                                   *)
HeldBySwitch == held = IF switch.pc \in {"off", "hold"} THEN 0 ELSE 1

(* A read that is out has the gate's state.                                *)
OutNotIdle == reader.pc \notin {"begin", "parked"} => state # "idle"

(* A read that would be delivered was issued under the mode in force.      *)
PendingUnderMode ==
    /\ state = "pending" => reader.kept \/ reader.mode = mode
    /\ switch.pc \in {"arm", "inject", "disarm", "wait", "flip"} /\ state = "pending"
          => reader.kept

(* Every settle is of a read that a switch of its own marked.              *)
Owed == IF \/ reader.pc = "settle"
           \/ reader.pc \in {"os", "end"} /\ state = "discard" THEN 1 ELSE 0
Unmarked == IF switch.pc \in {"hold", "mark"} THEN 1 ELSE 0
SettlesMarked == generation + Owed <= switches - Unmarked

StdinInv ==
    /\ StdinTypeOK
    /\ HeldBySwitch
    /\ OutNotIdle
    /\ PendingUnderMode
    /\ SettlesMarked
    /\ DeliveredUnderMode

(* Nothing is held, read or delivered at first.                            *)
LEMMA StdinInitInv == StdinInit => StdinInv
  <1> SUFFICES ASSUME StdinInit PROVE StdinInv
    OBVIOUS
  <1>1. reader \in Reader /\ switch \in Switch /\ delivered \in Delivery
    BY DEF StdinInit, Reader, Switch, NoSwitch, Delivery, Mode, NoMode
  <1>2. cursor \in BOOLEAN
    BY Zenon DEF StdinInit
  <1>3. StdinTypeOK
    BY <1>1, <1>2, StdinAssumption DEF StdinInit, StdinTypeOK, Mode, NoMode
  <1> QED BY <1>3 DEF StdinInit, StdinInv, HeldBySwitch, OutNotIdle, PendingUnderMode, SettlesMarked,
             Owed, Unmarked, DeliveredUnderMode, NoSwitch

(* The reader: begin is held back while the hold is out, and a result is   *)
(* delivered only when the read is still pending.                          *)
LEMMA ReaderInv == StdinInv /\ (ReaderStep \/ ReadReturns \/ Type \/ Steal) => StdinInv'
  <1> SUFFICES ASSUME StdinInv, ReaderStep \/ ReadReturns \/ Type \/ Steal
               PROVE  StdinInv'
    OBVIOUS
  <1>0. reader \in Reader /\ cursor \in BOOLEAN /\ mode \in Mode
    BY DEF StdinInv, StdinTypeOK
  <1> USE StdinAssumption DEF StdinInv, StdinTypeOK, HeldBySwitch, OutNotIdle, PendingUnderMode,
          SettlesMarked, Owed, Unmarked, DeliveredUnderMode, gateVars
  <1>1. CASE Begin
    <2>1. CASE HeldBack
      <3>1. reader' \in Reader
        BY <1>0, <1>1, <2>1, Zenon DEF Begin, Reader
      <3>2. QED BY <1>1, <2>1, <3>1 DEF Begin, Reader
    <2>2. CASE ~HeldBack
      <3>1. reader' = [pc |-> "os", mode |-> mode, kept |-> FALSE, woken |-> FALSE]
        BY <1>1, <2>2, Zenon DEF Begin
      <3>0. reader' \in Reader
        BY <1>0, <3>1, Zenon DEF Reader
      <3>2. switch.pc \in {"off", "hold"}
        BY <2>2 DEF HeldBack
      <3>3. reader'.pc = "os" /\ reader'.mode = mode
        BY <1>1, <2>2 DEF Begin
      <3>4. QED BY <1>1, <2>2, <3>0, <3>2, <3>3 DEF Begin
    <2>3. QED BY <2>1, <2>2
  <1>2. CASE End
    <2>1. reader' \in Reader
      BY <1>0, <1>2 DEF End, Reader
    <2>2. delivered' \in Delivery
      BY <1>0, <1>2 DEF End, Reader, Delivery
    <2>3. DeliveredUnderMode'
      BY <1>2 DEF End
    <2>4. SettlesMarked' /\ PendingUnderMode' /\ OutNotIdle'
      <3>1. reader'.pc = IF state = "pending" THEN "begin" ELSE "settle"
        BY <1>0, <1>2 DEF End, Reader
      <3>2. reader'.kept = reader.kept /\ reader'.mode = reader.mode
        BY <1>0, <1>2 DEF End, Reader
      <3>3. QED BY <1>2, <3>1, <3>2 DEF End
    <2>5. QED BY <1>2, <2>1, <2>2, <2>3, <2>4 DEF End
  <1>3. CASE SettleDiscard
    <2>1. reader' \in Reader
      BY <1>0, <1>3 DEF SettleDiscard, Reader
    <2>2. cursor' \in BOOLEAN
      BY <1>3, Zenon DEF SettleDiscard
    <2>3. QED BY <1>3, <2>1, <2>2 DEF SettleDiscard, Reader, Switch
  <1>4. CASE Settled
    BY <1>4 DEF Settled, Reader, Switch
  <1>5. CASE ReadReturns
    <2>1. input' \in Seq({"user", "enter"})
      <3>1. input \in Seq({"user", "enter"}) /\ input # << >> /\ input' = Tail(input)
        BY <1>5 DEF ReadReturns
      <3>2. QED BY <3>1
    <2>2. QED BY <1>5, <2>1 DEF ReadReturns, Reader
  <1>6. CASE Type
    BY <1>6 DEF Type
  <1>7. CASE Steal
    <2>1. input' \in Seq({"user", "enter"})
      <3>1. input \in Seq({"user", "enter"}) /\ input # << >> /\ input' = Tail(input)
        BY <1>7 DEF Steal
      <3>2. QED BY <3>1
    <2>2. QED BY <1>7, <2>1 DEF Steal
  <1> QED BY <1>1, <1>2, <1>3, <1>4, <1>5, <1>6, <1>7 DEF ReaderStep

(* The switch: the mode only changes when no read it would strand is left. *)
LEMMA SwitchInv ==
    StdinInv /\ (SwitchStep \/ \E enable \in BOOLEAN : SetRawMode(enable)) => StdinInv'
  <1> SUFFICES ASSUME StdinInv, SwitchStep \/ \E enable \in BOOLEAN : SetRawMode(enable)
               PROVE  StdinInv'
    OBVIOUS
  <1>0. reader \in Reader /\ switch \in Switch /\ cursor \in BOOLEAN
    BY DEF StdinInv, StdinTypeOK
  <1> USE StdinAssumption DEF StdinInv, StdinTypeOK, HeldBySwitch, OutNotIdle, PendingUnderMode,
          SettlesMarked, Owed, Unmarked, DeliveredUnderMode, gateVars, Goto, Switch
  <1>1. ASSUME NEW enable \in BOOLEAN, SetRawMode(enable) PROVE StdinInv'
    BY <1>1 DEF SetRawMode, Mode, NoMode
  <1>2. CASE Hold
    BY <1>2 DEF Hold
  <1>3. CASE MarkDiscard
    BY <1>3 DEF MarkDiscard, Reader
  <1>4. CASE ArmCancel
    <2>1. cursor' \in BOOLEAN
      BY <1>4, Zenon DEF ArmCancel
    <2>2. switch' \in Switch
      <3>1. generation \in Nat /\ switch' = [switch EXCEPT !.pc = "inject", !.gen = generation]
        BY <1>4 DEF ArmCancel
      <3>2. QED BY <1>0, <3>1
    <2>3. QED BY <1>4, <2>1, <2>2 DEF ArmCancel
  <1>5. CASE InjectEnter
    <2>1. input' \in Seq({"user", "enter"})
      <3>1. /\ input \in Seq({"user", "enter"})
            /\ input' = input \/ input' = Append(input, "enter")
        BY <1>5 DEF InjectEnter
      <3>2. QED BY <3>1
    <2>2. QED BY <1>5, <2>1 DEF InjectEnter
  <1>6. CASE DisarmCancel
    <2>1. cursor' \in BOOLEAN
      BY <1>6, Zenon DEF DisarmCancel
    <2>2. reader' \in Reader
      BY <1>0, <1>6, Zenon DEF DisarmCancel, Reader
    <2>3. QED BY <1>6, <2>1, <2>2 DEF DisarmCancel, Reader
  <1>7. CASE WaitSettled \/ SettleTimeout
    BY <1>7 DEF WaitSettled, SettleTimeout
  <1>8. CASE Flip
    BY <1>8 DEF Flip, RestoreSlot
  <1>9. CASE Release
    <2>1. reader' \in Reader
      BY <1>0, <1>9, Zenon DEF Release, WakeReader, Reader
    <2>2. QED BY <1>9, <2>1 DEF Release, WakeReader, NoSwitch, Mode, NoMode, Reader
  <1> QED BY <1>1, <1>2, <1>3, <1>4, <1>5, <1>6, <1>7, <1>8, <1>9 DEF SwitchStep

(* One step of stdin.                                                      *)
LEMMA StdinNextInv == StdinInv /\ [StdinNext]_stdinVars => StdinInv'
  <1>1. ASSUME StdinInv, UNCHANGED stdinVars PROVE StdinInv'
    BY <1>1 DEF stdinVars, gateVars, StdinInv, StdinTypeOK, HeldBySwitch, OutNotIdle, PendingUnderMode,
       SettlesMarked, Owed, Unmarked, DeliveredUnderMode
  <1> QED BY <1>1, ReaderInv, SwitchInv DEF StdinNext

(* The gate's state has its types, for every number of switches.           *)
THEOREM StdinTypeCorrect == StdinSpec => []StdinTypeOK
  <1>1. StdinInv => StdinTypeOK
    BY DEF StdinInv
  <1> QED BY <1>1, StdinInitInv, StdinNextInv, PTL DEF StdinSpec

(***************************************************************************)
(* read_through_gate: whatever the reader, the switches, the user and      *)
(* other programs do, a result that is delivered was read under the        *)
(* console mode in force, unless its cancel was given up.                  *)
(***************************************************************************)
THEOREM StdinDeliversUnderMode == StdinSpec => []DeliveredUnderMode
  <1>1. StdinInv => DeliveredUnderMode
    BY DEF StdinInv
  <1> QED BY <1>1, StdinInitInv, StdinNextInv, PTL DEF StdinSpec

-----------------------------------------------------------------------------
(* Signals.  The task decides by the count, which lags behind the flags,   *)
(* so the invariant says what the count is: the handles that were watched  *)
(* and counted, those whose removal is not counted yet included.           *)

Counted == {i \in Listener : (watched[i] /\ adjust[i] = 0) \/ adjust[i] = -1}

(* A handle is counted once, and its flag changes before its count.        *)
CountExact == count = Cardinality(Counted)
AdjustAgrees ==
    \A i \in Listener :
        /\ adjust[i] = 1 => watched[i]
        /\ adjust[i] = -1 => ~watched[i]
        /\ handle[i] = "none" => ~watched[i] /\ adjust[i] = 0

(* Who watched since before a delivery still watches, and is counted.      *)
HistoryWatches == before \subseteq Watching /\ handling \subseteq Watching

SignalsInv ==
    /\ SignalsTypeOK
    /\ CountExact
    /\ AdjustAgrees
    /\ HistoryWatches
    /\ NoDeathUnderListener

(* The handles counted are finitely many.                                  *)
LEMMA CountedFinite ==
    IsFiniteSet(Counted) /\ Cardinality(Counted) \in 0 .. Cardinality(Listener)
  <1>1. Counted \subseteq Listener /\ IsFiniteSet(Listener)
    BY SignalsAssumption DEF Counted
  <1> QED BY <1>1, FS_Subset, FS_CardinalityType

(* Nobody listens at first.                                                *)
LEMMA SignalsInitInv == SignalsInit => SignalsInv
  <1> SUFFICES ASSUME SignalsInit PROVE SignalsInv
    OBVIOUS
  <1>1. Counted = {} /\ Watching = {}
    BY DEF SignalsInit, Counted, Watching
  <1>2. count = Cardinality(Counted) /\ count = 0
    BY <1>1, FS_EmptySet DEF SignalsInit
  <1>3. /\ installed \in BOOLEAN /\ served \in BOOLEAN /\ pendingRecv \in BOOLEAN
        /\ owed \in BOOLEAN /\ watched \in [Listener -> BOOLEAN]
    BY Zenon DEF SignalsInit
  <1>4. SignalsTypeOK
    BY <1>2, <1>3, CountedFinite, SignalsAssumption DEF SignalsInit, SignalsTypeOK
  <1> QED BY <1>2, <1>4 DEF SignalsInit, SignalsInv, CountExact, AdjustAgrees, HistoryWatches,
             NoDeathUnderListener

(* What a change of one listener comes to: its flag and the adjustment it  *)
(* owes move together, and whoever leaves is taken out of the histories.   *)
Moves(i) ==
    /\ watched' \in [Listener -> BOOLEAN] /\ adjust' \in [Listener -> {-1, 0, 1}]
    /\ handle' \in [Listener -> {"none", "live", "dropped"}]
    /\ \A j \in Listener \ {i} :
          watched'[j] = watched[j] /\ adjust'[j] = adjust[j] /\ handle'[j] = handle[j]
    /\ adjust[i] = 0 /\ handle'[i] # "none"
    /\ \/ ~watched[i] /\ watched'[i] /\ adjust'[i] = 1
       \/ watched[i] /\ ~watched'[i] /\ adjust'[i] = -1
       \/ ~watched[i] /\ ~watched'[i] /\ adjust'[i] = 0
    /\ before' \subseteq before /\ handling' \subseteq handling
    /\ watched[i] => i \notin before' /\ i \notin handling'
    /\ UNCHANGED <<stops, life, count, task, raised>>

(* Such a change keeps the count exact: the handle is counted as before.   *)
LEMMA MovesInv ==
    ASSUME SignalsInv, NEW i \in Listener, Moves(i),
           installed' \in BOOLEAN, served' \in BOOLEAN, pendingRecv' \in BOOLEAN,
           owed' \in BOOLEAN, toggles' \in 0 .. MaxToggles
    PROVE  SignalsInv'
  <1>1. SignalsTypeOK'
    BY DEF SignalsInv, SignalsTypeOK, Moves
  <1>2. Counted' = Counted
    <2>1. ASSUME NEW j \in Listener PROVE j \in Counted' <=> j \in Counted
      <3>1. CASE j = i
        BY <3>1 DEF Counted, Moves
      <3>2. CASE j # i
        BY <3>2 DEF Counted, Moves
      <3> QED BY <3>1, <3>2
    <2> QED BY <2>1 DEF Counted
  <1>3. CountExact'
    BY <1>2 DEF SignalsInv, CountExact, Moves
  <1>4. AdjustAgrees'
    <2>1. ASSUME NEW j \in Listener
          PROVE  /\ adjust'[j] = 1 => watched'[j]
                 /\ adjust'[j] = -1 => ~watched'[j]
                 /\ handle'[j] = "none" => ~watched'[j] /\ adjust'[j] = 0
      <3>1. CASE j = i
        BY <3>1 DEF Moves
      <3>2. CASE j # i
        BY <3>2 DEF Moves, SignalsInv, AdjustAgrees
      <3> QED BY <3>1, <3>2
    <2> QED BY <2>1 DEF AdjustAgrees
  <1>5. HistoryWatches'
    <2>1. ASSUME NEW j \in before' \cup handling' PROVE j \in Watching'
      <3>1. j \in Watching /\ j # i
        BY DEF Moves, SignalsInv, HistoryWatches, Watching
      <3> QED BY <3>1 DEF Moves, Watching
    <2> QED BY <2>1 DEF HistoryWatches
  <1>6. NoDeathUnderListener'
    BY DEF SignalsInv, NoDeathUnderListener, Moves
  <1> QED BY <1>1, <1>3, <1>4, <1>5, <1>6 DEF SignalsInv

(* start_signal, set_watched and the drop of a handle are such changes.    *)
LEMMA ListenerInv ==
    ASSUME SignalsInv, NEW i \in Listener,
           \/ StartSignal(i) \/ DropHandle(i)
           \/ \E on \in BOOLEAN : SetWatched(i, on)
    PROVE  SignalsInv'
  <1>0. /\ watched \in [Listener -> BOOLEAN] /\ adjust \in [Listener -> {-1, 0, 1}]
        /\ handle \in [Listener -> {"none", "live", "dropped"}]
        /\ installed \in BOOLEAN /\ served \in BOOLEAN /\ pendingRecv \in BOOLEAN
        /\ owed \in BOOLEAN /\ toggles \in 0 .. MaxToggles
        /\ handle[i] = "none" => ~watched[i] /\ adjust[i] = 0
    BY DEF SignalsInv, SignalsTypeOK, AdjustAgrees
  <1>1. CASE StartSignal(i)
    <2>1. /\ watched' \in [Listener -> BOOLEAN] /\ watched'[i]
          /\ installed' \in BOOLEAN /\ served' \in BOOLEAN /\ owed' \in BOOLEAN
      BY <1>0, <1>1, Zenon DEF StartSignal, Watch
    <2>2. toggles' \in 0 .. MaxToggles
      BY <1>0, <1>1, SignalsAssumption DEF StartSignal, Toggles
    <2>3. Moves(i)
      BY <1>0, <1>1, <2>1 DEF StartSignal, Watch, Moves
    <2> QED BY <1>0, <1>1, <2>1, <2>2, <2>3, MovesInv DEF StartSignal
  <1>2. ASSUME NEW on \in BOOLEAN, SetWatched(i, on) PROVE SignalsInv'
    <2>1. watched' \in [Listener -> BOOLEAN] /\ owed' \in BOOLEAN
      BY <1>0, <1>2, Zenon DEF SetWatched, Watch, Unwatch
    <2>2. toggles' \in 0 .. MaxToggles
      BY <1>0, <1>2, SignalsAssumption DEF SetWatched, Toggles
    <2>3. Moves(i)
      <3>1. CASE on
        <4>1. watched' = [watched EXCEPT ![i] = TRUE] /\ ~watched[i]
          BY <1>0, <1>2, <3>1, Zenon DEF SetWatched, Watch
        <4> QED BY <1>0, <1>2, <2>1, <3>1, <4>1 DEF SetWatched, Watch, Moves
      <3>2. CASE ~on
        <4>1. watched' = [watched EXCEPT ![i] = FALSE] /\ watched[i]
          BY <1>0, <1>2, <3>2, Zenon DEF SetWatched, Unwatch
        <4> QED BY <1>0, <1>2, <2>1, <3>2, <4>1 DEF SetWatched, Unwatch, Moves
      <3> QED BY <3>1, <3>2
    <2> QED BY <1>0, <1>2, <2>1, <2>2, <2>3, MovesInv DEF SetWatched
  <1>3. CASE DropHandle(i)
    <2>1. watched' \in [Listener -> BOOLEAN] /\ served' \in BOOLEAN /\ pendingRecv' \in BOOLEAN
      BY <1>0, <1>3, Zenon DEF DropHandle, Unwatch, ServedAfter
    <2>2. Moves(i)
      BY <1>0, <1>3, <2>1 DEF DropHandle, Unwatch, DropAdjust, Moves
    <2> QED BY <1>0, <1>3, <2>1, <2>2, MovesInv DEF DropHandle
  <1> QED BY <1>1, <1>2, <1>3

(* count_watcher moves the count as it settles the adjustment, and its     *)
(* floor at zero is never reached.                                         *)
LEMMA CountWatcherInv ==
    ASSUME SignalsInv, NEW i \in Listener, CountWatcher(i)
    PROVE  SignalsInv'
  <1>0. /\ adjust \in [Listener -> {-1, 0, 1}] /\ adjust[i] # 0
        /\ adjust' = [adjust EXCEPT ![i] = 0] /\ watched' = watched
        /\ adjust[i] = 1 => watched[i]
        /\ adjust[i] = -1 => ~watched[i]
    BY DEF SignalsInv, SignalsTypeOK, AdjustAgrees, CountWatcher
  <1>1. count' = Cardinality(Counted')
    <2>1. CASE adjust[i] = 1
      <3>1. Counted' = Counted \cup {i} /\ i \notin Counted
        BY <1>0, <2>1 DEF Counted
      <3>2. Cardinality(Counted') = Cardinality(Counted) + 1
        BY <3>1, CountedFinite, FS_AddElement
      <3> QED BY <2>1, <3>2, CountedFinite DEF CountWatcher, SignalsInv, CountExact
    <2>2. CASE adjust[i] = -1
      <3>1. Counted' = Counted \ {i} /\ i \in Counted
        BY <1>0, <2>2 DEF Counted
      <3>2. Cardinality(Counted') = Cardinality(Counted) - 1 /\ Cardinality(Counted) # 0
        BY <3>1, CountedFinite, FS_RemoveElement, FS_EmptySet
      <3> QED BY <2>2, <3>2, CountedFinite, FS_CardinalityType
              DEF CountWatcher, SignalsInv, CountExact
    <2> QED BY <1>0, <2>1, <2>2
  <1>2. Cardinality(Counted') \in 0 .. Cardinality(Listener)
    <2>1. Counted' \subseteq Listener /\ IsFiniteSet(Listener)
      BY SignalsAssumption DEF Counted
    <2> QED BY <2>1, FS_Subset, FS_CardinalityType
  <1>3. SignalsTypeOK'
    BY <1>0, <1>1, <1>2 DEF CountWatcher, SignalsInv, SignalsTypeOK, historyVars
  <1>4. AdjustAgrees'
    BY <1>0 DEF CountWatcher, SignalsInv, AdjustAgrees
  <1>5. Watching \subseteq Watching'
    BY <1>0 DEF Watching
  <1>6. HistoryWatches' /\ NoDeathUnderListener'
    BY <1>5 DEF CountWatcher, SignalsInv, HistoryWatches, NoDeathUnderListener, historyVars
  <1> QED BY <1>1, <1>3, <1>4, <1>6 DEF SignalsInv, CountExact

(* Deliveries, the default's task and SIGCONT leave the handles alone; the *)
(* task goes to die only when no handle is counted.                        *)
LEMMA DeliveryInv ==
    ASSUME SignalsInv, ServeDefaultAction \/ Raise \/ DefaultTask \/ Continue
    PROVE  SignalsInv'
  <1>0. watched' = watched /\ adjust' = adjust /\ handle' = handle /\ count' = count
    BY DEF ServeDefaultAction, Raise, DefaultTask, DefaultRecv, DefaultCheck, DieBy, Continue,
           watchVars
  <1>1. CountExact' /\ AdjustAgrees' /\ Watching' = Watching
    BY <1>0 DEF SignalsInv, CountExact, AdjustAgrees, Counted, Watching
  <1>2. /\ installed' \in BOOLEAN /\ served' \in BOOLEAN /\ pendingRecv' \in BOOLEAN
        /\ owed' \in BOOLEAN
    <2>1. /\ installed \in BOOLEAN /\ served \in BOOLEAN /\ pendingRecv \in BOOLEAN
          /\ owed \in BOOLEAN
      BY DEF SignalsInv, SignalsTypeOK
    <2>2. CASE ServeDefaultAction
      BY <2>1, <2>2, Zenon DEF ServeDefaultAction, historyVars
    <2>3. CASE Raise
      BY <2>1, <2>3, Zenon DEF Raise
    <2>4. CASE DefaultRecv
      BY <2>1, <2>4, Zenon DEF DefaultRecv
    <2>5. CASE DefaultCheck
      BY <2>1, <2>5, Zenon DEF DefaultCheck, historyVars
    <2>6. CASE DieBy
      BY <2>1, <2>6, Zenon DEF DieBy
    <2>7. CASE Continue
      BY <2>1, <2>7, Zenon DEF Continue, historyVars, Reinstall
    <2> QED BY <2>2, <2>3, <2>4, <2>5, <2>6, <2>7 DEF DefaultTask
  <1>3. HistoryWatches'
    BY <1>1 DEF SignalsInv, HistoryWatches, historyVars, ServeDefaultAction, Raise,
       DefaultTask, DefaultRecv, DefaultCheck, DieBy, Continue
  <1>4. before' \subseteq Listener /\ handling' \subseteq Listener
    BY <1>1, <1>3 DEF HistoryWatches, Watching
  <1>5. /\ raised' \in 0 .. MaxRaised /\ toggles' = toggles /\ stops' = stops
        /\ life' \in {"running", "stopped", "dead"}
        /\ task' \in {"wait", "check", "die", "stopped"}
    BY SignalsAssumption DEF SignalsInv, SignalsTypeOK, ServeDefaultAction, Raise, DefaultTask,
       DefaultRecv, DefaultCheck, DieBy, Continue, OsDefault
  <1>6. SignalsTypeOK'
    BY <1>0, <1>2, <1>4, <1>5 DEF SignalsInv, SignalsTypeOK
  <1>7. NoDeathUnderListener'
    <2>1. CASE DefaultCheck
      <3>1. task' = "die" => Cardinality(Counted) = 0
        BY <2>1, CountedFinite DEF DefaultCheck, SignalsInv, SignalsTypeOK, CountExact
      <3>2. Watching \subseteq Counted
        BY DEF Watching, Counted
      <3>3. Cardinality(Counted) = 0 => handling = {}
        BY <3>2, CountedFinite, FS_EmptySet DEF SignalsInv, HistoryWatches
      <3> QED BY <2>1, <3>1, <3>3 DEF DefaultCheck, NoDeathUnderListener, historyVars
    <2>2. CASE ~DefaultCheck
      BY <2>2 DEF SignalsInv, NoDeathUnderListener, historyVars, ServeDefaultAction, Raise,
         DefaultTask, DefaultRecv, DieBy, Continue
    <2> QED BY <2>1, <2>2
  <1> QED BY <1>1, <1>3, <1>6, <1>7 DEF SignalsInv

(* One step of the signals.                                                *)
LEMMA SignalsNextInv == SignalsInv /\ [SignalsNext]_sigVars => SignalsInv'
  <1>1. ASSUME SignalsInv, UNCHANGED sigVars PROVE SignalsInv'
    BY <1>1 DEF sigVars, watchVars, historyVars, SignalsInv, SignalsTypeOK, CountExact, Counted,
       AdjustAgrees, HistoryWatches, Watching, NoDeathUnderListener
  <1> QED BY <1>1, ListenerInv, CountWatcherInv, DeliveryInv DEF SignalsNext

(* The count of watchers stays between none and one for each listener.     *)
THEOREM SignalsTypeCorrect == SignalsSpec => []SignalsTypeOK
  <1>1. SignalsInv => SignalsTypeOK
    BY DEF SignalsInv
  <1> QED BY <1>1, SignalsInitInv, SignalsNextInv, PTL DEF SignalsSpec

(***************************************************************************)
(* The default's task never takes the process down under a listener: when  *)
(* it is about to, nobody in any isolate has watched since before the      *)
(* delivery, though a handle's flag and the count are changed apart.       *)
(***************************************************************************)
THEOREM SignalsNoDeathUnderListener == SignalsSpec => []NoDeathUnderListener
  <1>1. SignalsInv => NoDeathUnderListener
    BY DEF SignalsInv
  <1> QED BY <1>1, SignalsInitInv, SignalsNextInv, PTL DEF SignalsSpec

-----------------------------------------------------------------------------
(* A server's connection.  A message that is not all in is known by its    *)
(* generation, so the invariant says where generations come from: at most  *)
(* one a request, and one more for the bytes of a head still coming in.    *)

(* Before the listeners have run nothing was read.                         *)
AnnouncedIsNew ==
    connTask = "announced" =>
        ~phase.begun /\ unread = {} /\ phase.generation = 0 /\ ~hyper.head

(* A message's generation is newer than those before it.                   *)
GenerationsPast ==
    /\ \A g \in unread : g <= phase.generation
    /\ phase.begun /\ ~phase.headers => phase.generation \notin unread

GenerationsCounted ==
    phase.generation <= hyper.served + (IF phase.begun /\ ~phase.headers THEN 1 ELSE 0)

(* A head is only in the buffer of a connection that may serve it.         *)
HeadRoom == hyper.head => hyper.served < MaxRequests

(* A message that has begun is under the check, and one whose head is in   *)
(* until its body is; so is the wait for the first.                        *)
MessageChecked ==
    phase.begun \/ phase.generation \in unread \/ hyper.served = 0 => phase.active \/ expired

(* Bytes of a head have begun its message, unless the message before it    *)
(* was still being received when they came.                                *)
HeadsBegun ==
    /\ hyper.head /\ ~hyper.ahead => phase.begun /\ phase.generation \notin unread
    /\ hyper.served = 0 => unread = {}

ConnInv ==
    /\ ConnTypeOK
    /\ HeadRoom
    /\ AnnouncedIsNew
    /\ GenerationsPast
    /\ GenerationsCounted
    /\ MessageChecked
    /\ HeadsBegun

(* A connection that was just accepted.                                    *)
LEMMA ConnInitInv == ConnInit => ConnInv
  <1> SUFFICES ASSUME ConnInit PROVE ConnInv
    OBVIOUS
  <1>1. phase \in Phase
    <2>1. 0 \in Generation /\ 0 \in 0 .. 1
      BY HttpConnAssumption DEF Generation
    <2> QED BY <2>1, Zenon DEF ConnInit, Phase
  <1>2. hyper \in Hyper
    <2>1. 0 \in 0 .. MaxRequests
      BY HttpConnAssumption
    <2> QED BY <2>1, Zenon DEF ConnInit, Hyper
  <1>3. /\ expired \in BOOLEAN /\ expiring \in BOOLEAN /\ resumed \in BOOLEAN
        /\ woken \in BOOLEAN /\ down \in BOOLEAN /\ jsDriven \in BOOLEAN
    BY Zenon DEF ConnInit
  <1>4. ConnTypeOK
    BY <1>1, <1>2, <1>3 DEF ConnInit, ConnTypeOK, NotClosing, Reset, Task
  <1> QED BY <1>4, HttpConnAssumption DEF ConnInit, ConnInv, HeadRoom, AnnouncedIsNew, GenerationsPast,
             GenerationsCounted, MessageChecked, HeadsBegun

(* A message that begins has a generation of its own.                      *)
LEMMA BeginsType ==
    ASSUME NEW p \in Phase, p.generation <= MaxRequests, NEW headers \in BOOLEAN
    PROVE  LET q == BeginsMessage(p, headers) IN
           /\ q \in Phase /\ q.begun /\ q.active /\ q.headers = headers
           /\ q.generation = p.generation + 1 /\ q.inFlight = p.inFlight
  <1>1. p.generation + 1 \in Generation
    BY HttpConnAssumption DEF Phase, Generation
  <1>2. ASSUME NEW t \in BOOLEAN
        PROVE  [p EXCEPT !.begun = t, !.active = t, !.generation = @ + 1, !.headers = headers]
                  \in Phase
    BY <1>1 DEF Phase
  <1>3. BeginsMessage(p, headers) \in Phase
    BY <1>2, Zenon DEF BeginsMessage
  <1>4. /\ BeginsMessage(p, headers).begun = TRUE
        /\ BeginsMessage(p, headers).active = TRUE
        /\ BeginsMessage(p, headers).headers = headers
    BY Zenon DEF BeginsMessage, Phase
  <1>5. /\ BeginsMessage(p, headers).generation = p.generation + 1
        /\ BeginsMessage(p, headers).inFlight = p.inFlight
    BY DEF BeginsMessage, Phase
  <1> QED BY <1>3, <1>4, <1>5

(* The check, the closes and the select loop, as far as they leave the     *)
(* message alone.                                                          *)
Aside ==
    \/ Resume \/ HyperDone \/ Tick \/ ExpireCloses
    \/ \E r \in {EndGently, Destroy, Reset} : SocketCloses(r)
    \/ ServerClose \/ NextFlush \/ LoopStep

LEMMA AsideInv == ConnInv /\ Aside => ConnInv'
  <1> SUFFICES ASSUME ConnInv, Aside PROVE ConnInv'
    OBVIOUS
  <1>0. /\ expired \in BOOLEAN /\ expiring \in BOOLEAN /\ resumed \in BOOLEAN
        /\ woken \in BOOLEAN /\ down \in BOOLEAN /\ jsDriven \in BOOLEAN
        /\ age \in 0 .. 2 /\ reason \in NotClosing .. Reset /\ connTask \in Task
    BY DEF ConnInv, ConnTypeOK
  <1>1. /\ phase' = phase /\ expired' = expired /\ hyper' = hyper /\ unread' = unread
        /\ connTask' = "announced" => connTask = "announced"
        /\ jsDriven' = jsDriven
    BY DEF Aside, Resume, HyperDone, Tick, ExpireCloses, SocketCloses, ServerClose, NextFlush,
       LoopStep, Shutdown, Dispatched, ClosedGently, ClosedHard, connWatchVars
  <1>2. /\ expiring' \in BOOLEAN /\ resumed' \in BOOLEAN /\ woken' \in BOOLEAN
        /\ down' \in BOOLEAN
    <2>1. CASE Resume
      BY <1>0, <2>1, Zenon DEF Resume
    <2>2. CASE HyperDone
      BY <1>0, <2>2, Zenon DEF HyperDone
    <2>3. CASE Tick
      BY <1>0, <2>3, Zenon DEF Tick
    <2>4. CASE ExpireCloses
      BY <1>0, <2>4, Zenon DEF ExpireCloses
    <2>5. CASE \E r \in {EndGently, Destroy, Reset} : SocketCloses(r)
      BY <1>0, <2>5, Zenon DEF SocketCloses
    <2>6. CASE ServerClose
      BY <1>0, <2>6, Zenon DEF ServerClose
    <2>7. CASE NextFlush
      BY <1>0, <2>7, Zenon DEF NextFlush
    <2>8. CASE Shutdown \/ Dispatched
      BY <1>0, <2>8, Zenon DEF Shutdown, Dispatched
    <2>9. CASE ClosedGently \/ ClosedHard
      BY <1>0, <2>9, Zenon DEF ClosedGently, ClosedHard
    <2> QED BY <2>1, <2>2, <2>3, <2>4, <2>5, <2>6, <2>7, <2>8, <2>9 DEF Aside, LoopStep
  <1>3. age' \in 0 .. 2 /\ reason' \in NotClosing .. Reset /\ connTask' \in Task
    BY <1>0 DEF Aside, Resume, HyperDone, Tick, ExpireCloses, SocketCloses, ServerClose,
       NextFlush, LoopStep, Shutdown, Dispatched, ClosedGently, ClosedHard, connWatchVars,
       Close, NotClosing, EndGently, Destroy, RequestTimeout, Reset, Task
  <1>4. ConnTypeOK'
    BY <1>0, <1>1, <1>2, <1>3 DEF ConnInv, ConnTypeOK
  <1> QED BY <1>1, <1>4 DEF ConnInv, HeadRoom, AnnouncedIsNew, GenerationsPast, GenerationsCounted,
             MessageChecked, HeadsBegun

(* announce_connection: the message's clock starts over.                   *)
LEMMA AnnouncedInv == ConnInv /\ Announced => ConnInv'
  <1> SUFFICES ASSUME ConnInv, Announced PROVE ConnInv'
    OBVIOUS
  <1>0. phase \in Phase /\ resumed \in BOOLEAN
    BY DEF ConnInv, ConnTypeOK
  <1>1. /\ (phase' \in Phase /\ phase'.begun = FALSE) \/ phase' = phase
        /\ resumed' \in BOOLEAN
    BY <1>0, Zenon DEF Announced, Phase
  <1>2. phase' \in Phase /\ resumed' \in BOOLEAN
    BY <1>0, <1>1
  <1>3. /\ phase'.generation = phase.generation /\ ~phase'.begun
        /\ phase'.active = phase.active
    BY <1>0 DEF Announced, Phase, ConnInv, AnnouncedIsNew
  <1>4. ConnTypeOK'
    BY <1>2 DEF Announced, ConnInv, ConnTypeOK, Task
  <1>5. phase.generation = 0 /\ unread' = {} /\ hyper' = hyper /\ hyper.served \in Nat
    BY HttpConnAssumption DEF Announced, ConnInv, ConnTypeOK, AnnouncedIsNew, Hyper
  <1> QED BY <1>3, <1>4, <1>5 DEF Announced, ConnInv, HeadRoom, AnnouncedIsNew, GenerationsPast,
             GenerationsCounted, MessageChecked, HeadsBegun

(* note_read: bytes of a message that has not begun begin it.              *)
LEMMA ReadInv == ConnInv /\ Read => ConnInv'
  <1> SUFFICES ASSUME ConnInv, Read PROVE ConnInv'
    OBVIOUS
  <1>0. /\ phase \in Phase /\ hyper \in Hyper /\ expired \in BOOLEAN
        /\ hyper.served \in 0 .. MaxRequests /\ phase.generation \in Nat
    BY HttpConnAssumption DEF ConnInv, ConnTypeOK, Phase, Hyper, Generation
  <1>1. PICK body \in BOOLEAN, head \in BOOLEAN :
           /\ hyper' = [hyper EXCEPT !.body = body, !.head = @ \/ head,
                                    !.ahead = IF head THEN phase.generation \in unread ELSE @]
           /\ head => hyper.served < MaxRequests
    BY DEF Read
  <1> DEFINE buffered == hyper.head \/ head
             ahead == IF head THEN phase.generation \in unread ELSE hyper.ahead
  <1>a. hyper.head \in BOOLEAN /\ hyper.ahead \in BOOLEAN
    BY <1>0 DEF Hyper
  <1>b. buffered \in BOOLEAN /\ ahead \in BOOLEAN
    <2>1. buffered \in BOOLEAN
      BY Zenon
    <2>2. CASE head
      <3>1. (phase.generation \in unread) \in BOOLEAN
        OBVIOUS
      <3>2. ahead = (phase.generation \in unread)
        BY <2>2
      <3> QED BY <2>1, <3>1, <3>2
    <2>3. CASE ~head
      BY <1>a, <2>1, <2>3, Zenon
    <2> QED BY <2>2, <2>3
  <1>c. hyper' = [hyper EXCEPT !.body = body, !.head = buffered, !.ahead = ahead]
    BY <1>1, Zenon
  <1>d. /\ buffered => hyper.head \/ head
        /\ head => (ahead <=> phase.generation \in unread)
        /\ ~head => (ahead <=> hyper.ahead)
    BY <1>0, Zenon DEF Hyper
  <1> HIDE DEF buffered, ahead
  <1>2. hyper' \in Hyper
    BY <1>0, <1>b, <1>c, Zenon DEF Hyper
  <1>3. hyper'.served = hyper.served /\ HeadRoom'
    BY <1>0, <1>1, <1>c, <1>d DEF Hyper, ConnInv, HeadRoom
  <1>e. /\ hyper'.head => hyper.head \/ head
        /\ head => (hyper'.ahead <=> phase.generation \in unread)
        /\ ~head => (hyper'.ahead <=> hyper.ahead)
    <2>1. hyper'.head = buffered /\ hyper'.ahead = ahead
      BY <1>0, <1>c, Zenon DEF Hyper
    <2> QED BY <1>d, <2>1, Zenon
  <1>4. /\ connTask' = connTask /\ connTask # "announced" /\ unread' = unread
        /\ UNCHANGED <<expiring, reason, resumed, woken, down, jsDriven>>
    BY DEF Read, Polled
  <1>5. CASE phase.begun
    <2>1. phase' = phase /\ age' = age /\ expired' = expired
      BY <1>5 DEF Read, NoteRead, connWatchVars
    <2>2. ConnTypeOK'
      BY <1>2, <2>1 DEF Read, ConnInv, ConnTypeOK
    <2>3. HeadsBegun'
      BY <1>3, <1>4, <1>5, <1>e, <2>1 DEF ConnInv, HeadsBegun
    <2> QED BY <1>3, <1>4, <2>1, <2>2, <2>3 DEF ConnInv, HeadRoom, AnnouncedIsNew,
               GenerationsPast, GenerationsCounted, MessageChecked
  <1>6. CASE ~phase.begun
    <2>1. phase' = BeginsMessage(phase, FALSE) /\ age' = 0 /\ expired' = FALSE
      BY <1>6, Zenon DEF Read, NoteRead, FreshClock
    <2>2. phase.generation <= MaxRequests
      BY <1>0, <1>6, HttpConnAssumption DEF ConnInv, GenerationsCounted
    <2>3. /\ phase' \in Phase /\ phase'.begun /\ phase'.active /\ phase'.headers = FALSE
          /\ phase'.generation = phase.generation + 1
      BY <1>0, <2>1, <2>2, BeginsType
    <2>4. expired' \in BOOLEAN
      BY <2>1, Zenon
    <2>5. ConnTypeOK'
      <3>0. age' = 0
        BY <2>1, Zenon
      <3>1. age' \in 0 .. 2 /\ phase' \in Phase
        BY <2>3, <3>0
      <3> QED BY <1>2, <1>4, <2>4, <3>1 DEF ConnInv, ConnTypeOK
    <2> QED BY <1>0, <1>3, <1>4, <1>6, <2>3, <2>5 DEF ConnInv, HeadRoom, AnnouncedIsNew, GenerationsPast,
               GenerationsCounted, MessageChecked, HeadsBegun, ConnTypeOK, Generation
  <1> QED BY <1>5, <1>6

(* headers_complete: the head's message is the one its bytes began, or a   *)
(* new one; its generation is unread until the body is in.                 *)
LEMMA HeadersInv == ASSUME ConnInv, NEW body \in BOOLEAN, HeadersComplete(body) PROVE ConnInv'
  <1> DEFINE p == IF HeadBegins THEN BeginsMessage(phase, TRUE)
                  ELSE [phase EXCEPT !.headers = TRUE]
  <1>0. /\ phase \in Phase /\ hyper \in Hyper /\ expired \in BOOLEAN
        /\ hyper.served \in 0 .. MaxRequests /\ phase.generation \in Nat
        /\ unread \subseteq Generation
    BY HttpConnAssumption DEF ConnInv, ConnTypeOK, Phase, Hyper, Generation
  <1>1. /\ phase' = [p EXCEPT !.inFlight = 1]
        /\ unread' = unread \cup {p.generation}
        /\ connTask' = connTask /\ connTask # "announced" /\ hyper.head
        /\ UNCHANGED <<expiring, reason, resumed, down, jsDriven>>
    BY DEF HeadersComplete
  <1>2. hyper' = [served |-> hyper.served + 1, body |-> body, head |-> FALSE,
                     ahead |-> FALSE, exchange |-> TRUE]
    BY DEF HeadersComplete
  <1>3. hyper'.served = hyper.served + 1
    BY <1>2
  <1>4. woken' \in BOOLEAN
    BY Zenon DEF HeadersComplete, HeadNotify, NotifyDispatch
  <1>p. /\ HeadBegins => p = BeginsMessage(phase, TRUE)
        /\ ~HeadBegins => p = [phase EXCEPT !.headers = TRUE]
    BY Zenon
  <1> HIDE DEF p
  <1>5. /\ p \in Phase /\ p.headers = TRUE
        /\ p.generation <= hyper.served + 1
        /\ \A g \in unread : g <= p.generation
        /\ p.active \/ (expired /\ ~HeadBegins)
    <2>1. CASE HeadBegins
      <3>1. phase.generation <= MaxRequests /\ phase.generation <= hyper.served
        BY <1>0, <2>1, HttpConnAssumption DEF HeadBegins, ConnInv, GenerationsCounted
      <3>2. p = BeginsMessage(phase, TRUE)
        BY <1>p, <2>1, Zenon
      <3>3. /\ p \in Phase /\ p.begun /\ p.active /\ p.headers = TRUE
            /\ p.generation = phase.generation + 1
        BY <1>0, <3>1, <3>2, BeginsType, Zenon
      <3> QED BY <1>0, <3>1, <3>3, HttpConnAssumption DEF ConnInv, GenerationsPast, Generation
    <2>2. CASE ~HeadBegins
      <3>1. p = [phase EXCEPT !.headers = TRUE]
        BY <1>p, <2>2, Zenon
      <3>2. p \in Phase /\ p.headers = TRUE
        BY <1>0, <3>1, Zenon DEF Phase
      <3>3. p.generation = phase.generation /\ p.active = phase.active
        BY <1>0, <3>1 DEF Phase
      <3>4. phase.begun /\ ~phase.headers
        BY <2>2 DEF HeadBegins
      <3> QED BY <1>0, <2>2, <3>2, <3>3, <3>4
              DEF ConnInv, GenerationsPast, GenerationsCounted, MessageChecked, HeadsBegun
    <2> QED BY <2>1, <2>2
  <1>6. /\ phase' \in Phase /\ phase'.headers = p.headers /\ phase'.generation = p.generation
        /\ phase'.active = p.active
    BY <1>1, <1>5 DEF Phase
  <1>7. hyper' \in Hyper
    <2>1. hyper.served + 1 \in 0 .. MaxRequests
      BY <1>0, <1>1, HttpConnAssumption DEF ConnInv, HeadRoom
    <2> QED BY <1>2, <2>1, Zenon DEF Hyper
  <1>8. age' \in 0 .. 2 /\ expired' \in BOOLEAN /\ (~HeadBegins => expired' = expired)
    <2>1. age' = 0 \/ age' = age
      BY DEF HeadersComplete, FreshClock
    <2>2. expired' \in BOOLEAN /\ (~HeadBegins => expired' = expired)
      BY <1>0, Zenon DEF HeadersComplete, FreshClock
    <2> QED BY <2>1, <2>2 DEF ConnInv, ConnTypeOK
  <1>9. ConnTypeOK'
    <2>1. unread' \subseteq Generation
      BY <1>0, <1>1, <1>5 DEF Phase
    <2> QED BY <1>1, <1>4, <1>6, <1>7, <1>8, <2>1 DEF ConnInv, ConnTypeOK
  <1>10. HeadRoom' /\ AnnouncedIsNew'
    BY <1>1, <1>2 DEF HeadRoom, AnnouncedIsNew
  <1>11. GenerationsPast' /\ GenerationsCounted'
    BY <1>0, <1>1, <1>3, <1>5, <1>6, HttpConnAssumption
       DEF GenerationsPast, GenerationsCounted, Phase, Generation
  <1>12. MessageChecked' /\ HeadsBegun'
    <2>1. ~hyper'.head /\ hyper'.served # 0
      BY <1>0, <1>2
    <2> QED BY <1>5, <1>6, <1>8, <2>1 DEF MessageChecked, HeadsBegun
  <1> QED BY <1>9, <1>10, <1>11, <1>12 DEF ConnInv

(* message_complete: only the message being received is marked all in.     *)
LEMMA MessageInv == ASSUME ConnInv, NEW g \in unread, MessageComplete(g) PROVE ConnInv'
  <1>0. phase \in Phase /\ phase.generation \in Nat /\ hyper.served \in Nat
    BY HttpConnAssumption DEF ConnInv, ConnTypeOK, Phase, Hyper, Generation
  <1>1. /\ unread' = unread \ {g} /\ hyper' = hyper /\ expired' = expired /\ age' = age
        /\ connTask' = connTask
        /\ UNCHANGED <<expiring, reason, resumed, down, jsDriven>>
    BY DEF MessageComplete
  <1>2. woken' \in BOOLEAN
    BY Zenon DEF MessageComplete, NotifyDispatch
  <1>3. phase' \in Phase
    BY <1>0, Zenon DEF MessageComplete, Phase
  <1>4. phase'.generation = phase.generation /\ phase'.headers = phase.headers
    BY <1>0 DEF MessageComplete, Phase
  <1>5. IF phase.generation = g THEN ~phase'.begun ELSE phase' = phase
    BY <1>0 DEF MessageComplete, Completes, Phase
  <1>6. ConnTypeOK'
    BY <1>1, <1>2, <1>3 DEF ConnInv, ConnTypeOK
  <1>7. phase.generation = g => ~(phase.begun /\ ~phase.headers)
    BY DEF ConnInv, GenerationsPast
  <1> QED BY <1>0, <1>1, <1>4, <1>5, <1>6, <1>7 DEF ConnInv, HeadRoom, AnnouncedIsNew,
             GenerationsPast, GenerationsCounted, MessageChecked, HeadsBegun

(* The end of a response, and a message found due, which is remembered.    *)
LEMMA FinishedInv == ConnInv /\ (ResponseFinished \/ Expire) => ConnInv'
  <1> SUFFICES ASSUME ConnInv, ResponseFinished \/ Expire PROVE ConnInv'
    OBVIOUS
  <1>0. phase \in Phase /\ hyper \in Hyper
    BY DEF ConnInv, ConnTypeOK
  <1>1. CASE ResponseFinished
    <2>1. hyper' \in Hyper
      BY <1>0, <1>1, Zenon DEF ResponseFinished, Hyper
    <2>2. hyper'.served = hyper.served /\ hyper'.head = hyper.head
      BY <1>0, <1>1 DEF ResponseFinished, Hyper
    <2>3. phase' \in Phase
      BY <1>0, <1>1 DEF ResponseFinished, Phase
    <2>4. /\ phase'.begun = phase.begun /\ phase'.headers = phase.headers
          /\ phase'.generation = phase.generation /\ phase'.active = phase.active
      BY <1>0, <1>1 DEF ResponseFinished, Phase
    <2>5. ConnTypeOK'
      BY <1>1, <2>1, <2>3 DEF ResponseFinished, ConnInv, ConnTypeOK
    <2> QED BY <1>1, <2>2, <2>4, <2>5 DEF ResponseFinished, ConnInv, HeadRoom, AnnouncedIsNew,
               GenerationsPast, GenerationsCounted, MessageChecked, HeadsBegun
  <1>2. CASE Expire
    <2>1. phase' \in Phase /\ expired' \in BOOLEAN /\ expiring' \in BOOLEAN
      BY <1>0, <1>2, Zenon DEF Expire, Phase
    <2>2. /\ phase'.begun = phase.begun /\ phase'.headers = phase.headers
          /\ phase'.generation = phase.generation /\ expired'
      BY <1>0, <1>2 DEF Expire, Phase
    <2>3. ConnTypeOK'
      BY <1>2, <2>1 DEF Expire, ConnInv, ConnTypeOK
    <2> QED BY <1>2, <2>2, <2>3 DEF Expire, ConnInv, HeadRoom, AnnouncedIsNew,
               GenerationsPast, GenerationsCounted, MessageChecked, HeadsBegun
  <1> QED BY <1>1, <1>2

(* One step of a connection.                                               *)
LEMMA ConnNextInv == ConnInv /\ [ConnNext]_connVars => ConnInv'
  <1>1. ASSUME ConnInv, UNCHANGED connVars PROVE ConnInv'
    BY <1>1 DEF connVars, connWatchVars, ConnInv, ConnTypeOK, HeadRoom, AnnouncedIsNew,
       GenerationsPast, GenerationsCounted, MessageChecked, HeadsBegun
  <1> QED BY <1>1, AsideInv, AnnouncedInv, ReadInv, HeadersInv, MessageInv, FinishedInv
          DEF ConnNext, Aside

(* A connection's state has its types, and no message is counted past the  *)
(* bound on requests.                                                      *)
THEOREM ConnTypeCorrect == ConnSpec => []ConnTypeOK
  <1>1. ConnInv => ConnTypeOK
    BY DEF ConnInv
  <1> QED BY <1>1, ConnInitInv, ConnNextInv, PTL DEF ConnSpec

(***************************************************************************)
(* For any number of requests the wait for the first one, a request whose  *)
(* body is not reported in and the bytes of a next head stay under         *)
(* headersTimeout and requestTimeout, or were found due.  Excepted is a    *)
(* head all of whose bytes came before the end of the request before it    *)
(* was reported, which message_complete leaves under neither.              *)
(***************************************************************************)
THEOREM ConnStaysUnderCheck == ConnSpec => []StaysUnderCheck
  <1>1. ConnInv => StaysUnderCheck
    BY DEF ConnInv, MessageChecked, HeadsBegun, StaysUnderCheck
  <1> QED BY <1>1, ConnInitInv, ConnNextInv, PTL DEF ConnSpec

-----------------------------------------------------------------------------
(* Compiled code.  Only an open makes a file partial, and the name it      *)
(* takes is that of no store under way: another process's has its own id,  *)
(* an earlier one of this process a smaller number.  So what a store has   *)
(* written stays whole until it is renamed.                                *)

Busy(p, i) == store[p][i].pc # "idle"

(* A store's temporary file is named by its process and an earlier count.  *)
TmpsNamed ==
    \A p \in Process, i \in Isolates :
        Busy(p, i) => \E n \in 0 .. MaxStores : store[p][i].tmp = <<p, n>> /\ n < ctr[p]

WrittenWhole ==
    \A p \in Process, i \in Isolates :
        store[p][i].pc = "written" => file[store[p][i].tmp].has # "part"

BlobWhole == file[Blob].has # "part"

CacheInv ==
    /\ CacheTypeOK
    /\ TmpsNamed
    /\ WrittenWhole
    /\ BlobWhole
    /\ NeverTorn

(* What a file is once it was written so far.                              *)
LEMMA WrittenType ==
    ASSUME NEW c \in {"absent", "part", "whole"}
    PROVE  Written(c) \in File /\ Written(c).has = c
  BY Zenon DEF Written, File

(* The paths that are not temporary files.                                 *)
LEMMA PathsApart ==
    /\ Blob \in Path /\ SeedRej \in Path /\ Blob # SeedRej /\ Tmp \subseteq Path
    /\ Blob \notin Tmp /\ SeedRej \notin Tmp
    /\ \A p \in Process, n \in 0 .. MaxStores : <<p, n>> \in Tmp
  BY CodeCacheAssumption DEF Blob, SeedRej, Path, Tmp, Process

(* Nothing is on disk or being stored.                                     *)
LEMMA CacheInitInv == CacheInit => CacheInv
  <1> SUFFICES ASSUME CacheInit PROVE CacheInv
    OBVIOUS
  <1>1. Absent \in File /\ Absent.has = "absent"
    BY WrittenType, Zenon DEF Absent
  <1>2. NoStore \in Store /\ NoStore.pc = "idle"
    BY DEF NoStore, Store
  <1>3. file \in [Path -> File] /\ store \in [Process -> [Isolates -> Store]]
    BY <1>1, <1>2 DEF CacheInit
  <1>4. stamped \in BOOLEAN /\ torn \in BOOLEAN
    BY Zenon DEF CacheInit
  <1>5. CacheTypeOK
    BY <1>3, <1>4, CodeCacheAssumption DEF CacheInit, CacheTypeOK
  <1> QED BY <1>1, <1>2, <1>5, PathsApart
          DEF CacheInit, CacheInv, TmpsNamed, WrittenWhole, BlobWhole, NeverTorn, Busy

(* What a step that stores nothing does to the files: none becomes         *)
(* partial.                                                                *)
NoneBecomesPart == \A x \in Path : file'[x].has = "part" => file[x].has = "part"

LEMMA KeepsWhole ==
    ASSUME CacheInv, NoneBecomesPart, store' = store
    PROVE  WrittenWhole' /\ BlobWhole'
  <1>1. ASSUME NEW p \in Process, NEW i \in Isolates, store[p][i].pc = "written"
        PROVE  file'[store[p][i].tmp].has # "part"
    <2>1. store[p][i].tmp \in Path
      BY <1>1, PathsApart DEF CacheInv, TmpsNamed, Busy
    <2> QED BY <1>1, <2>1 DEF CacheInv, WrittenWhole, NoneBecomesPart
  <1> QED BY <1>1, PathsApart DEF CacheInv, WrittenWhole, BlobWhole, NoneBecomesPart

(* load gives out the blob as it is, and may record a rejected seed.       *)
LEMMA LoadInv == ASSUME CacheInv, NEW p \in Process, Load(p) PROVE CacheInv'
  <1>0. /\ file \in [Path -> File] /\ seed \in [Process -> BOOLEAN]
        /\ swept \in [Process -> {"no", "skips", "walks"}] /\ stamped \in BOOLEAN
        /\ torn \in BOOLEAN
    BY DEF CacheInv, CacheTypeOK
  <1>1. swept' \in [Process -> {"no", "skips", "walks"}]
    BY <1>0 DEF Load, StartsSweep
  <1>2. stamped' \in BOOLEAN /\ seed' \in [Process -> BOOLEAN]
    BY <1>0, Zenon DEF Load, StartsSweep
  <1>3. file' = file \/ file' = [file EXCEPT ![SeedRej] = Written("whole")]
    BY DEF Load
  <1>4. file' \in [Path -> File] /\ NoneBecomesPart
    <2>1. Written("whole") \in File /\ Written("whole").has = "whole"
      BY WrittenType
    <2> QED BY <1>0, <1>3, <2>1, PathsApart DEF NoneBecomesPart
  <1>5. torn' \in BOOLEAN /\ ~torn'
    <2>1. torn' = (torn \/ file[Blob].has = "part") \/ torn' = torn
      BY Zenon DEF Load
    <2>2. torn' \in BOOLEAN
      BY <1>0, <2>1, Zenon
    <2>3. ~torn'
      BY <2>1 DEF CacheInv, BlobWhole, NeverTorn
    <2> QED BY <2>2, <2>3
  <1>6. store' = store /\ UNCHANGED <<ctr, sweep, crashes, aged>>
    BY DEF Load
  <1>7. CacheTypeOK'
    BY <1>1, <1>2, <1>4, <1>5, <1>6 DEF CacheInv, CacheTypeOK
  <1>8. TmpsNamed'
    BY <1>6 DEF CacheInv, TmpsNamed, Busy
  <1> QED BY <1>4, <1>5, <1>6, <1>7, <1>8, KeepsWhole DEF CacheInv, NeverTorn

(* store opens a file that no store under way is writing.                  *)
LEMMA OpenInv ==
    ASSUME CacheInv, NEW p \in Process, NEW i \in Isolates, OpenTmp(p, i) PROVE CacheInv'
  <1> DEFINE n == ctr[p]
             new == [pc |-> "open", tmp |-> <<p, n>>]
  <1>0. /\ file \in [Path -> File] /\ store \in [Process -> [Isolates -> Store]]
        /\ ctr \in [Process -> 0 .. MaxStores + 1]
    BY DEF CacheInv, CacheTypeOK
  <1>1. n \in 0 .. MaxStores /\ <<p, n>> \in Tmp /\ <<p, n>> \in Path /\ <<p, n>> # Blob
    BY <1>0, PathsApart, CodeCacheAssumption DEF OpenTmp
  <1>2. /\ ctr' = [ctr EXCEPT ![p] = n + 1]
        /\ store' = [store EXCEPT ![p][i] = new]
        /\ file' = [file EXCEPT ![<<p, n>>] = Written("part")]
        /\ UNCHANGED <<seed, swept, sweep, stamped, torn, crashes, aged>>
    BY DEF OpenTmp, TmpName
  <1>3. new \in Store
    BY <1>1 DEF Store
  <1> HIDE DEF new
  <1>4. store' \in [Process -> [Isolates -> Store]]
    BY <1>0, <1>2, <1>3
  <1>5. ctr' \in [Process -> 0 .. MaxStores + 1]
    BY <1>0, <1>1, <1>2, CodeCacheAssumption
  <1>6. file' \in [Path -> File]
    BY <1>0, <1>1, <1>2, WrittenType
  <1>7. CacheTypeOK'
    BY <1>2, <1>4, <1>5, <1>6 DEF CacheInv, CacheTypeOK
  <1>8. new.pc = "open" /\ new.tmp = <<p, n>>
    BY DEF new
  <1>9. ASSUME NEW q \in Process, NEW j \in Isolates
        PROVE  store'[q][j] = IF q = p /\ j = i THEN new ELSE store[q][j]
    BY <1>0, <1>2
  <1>10. TmpsNamed'
    <2>1. ASSUME NEW q \in Process, NEW j \in Isolates, store'[q][j].pc # "idle"
          PROVE  \E m \in 0 .. MaxStores : store'[q][j].tmp = <<q, m>> /\ m < ctr'[q]
      <3>1. CASE q = p /\ j = i
        BY <1>0, <1>1, <1>2, <1>8, <1>9, <3>1
      <3>2. CASE ~(q = p /\ j = i)
        <4>1. PICK m \in 0 .. MaxStores : store[q][j].tmp = <<q, m>> /\ m < ctr[q]
          BY <1>9, <2>1, <3>2 DEF CacheInv, TmpsNamed, Busy
        <4>2. m < ctr'[q]
          BY <1>0, <1>1, <1>2, <4>1, CodeCacheAssumption
        <4> QED BY <1>9, <3>2, <4>1, <4>2
      <3> QED BY <3>1, <3>2
    <2> QED BY <2>1 DEF TmpsNamed, Busy
  <1>11. WrittenWhole'
    <2>1. ASSUME NEW q \in Process, NEW j \in Isolates, store'[q][j].pc = "written"
          PROVE  file'[store'[q][j].tmp].has # "part"
      <3>1. store'[q][j] = store[q][j]
        BY <1>8, <1>9, <2>1
      <3>2. PICK m \in 0 .. MaxStores : store[q][j].tmp = <<q, m>> /\ m < ctr[q]
        BY <2>1, <3>1 DEF CacheInv, TmpsNamed, Busy
      <3>3. <<q, m>> # <<p, n>>
        BY <1>0, <3>2, CodeCacheAssumption
      <3>4. file'[<<q, m>>] = file[<<q, m>>]
        BY <1>0, <1>2, <3>3, PathsApart
      <3> QED BY <2>1, <3>1, <3>2, <3>4 DEF CacheInv, WrittenWhole
    <2> QED BY <2>1 DEF WrittenWhole
  <1>12. BlobWhole' /\ NeverTorn'
    BY <1>0, <1>1, <1>2, PathsApart DEF CacheInv, BlobWhole, NeverTorn
  <1> QED BY <1>7, <1>10, <1>11, <1>12 DEF CacheInv

(* The file is written to its end, or cleared.                             *)
LEMMA WriteInv ==
    ASSUME CacheInv, NEW p \in Process, NEW i \in Isolates, WriteTmp(p, i) PROVE CacheInv'
  <1> DEFINE s == store[p][i]
  <1>0. /\ file \in [Path -> File] /\ store \in [Process -> [Isolates -> Store]]
    BY DEF CacheInv, CacheTypeOK
  <1>1. s \in Store /\ s.pc = "open" /\ s.tmp \in Tmp /\ s.tmp \in Path
    <2>1. s.pc = "open"
      BY DEF WriteTmp
    <2>2. PICK n \in 0 .. MaxStores : s.tmp = <<p, n>>
      BY <2>1 DEF CacheInv, TmpsNamed, Busy
    <2>3. s \in Store
      BY <1>0
    <2> QED BY <2>1, <2>2, <2>3, PathsApart
  <1>2. UNCHANGED <<ctr, seed, swept, sweep, stamped, torn, crashes, aged>>
    BY DEF WriteTmp
  <1>3. file' \in [Path -> File] /\ NoneBecomesPart
    <2>1. \/ file' = file \/ file' = [file EXCEPT ![s.tmp] = Written("whole")]
          \/ file' = [file EXCEPT ![s.tmp] = Written("absent")]
      BY DEF WriteTmp, Absent
    <2>2. /\ Written("whole") \in File /\ Written("whole").has = "whole"
          /\ Written("absent") \in File /\ Written("absent").has = "absent"
      BY WrittenType
    <2> HIDE DEF s
    <2> QED BY <1>0, <1>1, <2>1, <2>2 DEF NoneBecomesPart
  <1>4. NoStore \in Store /\ NoStore.pc = "idle"
    BY DEF NoStore, Store
  <1>5. store' \in [Process -> [Isolates -> Store]]
    <2>1. [s EXCEPT !.pc = "written"] \in Store
      BY <1>1 DEF Store
    <2>2. \/ store' = [store EXCEPT ![p][i] = [s EXCEPT !.pc = "written"]]
          \/ store' = [store EXCEPT ![p][i] = NoStore]
      BY <1>0 DEF WriteTmp
    <2> QED BY <1>0, <1>4, <2>1, <2>2
  <1>6. CacheTypeOK'
    BY <1>2, <1>3, <1>5 DEF CacheInv, CacheTypeOK
  <1>7. ASSUME NEW q \in Process, NEW j \in Isolates, store'[q][j].pc # "idle"
        PROVE  /\ store'[q][j].tmp = store[q][j].tmp /\ store[q][j].pc # "idle"
               /\ \/ store'[q][j].pc = store[q][j].pc
                  \/ q = p /\ j = i /\ file'[s.tmp].has # "part"
    <2>1. CASE q = p /\ j = i
      <3>1. CASE store' = [store EXCEPT ![p][i].pc = "written"]
        <4>1. store'[p][i].tmp = s.tmp /\ store'[p][i].pc = "written"
          BY <1>0, <1>1, <3>1 DEF Store
        <4>2. \/ file' = file /\ file[s.tmp].has = "absent"
              \/ file' = [file EXCEPT ![s.tmp] = Written("whole")]
              \/ store' = [store EXCEPT ![p][i] = NoStore]
          BY DEF WriteTmp
        <4>3. file' = [file EXCEPT ![s.tmp] = Written("whole")] => file'[s.tmp].has = "whole"
          BY <1>0, <1>1, WrittenType
        <4>4. store' # [store EXCEPT ![p][i] = NoStore]
          BY <1>0, <1>4, <4>1
        <4> QED BY <1>1, <2>1, <4>1, <4>2, <4>3, <4>4
      <3>2. CASE store' = [store EXCEPT ![p][i] = NoStore]
        BY <1>0, <1>4, <1>7, <2>1, <3>2
      <3> QED BY <3>1, <3>2 DEF WriteTmp
    <2>2. CASE ~(q = p /\ j = i)
      <3>1. \/ store' = [store EXCEPT ![p][i].pc = "written"]
            \/ store' = [store EXCEPT ![p][i] = NoStore]
        BY DEF WriteTmp
      <3>2. store'[q][j] = store[q][j]
        BY <1>0, <2>2, <3>1
      <3> QED BY <1>7, <3>2
    <2> QED BY <2>1, <2>2
  <1>8. TmpsNamed'
    BY <1>2, <1>7 DEF CacheInv, TmpsNamed, Busy
  <1>9. WrittenWhole'
    <2>1. ASSUME NEW q \in Process, NEW j \in Isolates, store'[q][j].pc = "written"
          PROVE  file'[store'[q][j].tmp].has # "part"
      <3>1. store[q][j].tmp \in Path
        BY <1>7, <2>1, PathsApart DEF CacheInv, TmpsNamed, Busy
      <3>2. CASE store[q][j].pc = "written"
        BY <1>3, <1>7, <2>1, <3>1, <3>2 DEF CacheInv, WrittenWhole, NoneBecomesPart
      <3>3. CASE store[q][j].pc # "written"
        BY <1>7, <2>1, <3>3
      <3> QED BY <3>2, <3>3
    <2> QED BY <2>1 DEF WrittenWhole
  <1>10. BlobWhole' /\ NeverTorn'
    BY <1>2, <1>3, PathsApart DEF CacheInv, BlobWhole, NoneBecomesPart, NeverTorn
  <1> QED BY <1>6, <1>8, <1>9, <1>10 DEF CacheInv

(* The rename: what was written becomes the blob.                          *)
LEMMA RenameInv ==
    ASSUME CacheInv, NEW p \in Process, NEW i \in Isolates, Rename(p, i) PROVE CacheInv'
  <1> DEFINE t == store[p][i].tmp
  <1>0. /\ file \in [Path -> File] /\ store \in [Process -> [Isolates -> Store]]
    BY DEF CacheInv, CacheTypeOK
  <1>1. t \in Tmp /\ t \in Path /\ t # Blob /\ file[t].has # "part"
    <2>1. store[p][i].pc = "written"
      BY DEF Rename
    <2>2. PICK n \in 0 .. MaxStores : t = <<p, n>>
      BY <2>1 DEF CacheInv, TmpsNamed, Busy
    <2>3. file[t].has # "part"
      BY <2>1 DEF CacheInv, WrittenWhole
    <2> QED BY <2>2, <2>3, PathsApart
  <1>2. /\ store' = [store EXCEPT ![p][i] = NoStore]
        /\ UNCHANGED <<ctr, seed, swept, sweep, stamped, torn, crashes, aged>>
    BY DEF Rename
  <1>3. Absent \in File /\ Absent.has = "absent"
    BY WrittenType DEF Absent
  <1>4. file' \in [Path -> File] /\ NoneBecomesPart
    <2>1. \/ file' = [file EXCEPT ![Blob] = file[t], ![t] = Absent]
          \/ file' = [file EXCEPT ![t] = Absent]
      BY DEF Rename
    <2> HIDE DEF t
    <2> QED BY <1>0, <1>1, <1>3, <2>1, PathsApart DEF NoneBecomesPart
  <1>5. NoStore \in Store /\ NoStore.pc = "idle"
    BY DEF NoStore, Store
  <1>6. CacheTypeOK'
    <2>1. store' \in [Process -> [Isolates -> Store]]
      BY <1>0, <1>2, <1>5
    <2> QED BY <1>2, <1>4, <2>1 DEF CacheInv, CacheTypeOK
  <1>7. ASSUME NEW q \in Process, NEW j \in Isolates, store'[q][j].pc # "idle"
        PROVE  store'[q][j] = store[q][j]
    BY <1>0, <1>2, <1>5, <1>7
  <1>8. TmpsNamed'
    BY <1>2, <1>7 DEF CacheInv, TmpsNamed, Busy
  <1>9. WrittenWhole'
    <2>1. ASSUME NEW q \in Process, NEW j \in Isolates, store'[q][j].pc = "written"
          PROVE  file'[store'[q][j].tmp].has # "part"
      <3>1. store'[q][j] = store[q][j] /\ store[q][j].tmp \in Path
        BY <1>7, <2>1, PathsApart DEF CacheInv, TmpsNamed, Busy
      <3> QED BY <1>4, <2>1, <3>1 DEF CacheInv, WrittenWhole, NoneBecomesPart
    <2> QED BY <2>1 DEF WrittenWhole
  <1>10. BlobWhole' /\ NeverTorn'
    BY <1>2, <1>4, PathsApart DEF CacheInv, BlobWhole, NoneBecomesPart, NeverTorn
  <1> QED BY <1>6, <1>8, <1>9, <1>10 DEF CacheInv

(* The sweep and time: files go or grow old, none is written.              *)
LEMMA SweepInv ==
    ASSUME CacheInv,
           \/ AgeStamp
           \/ \E x \in Path : Age(x) \/ \E p \in Process : SweepFinds(p, x)
           \/ \E p \in Process : SweepRemoves(p)
    PROVE  CacheInv'
  <1>0. /\ file \in [Path -> File] /\ sweep \in [Process -> Path \cup {NoPath}]
        /\ stamped \in BOOLEAN /\ aged \in 0 .. MaxAged
    BY DEF CacheInv, CacheTypeOK
  <1>1. UNCHANGED <<ctr, seed, swept, store, torn, crashes>>
    BY DEF AgeStamp, Age, SweepFinds, SweepRemoves, processVars
  <1>2. stamped' \in BOOLEAN
    BY <1>0, Zenon DEF AgeStamp, Age, SweepFinds, SweepRemoves
  <1>3. aged' \in 0 .. MaxAged
    BY <1>0, CodeCacheAssumption DEF AgeStamp, Age, SweepFinds, SweepRemoves
  <1>4. sweep' \in [Process -> Path \cup {NoPath}]
    BY <1>0 DEF AgeStamp, Age, SweepFinds, SweepRemoves, processVars
  <1>5. file' \in [Path -> File] /\ NoneBecomesPart
    <2>1. ASSUME NEW x \in Path, Age(x) PROVE file' \in [Path -> File] /\ NoneBecomesPart
      <3>1. file[x] \in File /\ file' = [file EXCEPT ![x] = [file[x] EXCEPT !.old = TRUE]]
        BY <1>0, <2>1, Zenon DEF Age
      <3>2. [file[x] EXCEPT !.old = TRUE] \in File
        BY <3>1, Zenon DEF File
      <3>3. [file[x] EXCEPT !.old = TRUE].has = file[x].has
        BY <3>1 DEF File
      <3> QED BY <1>0, <3>1, <3>2, <3>3 DEF NoneBecomesPart
    <2>2. ASSUME NEW p \in Process, SweepRemoves(p)
          PROVE  file' \in [Path -> File] /\ NoneBecomesPart
      <3>1. sweep[p] \in Path /\ file' = [file EXCEPT ![sweep[p]] = Absent]
        BY <1>0, <2>2 DEF SweepRemoves
      <3>2. Absent \in File /\ Absent.has = "absent"
        BY WrittenType DEF Absent
      <3> QED BY <1>0, <3>1, <3>2 DEF NoneBecomesPart
    <2>3. CASE file' = file
      BY <1>0, <2>3 DEF NoneBecomesPart
    <2> QED BY <2>1, <2>2, <2>3 DEF AgeStamp, SweepFinds
  <1>6. CacheTypeOK'
    BY <1>1, <1>2, <1>3, <1>4, <1>5 DEF CacheInv, CacheTypeOK
  <1>7. TmpsNamed' /\ NeverTorn'
    BY <1>1 DEF CacheInv, TmpsNamed, Busy, NeverTorn
  <1> QED BY <1>1, <1>5, <1>6, <1>7, KeepsWhole DEF CacheInv

(* A process is killed: what it was storing is left for the sweep, and the *)
(* process that gets its id has no store under way.                        *)
LEMMA CrashInv == ASSUME CacheInv, NEW p \in Process, Crash(p) PROVE CacheInv'
  <1>0. /\ store \in [Process -> [Isolates -> Store]] /\ seed \in [Process -> BOOLEAN]
        /\ ctr \in [Process -> 0 .. MaxStores + 1] /\ crashes \in 0 .. MaxCrashes
        /\ swept \in [Process -> {"no", "skips", "walks"}]
        /\ sweep \in [Process -> Path \cup {NoPath}]
    BY DEF CacheInv, CacheTypeOK
  <1>1. seed' \in [Process -> BOOLEAN]
    BY <1>0, Zenon DEF Crash
  <1>2. NoStore \in Store /\ NoStore.pc = "idle"
    BY DEF NoStore, Store
  <1>3. /\ store' = [store EXCEPT ![p] = [i \in Isolates |-> NoStore]]
        /\ ctr' = [ctr EXCEPT ![p] = 0] /\ crashes' = crashes + 1 /\ crashes < MaxCrashes
        /\ swept' = [swept EXCEPT ![p] = "no"] /\ sweep' = [sweep EXCEPT ![p] = NoPath]
        /\ UNCHANGED <<file, stamped, torn, aged>>
    BY DEF Crash
  <1>4. CacheTypeOK'
    <2>1. store' \in [Process -> [Isolates -> Store]]
      BY <1>0, <1>2, <1>3
    <2>2. ctr' \in [Process -> 0 .. MaxStores + 1] /\ crashes' \in 0 .. MaxCrashes
      BY <1>0, <1>3, CodeCacheAssumption
    <2>3. /\ swept' \in [Process -> {"no", "skips", "walks"}]
          /\ sweep' \in [Process -> Path \cup {NoPath}]
      BY <1>0, <1>3
    <2> QED BY <1>1, <1>3, <2>1, <2>2, <2>3 DEF CacheInv, CacheTypeOK
  <1>5. ASSUME NEW q \in Process, NEW j \in Isolates, store'[q][j].pc # "idle"
        PROVE  store'[q][j] = store[q][j] /\ ctr'[q] = ctr[q]
    BY <1>0, <1>2, <1>3, <1>5
  <1>6. TmpsNamed'
    BY <1>5 DEF CacheInv, TmpsNamed, Busy
  <1>7. WrittenWhole'
    <2>1. ASSUME NEW q \in Process, NEW j \in Isolates, store'[q][j].pc = "written"
          PROVE  file'[store'[q][j].tmp].has # "part"
      BY <1>3, <1>5, <2>1 DEF CacheInv, WrittenWhole
    <2> QED BY <2>1 DEF WrittenWhole
  <1> QED BY <1>3, <1>4, <1>6, <1>7 DEF CacheInv, BlobWhole, NeverTorn

(* One step of the code cache.                                             *)
LEMMA CacheNextInv == CacheInv /\ [CacheNext]_cacheVars => CacheInv'
  <1>1. ASSUME CacheInv, UNCHANGED cacheVars PROVE CacheInv'
    BY <1>1 DEF cacheVars, processVars, CacheInv, CacheTypeOK, TmpsNamed, Busy, WrittenWhole,
       BlobWhole, NeverTorn
  <1> QED BY <1>1, LoadInv, OpenInv, WriteInv, RenameInv, SweepInv, CrashInv DEF CacheNext

(* The cache's state has its types.                                        *)
THEOREM CacheTypeCorrect == CacheSpec => []CacheTypeOK
  <1>1. CacheInv => CacheTypeOK
    BY DEF CacheInv
  <1> QED BY <1>1, CacheInitInv, CacheNextInv, PTL DEF CacheSpec

(***************************************************************************)
(* store and load: no load gets a blob that was not written to its end,    *)
(* however many processes and isolates store, sweep and are killed, and    *)
(* though a new process may get the id of one that left its files behind.  *)
(***************************************************************************)
THEOREM CacheNeverTorn == CacheSpec => []NeverTorn
  <1>1. CacheInv => NeverTorn
    BY DEF CacheInv
  <1> QED BY <1>1, CacheInitInv, CacheNextInv, PTL DEF CacheSpec

-----------------------------------------------------------------------------
(* The type-check daemon.  A fingerprint is taken before tsgo reads the    *)
(* tree, so an answer is never older than its key; one that is given out   *)
(* has the tree's own key.  A client asks about a tree that was.           *)

AskedPast == \A c \in Client : client[c].asked.root <= tree.root

KeyBeforeCheck ==
    \A d \in Daemon :
        /\ filling[d].pc = "check" => filling[d].key.root <= tree.root
        /\ filling[d].pc = "store" => filling[d].key.root <= filling[d].seen.root

CachedKeys == \A d \in Daemon : tsCache[d].key.root <= tsCache[d].seen.root

TsInv ==
    /\ TsTypeOK
    /\ AskedPast
    /\ KeyBeforeCheck
    /\ CachedKeys
    /\ RootEditsSeen

Stage == {"none", "starts", "written", "up", "stops", "removes", "gone"}

(* The typing of the parts, for steps that look at one of them.            *)
LEMMA TsTypes ==
    ASSUME TsInv
    PROVE  /\ outdated \in BOOLEAN /\ tree \in Tree /\ stateFile \in Daemon \cup {NoDaemon}
           /\ backoff \in BOOLEAN /\ dog \in [Daemon -> BOOLEAN]
           /\ daemon \in [Daemon -> Stage]
           /\ checks \in [Daemon -> Seq(Client \cup {NoClient})]
           /\ filling \in [Daemon -> Filling] /\ tsCache \in [Daemon -> Cached]
           /\ client \in [Client -> ClientState]
           /\ answered \in {"current", "stale", "staleOther"}
  BY DEF TsInv, TsTypeOK, Stage

LEMMA UneditedType == Unedited \in Tree /\ Unedited.root = 0
  BY TsDaemonAssumption DEF Unedited, Tree

LEMMA BlankTypes ==
    /\ NotFilling \in Filling /\ NotFilling.pc = "idle"
    /\ NotCached \in Cached /\ NotCached.key.root = 0 /\ NotCached.seen.root = 0
  <1>1. NoClient \in Client \cup {NoClient}
    OBVIOUS
  <1> QED BY <1>1, UneditedType DEF NotFilling, Filling, NotCached, Cached, Listed

LEMMA NotRunType == NotRun \in ClientState /\ NotRun.asked = Unedited
  <1>1. NoDaemon \in Daemon \cup {NoDaemon}
    OBVIOUS
  <1> QED BY <1>1, UneditedType, Zenon DEF NotRun, ClientState

(* A key has the edits of the root, whatever was listed.                   *)
LEMMA KeyType ==
    ASSUME tree \in Tree, NEW l
    PROVE  Key(l) \in Tree /\ Key(l).root = tree.root
  BY TsDaemonAssumption DEF Tree, Key

LEMMA TsInitInv == TsInit => TsInv
  <1> SUFFICES ASSUME TsInit PROVE TsInv
    OBVIOUS
  <1>1. outdated \in BOOLEAN /\ backoff \in BOOLEAN /\ dog \in [Daemon -> BOOLEAN]
    BY Zenon DEF TsInit
  <1>2. stateFile \in Daemon \cup {NoDaemon}
    <2>1. 1 \in Daemon
      BY TsDaemonAssumption DEF Daemon
    <2> QED BY <2>1 DEF TsInit
  <1>3. /\ daemon \in [Daemon -> Stage]
        /\ checks \in [Daemon -> Seq(Client \cup {NoClient})]
        /\ filling \in [Daemon -> Filling] /\ tsCache \in [Daemon -> Cached]
        /\ client \in [Client -> ClientState] /\ tree \in Tree
    BY BlankTypes, NotRunType, UneditedType DEF TsInit, Stage
  <1>4. TsTypeOK
    BY <1>1, <1>2, <1>3 DEF TsInit, TsTypeOK, Stage
  <1> QED BY <1>4, BlankTypes, NotRunType, UneditedType
          DEF TsInit, TsInv, AskedPast, KeyBeforeCheck, CachedKeys, RootEditsSeen

(* The states a client goes to.                                            *)
LEMMA ClientStates ==
    ASSUME TsInv, NEW c \in Client
    PROVE  /\ client[c] \in ClientState
           /\ \A pc \in {"read", "ask", "loop", "retire", "exit", "unlink"} :
                 /\ At(c, pc) \in ClientState /\ At(c, pc).pc = pc
                 /\ At(c, pc).asked = client[c].asked /\ At(c, pc).stops = client[c].stops
                 /\ At(c, pc).on = client[c].on /\ At(c, pc).child = client[c].child
           /\ Over(c) \in ClientState /\ Over(c).pc = "done" /\ Over(c).asked = Unedited
           /\ Over(c).stops = client[c].stops
           /\ NoneUsable(c) \in ClientState /\ NoneUsable(c).asked = Unedited
           /\ NoneUsable(c).pc \in {"spawn", "loop"}
           /\ NoneUsable(c).stops = client[c].stops
  <1>1. client[c] \in ClientState
    BY DEF TsInv, TsTypeOK
  <1>2. \A pc \in {"read", "ask", "loop", "retire", "exit", "unlink"} :
                 /\ At(c, pc) \in ClientState /\ At(c, pc).pc = pc
                 /\ At(c, pc).asked = client[c].asked /\ At(c, pc).stops = client[c].stops
                 /\ At(c, pc).on = client[c].on /\ At(c, pc).child = client[c].child
    BY <1>1 DEF At, ClientState
  <1>3. /\ Over(c) \in ClientState /\ Over(c).pc = "done" /\ Over(c).asked = Unedited
        /\ Over(c).stops = client[c].stops
    BY <1>1, NotRunType DEF Over, ClientState
  <1>4. /\ NoneUsable(c) \in ClientState /\ NoneUsable(c).asked = Unedited
        /\ NoneUsable(c).pc \in {"spawn", "loop"} /\ NoneUsable(c).stops = client[c].stops
    BY <1>1, UneditedType DEF NoneUsable, ClientState
  <1> QED BY <1>1, <1>2, <1>3, <1>4

(* A client moves, and asks about a tree that was.                         *)
LEMMA ClientMoves ==
    ASSUME TsInv, NEW c \in Client, NEW s \in ClientState, s.asked.root <= tree.root,
           SetClient(c, s), tree' = tree
    PROVE  client' \in [Client -> ClientState] /\ AskedPast'
  BY DEF TsInv, TsTypeOK, SetClient, AskedPast

(* A daemon ends.                                                          *)
LEMMA DaemonEnds ==
    ASSUME TsInv, NEW d, Gone(d), tree' = tree
    PROVE  /\ daemon' \in [Daemon -> Stage]
           /\ dog' \in [Daemon -> BOOLEAN]
           /\ checks' \in [Daemon -> Seq(Client \cup {NoClient})]
           /\ filling' \in [Daemon -> Filling] /\ tsCache' \in [Daemon -> Cached]
           /\ KeyBeforeCheck' /\ CachedKeys'
  <1>1. dog' \in [Daemon -> BOOLEAN]
    BY TsTypes, Zenon DEF Gone
  <1>2. /\ daemon' = [daemon EXCEPT ![d] = "gone"]
        /\ checks' = [checks EXCEPT ![d] = << >>]
        /\ filling' = [filling EXCEPT ![d] = NotFilling]
        /\ tsCache' = [tsCache EXCEPT ![d] = NotCached]
    BY DEF Gone
  <1>3. << >> \in Seq(Client \cup {NoClient})
    OBVIOUS
  <1>4. /\ daemon' \in [Daemon -> Stage]
        /\ checks' \in [Daemon -> Seq(Client \cup {NoClient})]
    BY <1>2, <1>3, TsTypes DEF Stage
  <1>5. filling' \in [Daemon -> Filling] /\ tsCache' \in [Daemon -> Cached]
    BY <1>2, TsTypes, BlankTypes
  <1> QED BY <1>1, <1>2, <1>4, <1>5, TsTypes, BlankTypes
          DEF TsInv, KeyBeforeCheck, CachedKeys

(* What the checks a daemon has, its worker and its cache keep when none   *)
(* of them changes.                                                        *)
LEMMA WorkKept ==
    ASSUME TsInv, tree' = tree, UNCHANGED <<filling, tsCache>>
    PROVE  KeyBeforeCheck' /\ CachedKeys'
  BY DEF TsInv, KeyBeforeCheck, CachedKeys

(* The tree grows.                                                         *)
LEMMA EditInv == ASSUME TsInv, Edit PROVE TsInv'
  <1>1. PICK f \in DOMAIN tree : tree[f] < MaxEdits[f] /\ tree' = [tree EXCEPT ![f] = @ + 1]
    BY DEF Edit
  <1>2. tree' \in Tree /\ tree.root <= tree'.root
    BY <1>1, TsTypes, TsDaemonAssumption DEF Tree, MaxEdits
  <1>3. UNCHANGED <<outdated, tsFileVars, tsDaemonVars, tsClientVars>>
    BY DEF Edit
  <1>4. TsTypeOK'
    BY <1>2, <1>3 DEF TsInv, TsTypeOK, tsFileVars, tsDaemonVars, tsClientVars
  <1>5. AskedPast'
    <2>1. ASSUME NEW c \in Client PROVE client[c].asked.root <= tree'.root
      <3>1. client[c].asked \in Tree /\ client[c].asked.root <= tree.root
        BY TsTypes DEF ClientState, TsInv, AskedPast
      <3> QED BY <1>2, <3>1, TsTypes, TsDaemonAssumption DEF Tree
    <2> QED BY <1>3, <2>1 DEF AskedPast, tsClientVars
  <1>6. KeyBeforeCheck'
    <2>1. ASSUME NEW d \in Daemon, filling[d].pc = "check"
          PROVE  filling[d].key.root <= tree'.root
      <3>1. filling[d].key \in Tree /\ filling[d].key.root <= tree.root
        BY <2>1, TsTypes DEF Filling, TsInv, KeyBeforeCheck
      <3> QED BY <1>2, <3>1, TsTypes, TsDaemonAssumption DEF Tree
    <2> QED BY <1>3, <2>1 DEF TsInv, KeyBeforeCheck, tsDaemonVars
  <1> QED BY <1>3, <1>4, <1>5, <1>6
          DEF TsInv, CachedKeys, RootEditsSeen, tsDaemonVars, tsClientVars

(* The steps that change a client, and no daemon.                          *)
LEMMA ClientOnlyInv ==
    ASSUME TsInv, NEW c \in Client, NEW s \in ClientState, s.asked.root <= tree.root,
           SetClient(c, s), stateFile' \in Daemon \cup {NoDaemon}, backoff' \in BOOLEAN,
           UNCHANGED <<outdated, tree, tsDaemonVars, answered>>
    PROVE  TsInv'
  <1>1. client' \in [Client -> ClientState] /\ AskedPast'
    BY ClientMoves
  <1>2. KeyBeforeCheck' /\ CachedKeys'
    BY WorkKept DEF tsDaemonVars
  <1>3. TsTypeOK'
    BY <1>1 DEF TsInv, TsTypeOK, tsDaemonVars
  <1> QED BY <1>1, <1>2, <1>3 DEF TsInv, RootEditsSeen

LEMMA ClientInv ==
    ASSUME TsInv, NEW c \in Client,
           \/ ReadState(c) \/ Ping(c) \/ Broken(c) \/ BacksOff(c) \/ LooksAgain(c)
           \/ GivesUp(c) \/ Unlink(c) \/ \E stop \in BOOLEAN : StartClient(c, stop)
    PROVE  TsInv'
  <1>0. Unedited.root <= tree.root /\ client[c].asked.root <= tree.root
    BY TsTypes, UneditedType, TsDaemonAssumption DEF Tree, TsInv, AskedPast
  <1> DEFINE Allowed(s) == s \in ClientState /\ s.asked.root <= tree.root
             found == [client[c] EXCEPT !.on = stateFile]
  <1>1. /\ Allowed(Over(c)) /\ Allowed(NoneUsable(c))
        /\ \A pc \in {"read", "ask", "loop", "retire", "exit", "unlink"} : Allowed(At(c, pc))
    BY <1>0, ClientStates
  <1>2. /\ Allowed([found EXCEPT !.pc = "retire"]) /\ Allowed([found EXCEPT !.pc = "ping"])
    <2>1. found \in ClientState /\ found.asked = client[c].asked
      BY TsTypes DEF ClientState
    <2> HIDE DEF found
    <2>2. ASSUME NEW pc \in {"retire", "ping"}
          PROVE  /\ [found EXCEPT !.pc = pc] \in ClientState
                 /\ [found EXCEPT !.pc = pc].asked = client[c].asked
      BY <2>1 DEF ClientState
    <2> QED BY <1>0, <2>2
  <1>3. \A stop \in BOOLEAN : Allowed([At(c, "read") EXCEPT !.stops = stop])
    <2>1. At(c, "read") \in ClientState /\ At(c, "read").asked = client[c].asked
      BY ClientStates
    <2>2. ASSUME NEW stop \in BOOLEAN
          PROVE  [At(c, "read") EXCEPT !.stops = stop] \in ClientState
      BY <2>1, Zenon DEF ClientState
    <2>3. ASSUME NEW stop \in BOOLEAN
          PROVE  [At(c, "read") EXCEPT !.stops = stop].asked = client[c].asked
      BY <2>1 DEF ClientState
    <2> QED BY <1>0, <2>2, <2>3
  <1>4. /\ stateFile' \in Daemon \cup {NoDaemon}
        /\ UNCHANGED <<outdated, tree, tsDaemonVars, answered>>
    BY TsTypes DEF ReadState, Ping, Broken, BacksOff, LooksAgain, GivesUp, Unlink, StartClient,
       OnlyClient, tsFileVars
  <1>5. backoff' \in BOOLEAN
    BY TsTypes, Zenon DEF ReadState, Ping, Broken, BacksOff, LooksAgain, GivesUp, Unlink,
       StartClient, OnlyClient, tsFileVars
  <1> HIDE DEF Allowed
  <1>6. \E s : Allowed(s) /\ SetClient(c, s)
    <2>1. CASE ReadState(c)
      BY <1>1, <1>2, <2>1 DEF ReadState, OnlyClient
    <2>2. CASE Ping(c) \/ Broken(c) \/ BacksOff(c) \/ LooksAgain(c) \/ GivesUp(c)
      BY <1>1, <2>2 DEF Ping, Broken, BacksOff, LooksAgain, GivesUp, OnlyClient
    <2>3. CASE Unlink(c)
      <3>1. CASE client[c].stops
        BY <1>1, <2>3, <3>1, Zenon DEF Unlink
      <3>2. CASE ~client[c].stops
        BY <1>1, <2>3, <3>2, Zenon DEF Unlink
      <3> QED BY <3>1, <3>2
    <2>4. CASE \E stop \in BOOLEAN : StartClient(c, stop)
      BY <1>3, <2>4, Zenon DEF StartClient, OnlyClient
    <2> QED BY <2>1, <2>2, <2>3, <2>4
  <1>7. PICK s : Allowed(s) /\ SetClient(c, s)
    BY <1>6
  <1> QED BY <1>4, <1>5, <1>7, ClientOnlyInv DEF Allowed

(* A check is sent: the client asks about the tree as it is.               *)
LEMMA AskInv == ASSUME TsInv, NEW c \in Client, Ask(c) PROVE TsInv'
  <1>1. UNCHANGED <<outdated, tree, tsFileVars, daemon, dog, filling, tsCache, answered>>
    BY DEF Ask
  <1>2. checks' \in [Daemon -> Seq(Client \cup {NoClient})]
    <2>1. \/ checks' = checks
          \/ checks' = [checks EXCEPT ![client[c].on] = Append(checks[client[c].on], c)]
      BY DEF Ask
    <2>2. ASSUME client[c].on \in Daemon
          PROVE  Append(checks[client[c].on], c) \in Seq(Client \cup {NoClient})
      BY <2>2, TsTypes
    <2> QED BY <2>1, <2>2, TsTypes
  <1>3. client' \in [Client -> ClientState] /\ AskedPast'
    <2> DEFINE s == [[client[c] EXCEPT !.pc = "answer"] EXCEPT !.asked = tree]
    <2>1. s \in ClientState /\ s.asked = tree
      BY TsTypes DEF ClientState
    <2>2. SetClient(c, s) \/ SetClient(c, NoneUsable(c))
      BY DEF Ask, At
    <2> HIDE DEF s
    <2>3. tree.root <= tree.root /\ Unedited.root <= tree.root
      BY TsTypes, UneditedType, TsDaemonAssumption DEF Tree
    <2> QED BY <1>1, <2>1, <2>2, <2>3, ClientMoves, ClientStates
  <1>4. TsTypeOK'
    BY <1>1, <1>2, <1>3 DEF TsInv, TsTypeOK, tsFileVars
  <1> QED BY <1>1, <1>3, <1>4, WorkKept DEF TsInv, RootEditsSeen

(* The client gives up on its answer: its place in the queue is nobody's.  *)
LEMMA NoAnswerInv == ASSUME TsInv, NEW c \in Client, NoAnswer(c) PROVE TsInv'
  <1> DEFINE d == client[c].on
             s == [NoneUsable(c) EXCEPT !.pc = IF @ = "loop" THEN "late" ELSE @]
             w == IF filling[d].who = c THEN NoClient ELSE filling[d].who
             f == [filling[d] EXCEPT !.who = w]
  <1>1. UNCHANGED <<outdated, tree, tsFileVars, daemon, dog, tsCache, answered>>
    BY DEF NoAnswer
  <1>2. checks' \in [Daemon -> Seq(Client \cup {NoClient})]
    <2>1. checks' = [checks EXCEPT ![d] = ReplaceAll(checks[d], c, NoClient)]
      BY DEF NoAnswer
    <2>2. ASSUME d \in Daemon
          PROVE  ReplaceAll(checks[d], c, NoClient) \in Seq(Client \cup {NoClient})
      BY <2>2, TsTypes DEF ReplaceAll
    <2> HIDE DEF d
    <2> QED BY <2>1, <2>2, TsTypes
  <1>3. filling' = [filling EXCEPT ![d] = f]
    <2>1. filling' = [filling EXCEPT ![d].who = IF @ = c THEN NoClient ELSE @]
      BY DEF NoAnswer
    <2> QED BY <2>1, TsTypes
  <1>4. ASSUME d \in Daemon
        PROVE  /\ f \in Filling /\ f.pc = filling[d].pc /\ f.key = filling[d].key
               /\ f.seen = filling[d].seen
    <2>1. filling[d] \in Filling
      BY <1>4, TsTypes
    <2>2. w \in Client \cup {NoClient}
      BY <2>1 DEF Filling
    <2> HIDE DEF w
    <2> QED BY <2>1, <2>2 DEF Filling
  <1>5. client' \in [Client -> ClientState] /\ AskedPast'
    <2>1. s \in ClientState /\ s.asked = Unedited
      BY ClientStates DEF ClientState
    <2>2. SetClient(c, s)
      BY DEF NoAnswer
    <2>3. Unedited.root <= tree.root
      BY TsTypes, UneditedType, TsDaemonAssumption DEF Tree
    <2> HIDE DEF s
    <2> QED BY <1>1, <2>1, <2>2, <2>3, ClientMoves
  <1> HIDE DEF f, d
  <1>6. filling' \in [Daemon -> Filling] /\ KeyBeforeCheck' /\ CachedKeys'
    BY <1>1, <1>3, <1>4, TsTypes DEF TsInv, KeyBeforeCheck, CachedKeys
  <1>7. TsTypeOK'
    BY <1>1, <1>2, <1>5, <1>6 DEF TsInv, TsTypeOK, tsFileVars
  <1> QED BY <1>1, <1>5, <1>6, <1>7 DEF TsInv, RootEditsSeen

(* A daemon is spawned, or told to end.                                    *)
LEMMA SpawnRetireInv ==
    ASSUME TsInv, NEW c \in Client, SpawnDaemon(c) \/ RetireAsks(c) \/ RetireWaits(c)
    PROVE  TsInv'
  <1>1. UNCHANGED <<outdated, tree, tsFileVars, answered>>
    BY DEF SpawnDaemon, RetireAsks, RetireWaits
  <1>2. Unedited.root <= tree.root /\ client[c].asked.root <= tree.root
    BY TsTypes, UneditedType, TsDaemonAssumption DEF Tree, TsInv, AskedPast
  <1>3. client' \in [Client -> ClientState] /\ AskedPast'
    <2>1. CASE SpawnDaemon(c)
      <3>1. ASSUME NEW d \in Daemon
            PROVE  /\ [At(c, "loop") EXCEPT !.child = d] \in ClientState
                   /\ [At(c, "loop") EXCEPT !.child = d].asked = client[c].asked
        <4>1. At(c, "loop") \in ClientState /\ At(c, "loop").asked = client[c].asked
          BY ClientStates
        <4> QED BY <4>1 DEF ClientState
      <3>2. \/ SetClient(c, Over(c))
            \/ \E d \in Daemon : SetClient(c, [At(c, "loop") EXCEPT !.child = d])
        BY <2>1 DEF SpawnDaemon
      <3> QED BY <1>1, <1>2, <3>1, <3>2, ClientMoves, ClientStates
    <2>2. CASE RetireAsks(c) \/ RetireWaits(c)
      <3>1. SetClient(c, At(c, "unlink")) \/ SetClient(c, At(c, "exit"))
        BY <2>2 DEF RetireAsks, RetireWaits, OnceAcked
      <3> QED BY <1>1, <1>2, <3>1, ClientMoves, ClientStates
    <2> QED BY <2>1, <2>2
  <1>4. /\ daemon' \in [Daemon -> Stage] /\ dog' \in [Daemon -> BOOLEAN]
        /\ checks' \in [Daemon -> Seq(Client \cup {NoClient})]
        /\ filling' \in [Daemon -> Filling] /\ tsCache' \in [Daemon -> Cached]
        /\ KeyBeforeCheck' /\ CachedKeys'
    <2>1. CASE \E d : Gone(d)
      BY <1>1, <2>1, DaemonEnds
    <2>2. CASE /\ daemon' = daemon \/ \E d, x : x \in Stage /\ daemon' = [daemon EXCEPT ![d] = x]
               /\ UNCHANGED <<dog, checks, filling, tsCache>>
      <3>1. daemon' \in [Daemon -> Stage]
        BY <2>2, TsTypes
      <3> QED BY <1>1, <2>2, <3>1, TsTypes, WorkKept
    <2> QED BY <2>1, <2>2 DEF SpawnDaemon, RetireAsks, RetireWaits, Stage
  <1>5. TsTypeOK'
    BY <1>1, <1>3, <1>4 DEF TsInv, TsTypeOK, Stage, tsFileVars
  <1> QED BY <1>1, <1>3, <1>4, <1>5 DEF TsInv, RootEditsSeen

(* The steps of a daemon's own threads, the worker aside.                  *)
LEMMA DaemonInv ==
    ASSUME TsInv, NEW d \in Daemon, MainStep(d) \/ DogStep(d) \/ DaemonDies(d)
    PROVE  TsInv'
  <1>1. UNCHANGED <<outdated, tree, tsClientVars>>
    BY DEF MainStep, Advertise, ClearMarker, LooksAtState, Leaves, DogStep, WatchdogLooks,
       WatchdogShuts, DaemonDies, OnlyDaemon
  <1>2. stateFile' \in Daemon \cup {NoDaemon}
    BY TsTypes DEF MainStep, Advertise, ClearMarker, LooksAtState, Leaves, DogStep,
       WatchdogLooks, WatchdogShuts, DaemonDies, tsFileVars
  <1>3. backoff' \in BOOLEAN
    BY TsTypes, Zenon DEF MainStep, Advertise, ClearMarker, LooksAtState, Leaves, DogStep,
       WatchdogLooks, WatchdogShuts, DaemonDies, tsFileVars
  <1>4. /\ daemon' \in [Daemon -> Stage] /\ dog' \in [Daemon -> BOOLEAN]
        /\ checks' \in [Daemon -> Seq(Client \cup {NoClient})]
        /\ filling' \in [Daemon -> Filling] /\ tsCache' \in [Daemon -> Cached]
        /\ KeyBeforeCheck' /\ CachedKeys'
    <2>1. CASE Gone(d)
      BY <1>1, <2>1, DaemonEnds
    <2>2. CASE WatchdogLooks(d)
      <3>1. dog' \in [Daemon -> BOOLEAN]
        BY <2>2, TsTypes, Zenon DEF WatchdogLooks
      <3>2. UNCHANGED <<daemon, checks, filling, tsCache>>
        BY <2>2 DEF WatchdogLooks
      <3> QED BY <1>1, <3>1, <3>2, TsTypes, WorkKept
    <2>3. CASE \E x \in Stage : OnlyDaemon(d, x)
      <3>1. daemon' \in [Daemon -> Stage] /\ UNCHANGED <<dog, checks, filling, tsCache>>
        BY <2>3, TsTypes DEF OnlyDaemon
      <3> QED BY <1>1, <3>1, TsTypes, WorkKept
    <2>4. Gone(d) \/ WatchdogLooks(d) \/ \E x \in Stage : OnlyDaemon(d, x)
      BY DEF MainStep, Advertise, ClearMarker, LooksAtState, Leaves, DogStep, WatchdogShuts,
         DaemonDies, Stage
    <2> QED BY <2>1, <2>2, <2>3, <2>4
  <1>5. TsTypeOK'
    BY <1>1, <1>2, <1>3, <1>4 DEF TsInv, TsTypeOK, Stage, tsClientVars
  <1> QED BY <1>1, <1>4, <1>5 DEF TsInv, RootEditsSeen, AskedPast, tsClientVars

(* An answer is sent to whoever waits for it.                              *)
LEMMA RespondKeeps ==
    ASSUME TsInv, NEW c \in Client \cup {NoClient}, NEW v \in {"current", "staleOther"},
           Respond(c, v), tree' = tree
    PROVE  /\ client' \in [Client -> ClientState] /\ AskedPast'
           /\ answered' \in {"current", "staleOther"}
  <1>1. answered \in {"current", "staleOther"}
    BY TsTypes DEF TsInv, RootEditsSeen
  <1>2. CASE c = NoClient
    BY <1>1, <1>2, TsTypes DEF Respond, tsClientVars, TsInv, AskedPast
  <1>3. CASE c # NoClient
    <2>1. /\ SetClient(c, Over(c))
          /\ answered' = IF answered = "current" THEN v ELSE answered
      BY <1>3 DEF Respond
    <2>2. Unedited.root <= tree.root
      BY TsTypes, UneditedType, TsDaemonAssumption DEF Tree
    <2>3. client' \in [Client -> ClientState] /\ AskedPast'
      BY <1>3, <2>1, <2>2, ClientMoves, ClientStates
    <2> QED BY <1>1, <2>1, <2>3
  <1> QED BY <1>2, <1>3

(* What is given out of the cache is as new as the tree.                   *)
LEMMA FreshIsCurrent ==
    ASSUME TsInv, NEW d \in Daemon, CachedIfFresh(d), NEW c \in Client
    PROVE  Judged(c, tsCache[d].seen) \in {"current", "staleOther"}
  <1>1. tsCache[d].key.root <= tsCache[d].seen.root
    BY DEF TsInv, CachedKeys
  <1>2. tsCache[d].key.root = tree.root
    BY KeyType, TsTypes DEF CachedIfFresh
  <1>3. client[c].asked.root <= tree.root
    BY DEF TsInv, AskedPast
  <1>4. /\ tree.root \in Nat /\ tsCache[d].key.root \in Nat /\ tsCache[d].seen.root \in Nat
        /\ client[c].asked.root \in Nat
    BY TsTypes, TsDaemonAssumption DEF Cached, ClientState, Tree
  <1>5. ~(tsCache[d].seen.root < client[c].asked.root)
    BY <1>1, <1>2, <1>3, <1>4
  <1> QED BY <1>5 DEF Judged

LEMMA TakeCheckInv == ASSUME TsInv, NEW d \in Daemon, TakeCheck(d) PROVE TsInv'
  <1> DEFINE c == Head(checks[d])
  <1>0. /\ UNCHANGED <<outdated, tree, tsFileVars, daemon, dog, tsCache>>
        /\ checks[d] # << >> /\ checks' = [checks EXCEPT ![d] = Tail(checks[d])]
    BY DEF TakeCheck
  <1>1. checks[d] \in Seq(Client \cup {NoClient})
    BY TsTypes
  <1>2. c \in Client \cup {NoClient} /\ Tail(checks[d]) \in Seq(Client \cup {NoClient})
    BY <1>0, <1>1
  <1>3. checks' \in [Daemon -> Seq(Client \cup {NoClient})]
    BY <1>0, <1>2, TsTypes
  <1> HIDE DEF c
  <1>4. CASE CachedIfFresh(d)
    <2>1. /\ Respond(c, IF c = NoClient THEN "current" ELSE Judged(c, tsCache[d].seen))
          /\ filling' = filling
      BY <1>4 DEF TakeCheck, c
    <2>2. (IF c = NoClient THEN "current" ELSE Judged(c, tsCache[d].seen))
             \in {"current", "staleOther"}
      BY <1>2, <1>4, FreshIsCurrent
    <2>3. /\ client' \in [Client -> ClientState] /\ AskedPast'
          /\ answered' \in {"current", "staleOther"}
      BY <1>0, <1>2, <2>1, <2>2, RespondKeeps
    <2>4. TsTypeOK'
      BY <1>0, <1>3, <2>1, <2>3 DEF TsInv, TsTypeOK, tsFileVars
    <2> QED BY <1>0, <2>1, <2>3, <2>4, WorkKept DEF TsInv, RootEditsSeen
  <1>5. CASE ~CachedIfFresh(d)
    <2> DEFINE f == [[NotFilling EXCEPT !.pc = "list"] EXCEPT !.who = c]
    <2>1. filling' = [filling EXCEPT ![d] = f] /\ UNCHANGED tsClientVars
      BY <1>5 DEF TakeCheck, c
    <2>2. f \in Filling /\ f.pc = "list"
      BY <1>2, BlankTypes DEF Filling
    <2> HIDE DEF f
    <2>3. filling' \in [Daemon -> Filling] /\ KeyBeforeCheck'
      BY <1>0, <2>1, <2>2, TsTypes DEF TsInv, KeyBeforeCheck
    <2>4. TsTypeOK'
      BY <1>0, <1>3, <2>1, <2>3 DEF TsInv, TsTypeOK, tsFileVars, tsClientVars
    <2> QED BY <1>0, <2>1, <2>3, <2>4
            DEF TsInv, RootEditsSeen, AskedPast, CachedKeys, tsClientVars
  <1> QED BY <1>4, <1>5

(* fill, up to the answer: the key is from before the check.               *)
LEMMA FillInv ==
    ASSUME TsInv, NEW d \in Daemon, ListFiles(d) \/ Fingerprint(d) \/ CheckProject(d)
    PROVE  TsInv'
  <1> DEFINE g == filling[d]
  <1>0. g \in Filling /\ tree \in Tree /\ tree.root \in Nat
    BY TsTypes, TsDaemonAssumption DEF Tree
  <1>1. PICK f : /\ SetFilling(d, f) /\ f \in Filling
                 /\ f.pc = "check" => f.key.root <= tree.root
                 /\ f.pc = "store" => f.key.root <= f.seen.root
    <2>1. CASE ListFiles(d)
      <3>1. PICK l \in Listed : SetFilling(d, [[g EXCEPT !.pc = "key"] EXCEPT !.listed = l])
                                \/ SetFilling(d, [g EXCEPT !.pc = "key"])
        BY <2>1 DEF ListFiles, Listed
      <3>2. /\ [[g EXCEPT !.pc = "key"] EXCEPT !.listed = l] \in Filling
            /\ [[g EXCEPT !.pc = "key"] EXCEPT !.listed = l].pc = "key"
            /\ [g EXCEPT !.pc = "key"] \in Filling /\ [g EXCEPT !.pc = "key"].pc = "key"
        BY <1>0 DEF Filling
      <3> QED BY <3>1, <3>2
    <2>2. CASE Fingerprint(d)
      <3> DEFINE k == IF g.listed = "none" THEN Unedited ELSE Key(g.listed)
                 f == [[g EXCEPT !.pc = "check"] EXCEPT !.key = k]
      <3>1. k \in Tree /\ k.root <= tree.root
        BY <1>0, UneditedType, KeyType
      <3>2. SetFilling(d, f)
        BY <2>2 DEF Fingerprint
      <3> HIDE DEF k
      <3>3. f \in Filling /\ f.pc = "check" /\ f.key = k
        BY <1>0, <3>1 DEF Filling
      <3> QED BY <3>1, <3>2, <3>3
    <2>3. CASE CheckProject(d)
      <3> DEFINE f == [[g EXCEPT !.pc = "store"] EXCEPT !.seen = tree]
      <3>1. SetFilling(d, f) /\ g.pc = "check"
        BY <2>3 DEF CheckProject
      <3>2. f \in Filling /\ f.pc = "store" /\ f.key = g.key /\ f.seen = tree
        BY <1>0 DEF Filling
      <3>3. g.key.root <= tree.root
        BY <3>1 DEF TsInv, KeyBeforeCheck
      <3> QED BY <3>1, <3>2, <3>3
    <2> QED BY <2>1, <2>2, <2>3
  <1>2. /\ filling' = [filling EXCEPT ![d] = f]
        /\ UNCHANGED <<outdated, tree, tsFileVars, daemon, dog, checks, tsCache, tsClientVars>>
    BY <1>1 DEF SetFilling
  <1>3. filling' \in [Daemon -> Filling] /\ KeyBeforeCheck'
    BY <1>1, <1>2, TsTypes DEF TsInv, KeyBeforeCheck
  <1>4. TsTypeOK'
    BY <1>2, <1>3 DEF TsInv, TsTypeOK, tsFileVars, tsClientVars
  <1> QED BY <1>2, <1>3, <1>4
          DEF TsInv, RootEditsSeen, AskedPast, CachedKeys, tsClientVars

(* The answer is stored under that key, or there is none.                  *)
LEMMA AnswerInv ==
    ASSUME TsInv, NEW d \in Daemon, StoreAnswer(d) \/ CheckFails(d) PROVE TsInv'
  <1> DEFINE f == filling[d]
             kept == [listed |-> f.listed, key |-> f.key, seen |-> f.seen]
  <1>0. f \in Filling
    BY TsTypes
  <1>1. /\ UNCHANGED <<outdated, tree, tsFileVars, daemon, dog, checks>>
        /\ Respond(f.who, "current")
        /\ filling' = [filling EXCEPT ![d] = NotFilling]
    BY DEF StoreAnswer, CheckFails
  <1>2. \/ tsCache' = tsCache
        \/ tsCache' = [tsCache EXCEPT ![d] = NotCached]
        \/ f.pc = "store" /\ tsCache' = [tsCache EXCEPT ![d] = kept]
    BY DEF StoreAnswer, CheckFails, StoredKey
  <1>3. kept \in Cached /\ kept.key = f.key /\ kept.seen = f.seen
    BY <1>0 DEF Filling, Cached
  <1>4. f.pc = "store" => f.key.root <= f.seen.root
    BY DEF TsInv, KeyBeforeCheck
  <1>5. f.who \in Client \cup {NoClient}
    BY <1>0 DEF Filling
  <1> HIDE DEF f, kept
  <1>6. /\ client' \in [Client -> ClientState] /\ AskedPast'
        /\ answered' \in {"current", "staleOther"}
    BY <1>1, <1>5, RespondKeeps
  <1>7. filling' \in [Daemon -> Filling] /\ KeyBeforeCheck'
    BY <1>1, TsTypes, BlankTypes DEF TsInv, KeyBeforeCheck
  <1>8. tsCache' \in [Daemon -> Cached] /\ CachedKeys'
    <2>1. tsCache' = tsCache \/ \E x \in Cached : /\ x.key.root <= x.seen.root
                                                /\ tsCache' = [tsCache EXCEPT ![d] = x]
      BY <1>2, <1>3, <1>4, BlankTypes
    <2> QED BY <2>1, TsTypes DEF TsInv, CachedKeys
  <1>9. TsTypeOK'
    BY <1>1, <1>6, <1>7, <1>8 DEF TsInv, TsTypeOK, tsFileVars
  <1> QED BY <1>6, <1>7, <1>8, <1>9 DEF TsInv, RootEditsSeen

LEMMA BackoffInv == ASSUME TsInv, BackoffEnds PROVE TsInv'
  <1>1. backoff' \in BOOLEAN
    BY Zenon DEF BackoffEnds
  <1>2. UNCHANGED <<outdated, tree, stateFile, tsDaemonVars, tsClientVars>>
    BY DEF BackoffEnds
  <1> QED BY <1>1, <1>2 DEF TsInv, TsTypeOK, AskedPast, KeyBeforeCheck, CachedKeys,
             RootEditsSeen, tsDaemonVars, tsClientVars

(* One step of the clients, the daemons and the developer.                 *)
LEMMA TsNextInv == TsInv /\ [TsNext]_tsVars => TsInv'
  <1>1. ASSUME TsInv, UNCHANGED tsVars PROVE TsInv'
    BY <1>1 DEF tsVars, tsFileVars, tsDaemonVars, tsClientVars, TsInv, TsTypeOK, AskedPast,
       KeyBeforeCheck, CachedKeys, RootEditsSeen
  <1>2. ASSUME TsInv, NEW c \in Client,
               ClientStep(c) \/ \E stop \in BOOLEAN : StartClient(c, stop)
        PROVE  TsInv'
    BY <1>2, ClientInv, AskInv, NoAnswerInv, SpawnRetireInv DEF ClientStep
  <1>3. ASSUME TsInv, NEW d \in Daemon,
               MainStep(d) \/ DogStep(d) \/ CheckStep(d) \/ DaemonDies(d)
        PROVE  TsInv'
    BY <1>3, DaemonInv, TakeCheckInv, FillInv, AnswerInv DEF CheckStep
  <1> QED BY <1>1, <1>2, <1>3, EditInv, BackoffInv DEF TsNext

(* The daemons', the clients' and the cache's states have their types.     *)
THEOREM TsTypeCorrect == TsSpec => []TsTypeOK
  <1>1. TsInv => TsTypeOK
    BY DEF TsInv
  <1> QED BY <1>1, TsInitInv, TsNextInv, PTL DEF TsSpec

(***************************************************************************)
(* fill and cached_if_fresh: no check is answered from before an edit      *)
(* under the project's root that came before it, for every set of clients  *)
(* and every number of daemons and edits, whoever times out, spawns,       *)
(* retires or crashes.                                                     *)
(***************************************************************************)
THEOREM TsRootEditsSeen == TsSpec => []RootEditsSeen
  <1>1. TsInv => RootEditsSeen
    BY DEF TsInv
  <1> QED BY <1>1, TsInitInv, TsNextInv, PTL DEF TsSpec

-----------------------------------------------------------------------------
(* The outdated daemon.  While it is there and nobody stops daemons, the   *)
(* state file is its own: a client that reads it retires it, so none gets  *)
(* to spawn, and no other daemon is there to advertise itself.             *)

OldUp ==
    outdated /\ daemon[1] # "gone" /\ \A c \in Client : ~client[c].stops

OldAlone ==
    /\ stateFile = 1 /\ checks[1] = << >> /\ filling[1].pc = "idle"
    /\ \A d \in Daemon : d # 1 => daemon[d] = "none"
    /\ \A c \in Client : /\ client[c].pc \in {"out", "read", "retire", "exit"}
                         /\ client[c].pc \in {"retire", "exit"} => client[c].on = 1

NotYetStops == \A c \in Client : client[c].pc = "out" => ~client[c].stops

OldInv ==
    /\ TsInv
    /\ NotYetStops
    /\ OldUp => OldAlone

LEMMA OneIsDaemon == 1 \in Daemon /\ 1 # NoDaemon
  BY TsDaemonAssumption DEF Daemon, NoDaemon

LEMMA OldInitInv == TsInit => OldInv
  <1> SUFFICES ASSUME TsInit PROVE OldInv
    OBVIOUS
  <1>1. NotRun.pc = "out" /\ ~NotRun.stops
    BY DEF NotRun
  <1>2. NotYetStops
    BY <1>1 DEF TsInit, NotYetStops
  <1>3. OldUp => OldAlone
    BY <1>1, BlankTypes, OneIsDaemon DEF TsInit, OldUp, OldAlone
  <1> QED BY <1>2, <1>3, TsInitInv DEF OldInv

(* What every step leaves: a client that stops daemons goes on to be one,  *)
(* and a daemon that is gone stays gone.                                   *)
ClientsGo ==
    \/ client' = client
    \/ \E c \in Client : \E s :
          SetClient(c, s) /\ s.pc # "out" /\ (client[c].stops => s.stops)

GoneStays == daemon[1] = "gone" => daemon'[1] = "gone"

LEMMA ClientGoes ==
    ASSUME OldInv, NEW c \in Client,
           ClientStep(c) \/ \E stop \in BOOLEAN : StartClient(c, stop)
    PROVE  ClientsGo /\ GoneStays
  <1> DEFINE Ok(s) == s.pc # "out" /\ (client[c].stops => s.stops)
             found == [client[c] EXCEPT !.on = stateFile]
  <1>0. TsInv /\ client[c] \in ClientState
    BY TsTypes DEF OldInv
  <1>1. /\ Ok(Over(c)) /\ Ok(NoneUsable(c))
        /\ \A pc \in {"read", "ask", "loop", "retire", "exit", "unlink"} : Ok(At(c, pc))
    BY <1>0, ClientStates
  <1>2. Ok([found EXCEPT !.pc = "retire"]) /\ Ok([found EXCEPT !.pc = "ping"])
    BY <1>0 DEF ClientState
  <1>3. Ok([[client[c] EXCEPT !.pc = "answer"] EXCEPT !.asked = tree])
    BY <1>0 DEF ClientState
  <1>4. \A d \in Daemon : Ok([At(c, "loop") EXCEPT !.child = d])
    BY <1>0 DEF At, ClientState
  <1>5. Ok([NoneUsable(c) EXCEPT !.pc = IF @ = "loop" THEN "late" ELSE @])
    <2>1. NoneUsable(c) \in ClientState /\ NoneUsable(c).pc \in {"spawn", "loop"}
      BY <1>0, ClientStates
    <2>2. [NoneUsable(c) EXCEPT !.pc = IF @ = "loop" THEN "late" ELSE @].pc
              = IF NoneUsable(c).pc = "loop" THEN "late" ELSE NoneUsable(c).pc
      BY <2>1 DEF ClientState
    <2>3. [NoneUsable(c) EXCEPT !.pc = IF @ = "loop" THEN "late" ELSE @].stops
              = NoneUsable(c).stops
      BY <2>1 DEF ClientState
    <2> QED BY <1>0, <2>1, <2>2, <2>3, ClientStates
  <1>6. ASSUME NEW stop \in BOOLEAN, StartClient(c, stop)
        PROVE  Ok([At(c, "read") EXCEPT !.stops = stop])
    <2>1. ~client[c].stops
      BY <1>6 DEF OldInv, NotYetStops, StartClient
    <2>2. [At(c, "read") EXCEPT !.stops = stop].pc = "read"
      BY <1>0 DEF At, ClientState
    <2> QED BY <2>1, <2>2
  <1> HIDE DEF Ok
  <1>7. \E s : SetClient(c, s) /\ Ok(s)
    <2>1. CASE ReadState(c)
      BY <1>1, <1>2, <2>1 DEF ReadState, OnlyClient
    <2>2. CASE Ping(c) \/ Broken(c) \/ BacksOff(c) \/ LooksAgain(c) \/ GivesUp(c)
      BY <1>1, <2>2 DEF Ping, Broken, BacksOff, LooksAgain, GivesUp, OnlyClient
    <2>3. CASE Unlink(c)
      <3>1. CASE client[c].stops
        BY <1>1, <2>3, <3>1, Zenon DEF Unlink
      <3>2. CASE ~client[c].stops
        BY <1>1, <2>3, <3>2, Zenon DEF Unlink
      <3> QED BY <3>1, <3>2
    <2>4. CASE Ask(c)
      <3>1. SetClient(c, [[client[c] EXCEPT !.pc = "answer"] EXCEPT !.asked = tree])
            \/ SetClient(c, NoneUsable(c))
        BY <2>4 DEF Ask, At
      <3> QED BY <1>1, <1>3, <3>1
    <2>5. CASE NoAnswer(c)
      BY <1>5, <2>5 DEF NoAnswer
    <2>6. CASE SpawnDaemon(c)
      BY <1>1, <1>4, <2>6 DEF SpawnDaemon
    <2>7. CASE RetireAsks(c) \/ RetireWaits(c)
      <3>1. SetClient(c, At(c, "unlink")) \/ SetClient(c, At(c, "exit"))
        BY <2>7 DEF RetireAsks, RetireWaits, OnceAcked
      <3> QED BY <1>1, <3>1
    <2>8. CASE \E stop \in BOOLEAN : StartClient(c, stop)
      BY <1>6, <2>8, Zenon DEF StartClient, OnlyClient
    <2> QED BY <2>1, <2>2, <2>3, <2>4, <2>5, <2>6, <2>7, <2>8 DEF ClientStep
  <1>8. GoneStays
    <2>1. \/ daemon' = daemon
          \/ \E d : daemon' = [daemon EXCEPT ![d] = "gone"]
          \/ \E d : daemon[d] = "none" /\ daemon' = [daemon EXCEPT ![d] = "starts"]
          \/ \E d : daemon[d] = "up" /\ daemon' = [daemon EXCEPT ![d] = "stops"]
      BY DEF ClientStep, StartClient, ReadState, Ping, Ask, Broken, NoAnswer, BacksOff,
         SpawnDaemon, LooksAgain, GivesUp, RetireAsks, RetireWaits, Unlink, OnlyClient, Gone,
         Accepts, tsDaemonVars
    <2> QED BY <1>0, <2>1, OneIsDaemon, TsTypes DEF GoneStays
  <1> QED BY <1>7, <1>8 DEF ClientsGo, Ok

LEMMA DaemonGoes ==
    ASSUME OldInv, NEW d \in Daemon,
           MainStep(d) \/ DogStep(d) \/ CheckStep(d) \/ DaemonDies(d)
    PROVE  ClientsGo /\ GoneStays
  <1>0. TsInv
    BY DEF OldInv
  <1>1. client' = client \/ \E c \in Client : SetClient(c, Over(c))
    <2>1. ASSUME NEW c \in Client \cup {NoClient}, NEW v, Respond(c, v)
          PROVE  client' = client \/ (c \in Client /\ SetClient(c, Over(c)))
      BY <2>1 DEF Respond, tsClientVars
    <2>2. CASE TakeCheck(d)
      <3>1. Head(checks[d]) \in Client \cup {NoClient}
        <4>1. checks[d] \in Seq(Client \cup {NoClient}) /\ checks[d] # << >>
          BY <1>0, <2>2, TsTypes DEF TakeCheck
        <4> QED BY <4>1
      <3>2. client' = client \/ \E v : Respond(Head(checks[d]), v)
        BY <2>2 DEF TakeCheck, tsClientVars
      <3> QED BY <2>1, <3>1, <3>2
    <2>3. CASE StoreAnswer(d) \/ CheckFails(d)
      <3>1. filling[d].who \in Client \cup {NoClient}
        BY <1>0, TsTypes DEF Filling
      <3>2. Respond(filling[d].who, "current")
        BY <2>3 DEF StoreAnswer, CheckFails
      <3> QED BY <2>1, <3>1, <3>2
    <2>4. CASE ~(TakeCheck(d) \/ StoreAnswer(d) \/ CheckFails(d))
      BY <2>4 DEF MainStep, Advertise, ClearMarker, LooksAtState, Leaves, DogStep,
         WatchdogLooks, WatchdogShuts, DaemonDies, OnlyDaemon, CheckStep, ListFiles,
         Fingerprint, CheckProject, SetFilling, tsClientVars
    <2> QED BY <2>2, <2>3, <2>4
  <1>2. ClientsGo
    BY <1>0, <1>1, ClientStates DEF ClientsGo
  <1>3. GoneStays
    <2>1. \/ daemon' = daemon
          \/ daemon' = [daemon EXCEPT ![d] = "gone"]
          \/ daemon[d] # "gone" /\ \E x : daemon' = [daemon EXCEPT ![d] = x]
      BY DEF MainStep, Advertise, ClearMarker, LooksAtState, Leaves, DogStep, WatchdogLooks,
         WatchdogShuts, DaemonDies, OnlyDaemon, Gone, CheckStep, TakeCheck, ListFiles,
         Fingerprint, CheckProject, SetFilling, StoreAnswer, CheckFails
    <2> QED BY <1>0, <2>1, OneIsDaemon, TsTypes DEF GoneStays
  <1> QED BY <1>2, <1>3

(* So the daemon and the stopping clients are no more than before.         *)
LEMMA OldStays ==
    ASSUME OldInv, ClientsGo, GoneStays, outdated' = outdated
    PROVE  NotYetStops' /\ (OldUp' => OldUp)
  <1>1. client \in [Client -> ClientState]
    BY TsTypes DEF OldInv
  <1>2. ASSUME NEW c \in Client
        PROVE  /\ client[c].stops => client'[c].stops
               /\ client'[c].pc = "out" => client'[c] = client[c]
    BY <1>1 DEF ClientsGo, SetClient
  <1> QED BY <1>2 DEF OldInv, NotYetStops, OldUp, GoneStays

(* A client reads the outdated daemon's state and retires it.              *)
LEMMA ClientAlone ==
    ASSUME OldInv, OldUp, OldUp', NEW c \in Client,
           ClientStep(c) \/ \E stop \in BOOLEAN : StartClient(c, stop)
    PROVE  OldAlone'
  <1>0. TsInv /\ OldAlone /\ client \in [Client -> ClientState] /\ ~client[c].stops
    BY TsTypes DEF OldInv, OldUp
  <1>1. \/ ReadState(c) \/ RetireAsks(c) \/ RetireWaits(c)
        \/ \E stop \in BOOLEAN : StartClient(c, stop)
    BY <1>0 DEF OldAlone, ClientStep, Ping, Ask, Broken, NoAnswer, BacksOff, SpawnDaemon,
       LooksAgain, GivesUp, Unlink
  <1>2. PICK s : /\ SetClient(c, s) /\ s.pc \in {"read", "retire", "exit"}
                 /\ s.pc \in {"retire", "exit"} => s.on = 1
                 /\ stateFile' = stateFile /\ UNCHANGED <<checks, filling>>
                 /\ daemon' = daemon \/ daemon' = [daemon EXCEPT ![1] = "stops"]
    <2>1. CASE ReadState(c)
      <3> DEFINE found == [client[c] EXCEPT !.on = stateFile]
                 s == [found EXCEPT !.pc = "retire"]
      <3>1. stateFile = 1 /\ Skewed(stateFile) /\ stateFile # NoDaemon
        BY <1>0, OneIsDaemon DEF OldAlone, OldUp, Skewed
      <3>2. SetClient(c, s) /\ UNCHANGED <<stateFile, daemon, checks, filling>>
        BY <2>1, <3>1 DEF ReadState, OnlyClient, tsFileVars, tsDaemonVars
      <3>3. s.pc = "retire" /\ s.on = 1
        BY <1>0, <3>1 DEF ClientState
      <3> QED BY <3>2, <3>3
    <2>2. CASE RetireAsks(c)
      <3>1. client[c].on = 1
        BY <1>0, <2>2 DEF OldAlone, RetireAsks
      <3>2. ~Gone(1)
        BY <1>0, OneIsDaemon, TsTypes DEF Gone, OldUp
      <3>3. /\ daemon' = [daemon EXCEPT ![1] = "stops"] /\ SetClient(c, At(c, OnceAcked(c)))
            /\ UNCHANGED <<stateFile, checks, filling>>
        BY <2>2, <3>1, <3>2 DEF RetireAsks, tsFileVars
      <3>4. OnceAcked(c) = "exit"
        BY <1>0 DEF OnceAcked
      <3>5. At(c, "exit").pc = "exit" /\ At(c, "exit").on = 1
        BY <1>0, <3>1, ClientStates
      <3> QED BY <3>3, <3>4, <3>5
    <2>3. CASE RetireWaits(c)
      <3>1. client[c].on = 1
        BY <1>0, <2>3 DEF OldAlone, RetireWaits
      <3> QED BY <1>0, <2>3, <3>1, OneIsDaemon, TsTypes DEF RetireWaits, Gone, OldUp
    <2>4. CASE \E stop \in BOOLEAN : StartClient(c, stop)
      <3>1. PICK stop \in BOOLEAN : StartClient(c, stop)
        BY <2>4
      <3> DEFINE s == [At(c, "read") EXCEPT !.stops = stop]
      <3>2. SetClient(c, s) /\ UNCHANGED <<stateFile, daemon, checks, filling>>
        BY <3>1 DEF StartClient, OnlyClient, tsFileVars, tsDaemonVars
      <3>3. s.pc = "read"
        BY <1>0 DEF At, ClientState
      <3> QED BY <3>2, <3>3
    <2> QED BY <1>1, <2>1, <2>2, <2>3, <2>4
  <1>3. \A e \in Client : client'[e] = IF e = c THEN s ELSE client[e]
    BY <1>0, <1>2 DEF SetClient
  <1> QED BY <1>0, <1>2, <1>3, TsTypes DEF OldAlone

(* No other daemon is there to take a step, and this one has no checks.    *)
LEMMA DaemonAlone ==
    ASSUME OldInv, OldUp, OldUp', NEW d \in Daemon,
           MainStep(d) \/ DogStep(d) \/ CheckStep(d) \/ DaemonDies(d)
    PROVE  OldAlone'
  <1>0. TsInv /\ OldAlone /\ daemon \in [Daemon -> Stage]
    BY TsTypes DEF OldInv
  <1>1. daemon[d] # "none"
    BY DEF MainStep, Advertise, ClearMarker, LooksAtState, Leaves, DogStep, WatchdogLooks,
       WatchdogShuts, DaemonDies, CheckStep, Works, TakeCheck, ListFiles, Fingerprint,
       CheckProject, StoreAnswer, CheckFails
  <1>2. d = 1
    BY <1>0, <1>1 DEF OldAlone
  <1>3. ~Gone(d)
    BY <1>0, <1>2, OneIsDaemon DEF Gone, OldUp
  <1>4. ~CheckStep(d)
    BY <1>0, <1>2 DEF OldAlone, CheckStep, TakeCheck, ListFiles, Fingerprint, CheckProject,
       StoreAnswer, CheckFails
  <1>5. UNCHANGED <<checks, filling, client>>
    BY <1>3, <1>4 DEF MainStep, Advertise, ClearMarker, LooksAtState, Leaves, DogStep,
       WatchdogLooks, WatchdogShuts, DaemonDies, OnlyDaemon, tsClientVars
  <1>6. stateFile' = stateFile
    BY <1>0, <1>2, <1>3, <1>4 DEF MainStep, Advertise, ClearMarker, LooksAtState, Leaves,
       DogStep, WatchdogLooks, WatchdogShuts, DaemonDies, tsFileVars, OldAlone
  <1>7. daemon' = daemon \/ \E x : daemon' = [daemon EXCEPT ![d] = x]
    BY <1>3, <1>4 DEF MainStep, Advertise, ClearMarker, LooksAtState, Leaves, DogStep,
       WatchdogLooks, WatchdogShuts, DaemonDies, OnlyDaemon
  <1>8. \A e \in Daemon : e # 1 => daemon'[e] = "none"
    BY <1>0, <1>2, <1>7 DEF OldAlone
  <1> QED BY <1>0, <1>5, <1>6, <1>8 DEF OldAlone

LEMMA OldNextInv == OldInv /\ [TsNext]_tsVars => OldInv'
  <1> SUFFICES ASSUME OldInv, [TsNext]_tsVars PROVE OldInv'
    OBVIOUS
  <1>1. TsInv'
    BY TsNextInv DEF OldInv
  <1>2. outdated' = outdated
    BY DEF TsNext, tsVars, Edit, BackoffEnds, ClientStep, StartClient, ReadState, Ping, Ask,
       Broken, NoAnswer, BacksOff, SpawnDaemon, LooksAgain, GivesUp, RetireAsks, RetireWaits,
       Unlink, OnlyClient, MainStep, Advertise, ClearMarker, LooksAtState, Leaves, DogStep,
       WatchdogLooks, WatchdogShuts, DaemonDies, OnlyDaemon, CheckStep, TakeCheck, ListFiles,
       Fingerprint, CheckProject, SetFilling, StoreAnswer, CheckFails
  <1>3. CASE UNCHANGED tsVars \/ Edit \/ BackoffEnds
    <2>1. UNCHANGED <<stateFile, daemon, checks, filling, client>>
      BY <1>3 DEF tsVars, Edit, BackoffEnds, tsFileVars, tsDaemonVars, tsClientVars
    <2> QED BY <1>1, <1>2, <2>1 DEF OldInv, NotYetStops, OldUp, OldAlone
  <1>4. ASSUME NEW c \in Client, ClientStep(c) \/ \E stop \in BOOLEAN : StartClient(c, stop)
        PROVE  OldInv'
    BY <1>1, <1>2, <1>4, ClientGoes, OldStays, ClientAlone DEF OldInv
  <1>5. ASSUME NEW d \in Daemon, MainStep(d) \/ DogStep(d) \/ CheckStep(d) \/ DaemonDies(d)
        PROVE  OldInv'
    BY <1>1, <1>2, <1>5, DaemonGoes, OldStays, DaemonAlone DEF OldInv
  <1> QED BY <1>3, <1>4, <1>5 DEF TsNext

(***************************************************************************)
(* retire: a daemon of this version is advertised only once the outdated   *)
(* one is gone, for every set of clients that find it and every number of  *)
(* daemons, unless `oam daemon stop` runs, which does not wait.            *)
(***************************************************************************)
THEOREM TsOldDaemonGone == TsSpec => []OldDaemonGone
  <1>1. OldInv => OldDaemonGone
    BY DEF OldInv, OldUp, OldAlone, OldDaemonGone
  <1> QED BY <1>1, OldInitInv, OldNextInv, PTL DEF TsSpec
=============================================================================
