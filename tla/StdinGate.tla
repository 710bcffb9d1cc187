----------------------------- MODULE StdinGate -----------------------------
(***************************************************************************)
(* process.stdin's blocking read and the console-mode switch that cancels  *)
(* it: ReadGate in crates/oam_core/src/stdin.rs and tty_set_raw_mode for   *)
(* Windows in crates/oam_engine/src/node_ops.rs.                           *)
(*                                                                         *)
(* One reader (the module's own assumption) reads again as soon as a       *)
(* result is delivered; switches are serialised by WIN_CONSOLE_SWITCH.     *)
(* The reader takes its steps between those of the switch: state is an     *)
(* atomic, the rest of the gate is behind one lock.  The console's input   *)
(* is a queue of what the user types and the Enters that were injected;    *)
(* another program on the console may take from it, which is what the      *)
(* timeout on the settle is for.                                           *)
(***************************************************************************)
EXTENDS Integers, Sequences

CONSTANTS
    MaxSwitches, \* bound on the calls of setRawMode
    MaxInput     \* bound on what waits in the console's input

ASSUME StdinAssumption == MaxSwitches \in Nat /\ MaxInput \in Nat

VARIABLES
    state,       \* ReadGate::state
    held,        \* Settle::held
    generation,  \* Settle::generation
    cursor,      \* Settle::saved_cursor is Some
    mode,        \* the console's mode
    orig,        \* WIN_STDIN_ORIG_MODE, or NoMode
    input,       \* the console's input
    reader,      \* the reading thread
    switch,      \* the mode switch under way
    switches,    \* switches so far
    delivered    \* history: the last result that was delivered

gateVars == <<state, held, generation, cursor>>
stdinVars == <<gateVars, mode, orig, input, reader, switch, switches, delivered>>

Mode == {"cooked", "raw"}
NoMode == "none"

(* The reader: before begin, parked in it, blocked in the OS, back with a  *)
(* result, or with one that was discarded.  kept: a cancel of this read    *)
(* was given up because the Enter could not be injected.                   *)
Reader == [pc : {"begin", "parked", "os", "end", "settle", "idle"},
           mode : Mode, kept : BOOLEAN, woken : BOOLEAN]

(* tty_set_raw_mode, by the step it takes next.                            *)
Switch == [pc : {"off", "hold", "mark", "arm", "inject", "disarm", "wait", "flip",
                 "release"},
           target : Mode, saved : Mode \cup {NoMode}, gen : Nat]
NoSwitch == [pc |-> "off", target |-> "cooked", saved |-> NoMode, gen |-> 0]

(* The mode a result was read under and the one it was delivered under.    *)
Delivery == [read : Mode, now : Mode, kept : BOOLEAN]

StdinInit ==
    /\ state = "idle" /\ held = 0 /\ generation = 0 /\ cursor = FALSE
    /\ mode = "cooked" /\ orig = NoMode
    /\ input = << >>
    /\ reader = [pc |-> "begin", mode |-> "cooked", kept |-> FALSE, woken |-> FALSE]
    /\ switch = NoSwitch /\ switches = 0
    /\ delivered = [read |-> "cooked", now |-> "cooked", kept |-> FALSE]

-----------------------------------------------------------------------------
(* read_through_gate.                                                      *)

(* begin waits while a hold is out, and takes the mode in force.           *)
\* A bug: begin does not look for a hold.
HeldBackNever == FALSE
HeldBack == held > 0

Begin ==
    /\ \/ reader.pc = "begin"
       \/ reader.pc = "parked" /\ reader.woken
    /\ IF HeldBack
       THEN reader' = [reader EXCEPT !.pc = "parked", !.woken = FALSE] /\ UNCHANGED state
       ELSE /\ reader' = [pc |-> "os", mode |-> mode, kept |-> FALSE, woken |-> FALSE]
            /\ state' = "pending"
    /\ UNCHANGED <<held, generation, cursor, mode, orig, input, switch, switches, delivered>>

(* The blocking read returns.                                              *)
ReadReturns ==
    /\ reader.pc = "os" /\ input # << >>
    /\ input' = Tail(input)
    /\ reader' = [reader EXCEPT !.pc = "end"]
    /\ UNCHANGED <<gateVars, mode, orig, switch, switches, delivered>>

(* end: the result is delivered, unless a cancel marked the read.  (The    *)
(* re-read after EINTR is Unix's alone.)                                   *)
End ==
    /\ reader.pc = "end"
    /\ IF state = "pending"
       THEN /\ state' = "idle"
            /\ delivered' = [read |-> reader.mode, now |-> mode, kept |-> reader.kept]
            /\ reader' = [reader EXCEPT !.pc = "begin"]
       ELSE /\ reader' = [reader EXCEPT !.pc = "settle"]
            /\ UNCHANGED <<state, delivered>>
    /\ UNCHANGED <<held, generation, cursor, mode, orig, input, switch, switches>>

(* settle_discard puts the cursor back and wakes the switch.               *)
SettleDiscard ==
    /\ reader.pc = "settle"
    /\ cursor' = FALSE
    /\ generation' = generation + 1
    /\ reader' = [reader EXCEPT !.pc = "idle"]
    /\ UNCHANGED <<state, held, mode, orig, input, switch, switches, delivered>>

Settled ==
    /\ reader.pc = "idle"
    /\ state' = "idle"
    /\ reader' = [reader EXCEPT !.pc = "begin"]
    /\ UNCHANGED <<held, generation, cursor, mode, orig, input, switch, switches, delivered>>

(* The user types; another program on the console reads.                   *)
Type ==
    /\ Len(input) < MaxInput
    /\ input' = Append(input, "user")
    /\ UNCHANGED <<gateVars, mode, orig, reader, switch, switches, delivered>>

Steal ==
    /\ input # << >>
    /\ input' = Tail(input)
    /\ UNCHANGED <<gateVars, mode, orig, reader, switch, switches, delivered>>

-----------------------------------------------------------------------------
(* tty_set_raw_mode.                                                       *)

Goto(pc) == switch' = [switch EXCEPT !.pc = pc]

(* The saved mode, stashed by the first switch to raw and taken out by the *)
(* switch back, and what plan_console_switch makes of it: nothing to do    *)
(* when the console has the mode already, or raw was never asked for.      *)
SetRawMode(enable) ==
    LET saved == IF enable THEN NoMode ELSE orig
        target == IF enable THEN "raw" ELSE saved
    IN
    /\ switch.pc = "off" /\ switches < MaxSwitches
    /\ switches' = switches + 1
    /\ orig' = IF ~enable THEN NoMode ELSE IF orig = NoMode THEN mode ELSE orig
    /\ IF target \in {NoMode, mode} THEN UNCHANGED switch
       ELSE switch' = [pc |-> "hold", target |-> target, saved |-> saved, gen |-> 0]
    /\ UNCHANGED <<gateVars, mode, input, reader, delivered>>

Hold ==
    /\ switch.pc = "hold"
    /\ held' = held + 1
    /\ Goto("mark")
    /\ UNCHANGED <<state, generation, cursor, mode, orig, input, reader, switches, delivered>>

(* mark_discard: the read in flight, if there is one.                      *)
MarkDiscard ==
    /\ switch.pc = "mark"
    /\ IF state = "pending" THEN state' = "discard" /\ Goto("arm")
       ELSE UNCHANGED state /\ Goto("flip")
    /\ UNCHANGED <<held, generation, cursor, mode, orig, input, reader, switches, delivered>>

(* arm_cancel: the cursor of a line read, and the generation to wait on.   *)
ArmCancel ==
    /\ switch.pc = "arm"
    /\ cursor' = (mode = "cooked")
    /\ switch' = [switch EXCEPT !.pc = "inject", !.gen = generation]
    /\ UNCHANGED <<state, held, generation, mode, orig, input, reader, switches, delivered>>

(* inject_enter, which may fail.                                           *)
InjectEnter ==
    /\ switch.pc = "inject"
    /\ \/ input' = Append(input, "enter") /\ Goto("wait")
       \/ Goto("disarm") /\ UNCHANGED input
    /\ UNCHANGED <<gateVars, mode, orig, reader, switches, delivered>>

(* disarm_cancel: the read is live again, unless it settled in between.    *)
DisarmCancel ==
    /\ switch.pc = "disarm"
    /\ IF state = "discard"
       THEN state' = "pending" /\ reader' = [reader EXCEPT !.kept = TRUE]
       ELSE UNCHANGED <<state, reader>>
    /\ cursor' = FALSE
    /\ Goto("flip")
    /\ UNCHANGED <<held, generation, mode, orig, input, switches, delivered>>

(* wait_settled: the read settled past the generation, or the timeout.     *)
WaitSettled ==
    /\ switch.pc = "wait" /\ generation # switch.gen
    /\ Goto("flip")
    /\ UNCHANGED <<gateVars, mode, orig, input, reader, switches, delivered>>

SettleTimeout ==
    /\ switch.pc = "wait" /\ generation = switch.gen
    /\ Goto("flip")
    /\ UNCHANGED <<gateVars, mode, orig, input, reader, switches, delivered>>

(* SetConsoleMode; one that fails puts the saved mode back in its slot.    *)
RestoreSlot == orig' = IF switch.saved = NoMode THEN orig ELSE switch.saved

Flip ==
    /\ switch.pc = "flip"
    /\ \/ mode' = switch.target /\ UNCHANGED orig
       \/ UNCHANGED mode /\ RestoreSlot
    /\ Goto("release")
    /\ UNCHANGED <<gateVars, input, reader, switches, delivered>>

(* ReadHold::drop: the last one wakes the reader parked in begin.          *)
\* A bug: the reader is not woken.
WakeReaderNot == UNCHANGED reader
WakeReader == reader' = IF reader.pc = "parked" THEN [reader EXCEPT !.woken = TRUE] ELSE reader

Release ==
    /\ switch.pc = "release"
    /\ held' = held - 1
    /\ IF held = 1 THEN WakeReader ELSE UNCHANGED reader
    /\ switch' = NoSwitch
    /\ UNCHANGED <<state, generation, cursor, mode, orig, input, switches, delivered>>

-----------------------------------------------------------------------------
ReaderStep == Begin \/ End \/ SettleDiscard \/ Settled
SwitchStep == \/ Hold \/ MarkDiscard \/ ArmCancel \/ InjectEnter \/ DisarmCancel
              \/ WaitSettled \/ SettleTimeout \/ Flip \/ Release

StdinNext ==
    \/ ReaderStep \/ ReadReturns \/ Type \/ Steal
    \/ SwitchStep
    \/ \E enable \in BOOLEAN : SetRawMode(enable)

StdinSpec == StdinInit /\ [][StdinNext]_stdinVars

-----------------------------------------------------------------------------
StdinTypeOK ==
    /\ state \in {"idle", "pending", "discard"}
    /\ held \in 0 .. 1 /\ generation \in 0 .. MaxSwitches /\ cursor \in BOOLEAN
    /\ mode \in Mode /\ orig \in Mode \cup {NoMode}
    /\ input \in Seq({"user", "enter"})
    /\ reader \in Reader /\ switch \in Switch
    /\ switches \in 0 .. MaxSwitches
    /\ delivered \in Delivery

(***************************************************************************)
(* "the caller only ever sees a result from a read that ran under the      *)
(* current console mode" (read_through_gate): a read blocked when the mode *)
(* is switched is discarded and the one issued instead waits for the new   *)
(* mode.  The exception is the one disarm_cancel makes, a read whose       *)
(* cancel was given up.                                                    *)
(***************************************************************************)
DeliveredUnderMode == delivered.read = delivered.now \/ delivered.kept

(***************************************************************************)
(* A switch never strands the reader: one that parks at the gate is        *)
(* blocked in a read again, whatever became of the cancel and the flip.    *)
(***************************************************************************)
ReaderResumes == reader.pc = "parked" ~> reader.pc = "os"
=============================================================================
