----------------------------- MODULE OpRuntime -----------------------------
(***************************************************************************)
(* The op side of the event loop: CoreRuntime (crates/oam_core/src/lib.rs) *)
(* and the promises the engine parks for it (PendingOps in                 *)
(* crates/oam_engine/src/ops.rs).                                          *)
(*                                                                         *)
(* Two kinds of thread meet here.  The isolate thread spawns ops, ref()s   *)
(* and unref()s handles, closes them and takes completions off the         *)
(* channel; tokio's threads finish ops (Complete) and send a completion    *)
(* for each, in any order and at any time.  OS signals and V8's platform   *)
(* send completions of their own, under two reserved ids.                  *)
(*                                                                         *)
(* The loop asks one question of all this, has_inflight(): may the process *)
(* still hear from an op that should keep it alive?  The answer is a       *)
(* counter that six operations adjust, each by its own rule.               *)
(***************************************************************************)
EXTENDS Integers, Sequences, FiniteSets, PartialMaps

CONSTANTS
    OpIdMax,       \* OpId::MAX; 2^64 - 1 in the code
    HandleKey,     \* the handles JS can ref() and unref() as a unit
    MaxSentinels   \* bound: reserved-id completions queued at a time

ASSUME OpIdMaxAssumption == OpIdMax \in Nat /\ OpIdMax > 1

(* op_: CoreRuntime's next_id and running, which the timers have too.      *)
VARIABLES
    op_next_id,   \* the id the next op gets
    op_running,   \* ops whose future tokio has not finished
    channel,      \* the mpsc channel: ids of completions not yet received
    inflight,     \* the counter behind has_inflight()
    unref_ops,    \* live ops that do not count in inflight
    handles,      \* HandleKey -> what is remembered of it, a partial map
    op_handles,   \* op -> the handle it is filed under, a partial map
    parked        \* ops with a resolver or a callback in PendingOps

opVars == <<op_next_id, op_running, channel, inflight, unref_ops, handles,
            op_handles, parked>>

-----------------------------------------------------------------------------
(* next_id counts ops up from 1; the two ends of the range are reserved    *)
(* for completions that are no op's.                                       *)
SIGNAL_OP_ID == 0
PLATFORM_TASK_OP_ID == OpIdMax

Sentinels == {SIGNAL_OP_ID, PLATFORM_TASK_OP_ID}
OpId == 1 .. (OpIdMax - 1)       \* the ids next_id hands out

HandleRef == [referenced : BOOLEAN, ops : SUBSET OpId]
NewHandle == [referenced |-> TRUE, ops |-> {}]

\* handles.entry(key).or_insert_with(HandleRef::new)
HandleEntry(key) == IF key \in DOMAIN handles THEN handles[key] ELSE NewHandle

\* The map with key's entry set to h, or dropped when h says nothing.
Pruned(key, h) ==
    IF h.referenced /\ h.ops = {} THEN Drop(handles, {key})
                                  ELSE Put(handles, key, h)

has_inflight == inflight > 0

Queued == {channel[i] : i \in 1 .. Len(channel)} \ Sentinels
Live == op_running \cup Queued      \* spawned and not yet settled

-----------------------------------------------------------------------------
\* A bug: ids are handed out from the signal sentinel's up.
InitFromZero ==
    /\ op_next_id = 0
    /\ op_running = {}
    /\ channel = << >>
    /\ inflight = 0
    /\ unref_ops = {}
    /\ handles = EmptyMap
    /\ op_handles = EmptyMap
    /\ parked = {}

OpsInit ==
    /\ op_next_id = 1
    /\ op_running = {}
    /\ channel = << >>
    /\ inflight = 0
    /\ unref_ops = {}
    /\ handles = EmptyMap
    /\ op_handles = EmptyMap
    /\ parked = {}

(* spawn_op and the park of its promise or callback: one call from JS.     *)
(* referenced says whether the op counts; spawn_op_unref counts it, takes  *)
(* the count back and remembers the id.                                    *)
Spawn(referenced) ==
    /\ op_next_id < OpIdMax
    /\ op_next_id' = op_next_id + 1
    /\ op_running' = op_running \cup {op_next_id}
    /\ inflight' = IF referenced THEN inflight + 1 ELSE inflight
    /\ unref_ops' = IF referenced THEN unref_ops
                                  ELSE unref_ops \cup {op_next_id}
    /\ parked' = parked \cup {op_next_id}
    /\ UNCHANGED channel

SpawnOp == Spawn(TRUE) /\ UNCHANGED <<handles, op_handles>>

SpawnOpUnref == Spawn(FALSE) /\ UNCHANGED <<handles, op_handles>>

SpawnHandleOp(key) ==
    LET h == HandleEntry(key) IN
    /\ Spawn(h.referenced)
    /\ handles' = Put(handles, key, [h EXCEPT !.ops = @ \cup {op_next_id}])
    /\ op_handles' = Put(op_handles, op_next_id, key)

\* A bug: every op of the handle is recounted, whatever it counted before.
RefChangeAll(h, referenced) ==
    IF referenced THEN Cardinality(h.ops) ELSE -Cardinality(h.ops)

(* handle.ref() / handle.unref(): the loop over the handle's ops moves     *)
(* each between unref_ops and the count once, however often it is called.  *)
RefChange(h, referenced) ==
    IF referenced THEN Cardinality(h.ops \cap unref_ops)
                  ELSE -Cardinality(h.ops \ unref_ops)

SetHandleRef(key, referenced) ==
    LET h == [HandleEntry(key) EXCEPT !.referenced = referenced] IN
    /\ handles' = Pruned(key, h)
    /\ unref_ops' = IF referenced THEN unref_ops \ h.ops
                                  ELSE unref_ops \cup h.ops
    /\ inflight' = inflight + RefChange(h, referenced)
    /\ UNCHANGED <<op_next_id, op_running, channel, op_handles, parked>>

(* The handle is closed.  Its ops keep the ref-ness they have.             *)
ForgetHandle(key) ==
    /\ key \in DOMAIN handles
    /\ handles' = Drop(handles, {key})
    /\ op_handles' = Drop(op_handles, handles[key].ops)
    /\ UNCHANGED <<op_next_id, op_running, channel, inflight, unref_ops,
                   parked>>

-----------------------------------------------------------------------------
(* The senders.                                                            *)

(* An op's future ends, by returning or by a panic that catch_unwind turns *)
(* into a failure: either way exactly one completion is sent.              *)
Complete(id) ==
    /\ id \in op_running
    /\ op_running' = op_running \ {id}
    /\ channel' = Append(channel, id)
    /\ UNCHANGED <<op_next_id, inflight, unref_ops, handles, op_handles,
                   parked>>

(* An OS signal, or LoopWaker::wake.                                       *)
SendSentinel(id) ==
    /\ Cardinality({i \in 1 .. Len(channel) : channel[i] \in Sentinels})
         < MaxSentinels
    /\ channel' = Append(channel, id)
    /\ UNCHANGED <<op_next_id, op_running, inflight, unref_ops, handles,
                   op_handles, parked>>

-----------------------------------------------------------------------------
(* try_recv / recv_deadline with a completion in the channel, note_settled *)
(* on it, and settle_completion: one step of the isolate thread.           *)

\* A bug: the op leaves the index and not its handle's set, so that a later
\* ref() counts an op that has settled.
UnfileIndexOnly(id) ==
    /\ op_handles' = Drop(op_handles, {id})
    /\ UNCHANGED handles

\* note_settled's map work: the op leaves its handle's set, and an entry
\* left in its default state goes with it.
Unfile(id) ==
    IF id \in DOMAIN op_handles
    THEN /\ op_handles' = Drop(op_handles, {id})
         /\ LET key == op_handles[id] IN
            handles' = IF key \in DOMAIN handles
                       THEN Pruned(key, [handles[key] EXCEPT !.ops = @ \ {id}])
                       ELSE handles
    ELSE UNCHANGED <<handles, op_handles>>

NoteSettled(id) ==
    IF id \in Sentinels
    THEN UNCHANGED <<inflight, unref_ops, handles, op_handles>>
    ELSE /\ Unfile(id)
         /\ inflight' = IF id \in unref_ops THEN inflight ELSE inflight - 1
         /\ unref_ops' = unref_ops \ {id}

\* A bug: the resolver stays parked when the op that settled was unref'd.
SettleKeepsUnref ==
    /\ channel # << >>
    /\ channel' = Tail(channel)
    /\ NoteSettled(Head(channel))
    /\ parked' = parked \ ({Head(channel)} \ unref_ops)
    /\ UNCHANGED <<op_next_id, op_running>>

Settle ==
    /\ channel # << >>
    /\ channel' = Tail(channel)
    /\ NoteSettled(Head(channel))
    /\ parked' = parked \ {Head(channel)}
    /\ UNCHANGED <<op_next_id, op_running>>

OpsNext ==
    \/ SpawnOp
    \/ SpawnOpUnref
    \/ \E key \in HandleKey :
          \/ SpawnHandleOp(key)
          \/ \E referenced \in BOOLEAN : SetHandleRef(key, referenced)
          \/ ForgetHandle(key)
    \/ \E id \in op_running : Complete(id)
    \/ \E id \in Sentinels : SendSentinel(id)
    \/ Settle

OpsSpec == OpsInit /\ [][OpsNext]_opVars

-----------------------------------------------------------------------------
OpsTypeOK ==
    /\ op_next_id \in 1 .. OpIdMax
    /\ op_running \subseteq OpId
    /\ channel \in Seq(0 .. OpIdMax)
    /\ inflight \in Int
    /\ unref_ops \subseteq OpId
    /\ DOMAIN handles \subseteq HandleKey
    /\ \A k \in DOMAIN handles : handles[k] \in HandleRef
    /\ DOMAIN op_handles \subseteq OpId
    /\ \A i \in DOMAIN op_handles : op_handles[i] \in HandleKey
    /\ parked \subseteq OpId

(***************************************************************************)
(* The counter behind has_inflight() is exactly the number of live ops     *)
(* that are not unref'd, through every spawn, ref, unref, close and        *)
(* settlement: it never underflows, the loop never waits on an op that has *)
(* settled (recv_deadline(None) would block forever), and never exits over *)
(* a referenced op that is still out.                                      *)
(***************************************************************************)
InflightExact ==
    /\ unref_ops \subseteq Live
    /\ inflight = Cardinality(Live \ unref_ops)

(* handles and its reverse index say the same: an op filed under a key is  *)
(* in that key's set, and the other way round, and every filed op is live. *)
HandleIndexAgrees ==
    /\ DOMAIN op_handles \subseteq Live
    /\ \A i \in DOMAIN op_handles :
          /\ op_handles[i] \in DOMAIN handles
          /\ i \in handles[op_handles[i]].ops
    /\ \A k \in DOMAIN handles : \A i \in handles[k].ops :
          i \in DOMAIN op_handles /\ op_handles[i] = k

(* An op is out of the count exactly when its handle is unref'd.           *)
RefAgrees ==
    \A k \in DOMAIN handles : \A i \in handles[k].ops :
        i \in unref_ops <=> ~handles[k].referenced

(* A handle has an op in flight or is unref'd.                             *)
HandlesPruned ==
    \A k \in DOMAIN handles : handles[k].ops # {} \/ ~handles[k].referenced

(***************************************************************************)
(* The handle map is right: it agrees with its reverse index and files     *)
(* live ops only (set_handle_ref would corrupt inflight with one that has  *)
(* settled); an op counts exactly when its handle is referenced, the ones  *)
(* in flight at ref() or unref() and the ones issued after it ("Applies to *)
(* every op in flight under `key` AND to the ones issued after it"); and   *)
(* it does not grow with sockets that came and went.                       *)
(***************************************************************************)
HandlesConsistent == HandleIndexAgrees /\ RefAgrees /\ HandlesPruned

(***************************************************************************)
(* Every live op has a promise or callback waiting for it and every        *)
(* waiting promise has a live op: no await hangs on an op that is gone, no *)
(* completion finds its promise settled already.                           *)
(***************************************************************************)
ParkedIsLive == parked = Live

(***************************************************************************)
(* A completion is sent once per op.                                       *)
(***************************************************************************)
SentOnce ==
    /\ op_running \cap Queued = {}
    /\ \A i, j \in 1 .. Len(channel) :
          channel[i] = channel[j] /\ i # j => channel[i] \in Sentinels

-----------------------------------------------------------------------------
(* What JavaScript and the loop see of the ops.                            *)
Counting == parked \ unref_ops
Filed == {<<i, op_handles[i]>> : i \in DOMAIN op_handles}
Unrefd == {k \in DOMAIN handles : ~handles[k].referenced}

Promised == INSTANCE AsyncOps
                WITH Handle <- HandleKey, Wakes <- Sentinels,
                     issued <- op_next_id - 1, ops <- parked, refd <- Counting,
                     filed <- Filed, unrefd <- Unrefd, working <- op_running,
                     arrived <- channel, alive <- has_inflight

(***************************************************************************)
(* The counter, the handle map and its reverse index implement AsyncOps:   *)
(* each op is settled once, when its completion is taken and a promise     *)
(* still waits for it; an op of a handle keeps the process alive exactly   *)
(* while the handle is ref'd, whether it was under way at ref() or unref() *)
(* or came later, and has_inflight() says whether one does.                *)
(***************************************************************************)
BehavesAsPromised == Promised!Spec
=============================================================================
