-------------------------- MODULE OpRuntimeProofs --------------------------
(***************************************************************************)
(* Proofs about OpRuntime, for every set of handles and every number of    *)
(* ops.  InflightExact is not inductive alone: ref() and unref() move the  *)
(* counter by the handle's ops, so the ops filed under a handle must be    *)
(* live (HandleIndexAgrees), and a settlement lowers it once, so an id     *)
(* must be in the channel once (SentOnce) and be fresh when it is handed   *)
(* out (IdsBelowNext).                                                     *)
(***************************************************************************)
EXTENDS OpRuntime, FiniteSetTheorems, TLAPS

IdsBelowNext == \A i \in Live : i < op_next_id

IInv ==
    /\ OpsTypeOK
    /\ SentOnce
    /\ IdsBelowNext
    /\ InflightExact
    /\ HandleIndexAgrees
    /\ RefAgrees
    /\ HandlesPruned
    /\ ParkedIsLive

USE OpIdMaxAssumption

-----------------------------------------------------------------------------
(* What the channel's two operations do to the set of queued ops.          *)

(* Sending a completion adds its id to the queued ops, unless reserved.    *)
LEMMA QueuedAppend ==
    ASSUME OpsTypeOK, NEW id \in 0 .. OpIdMax, channel' = Append(channel, id)
    PROVE  Queued' = Queued \cup ({id} \ Sentinels)
  <1>1. channel \in Seq(0 .. OpIdMax)
    BY DEF OpsTypeOK
  <1>2. /\ Len(channel') = Len(channel) + 1
        /\ Len(channel) \in Nat
        /\ \A i \in 1 .. Len(channel) : channel'[i] = channel[i]
        /\ channel'[Len(channel) + 1] = id
    BY <1>1
  <1>3. {channel'[i] : i \in 1 .. Len(channel')}
          = {channel[i] : i \in 1 .. Len(channel)} \cup {id}
    BY <1>2
  <1> QED BY <1>3 DEF Queued, Sentinels, SIGNAL_OP_ID, PLATFORM_TASK_OP_ID

(* Receiving one takes its id out, and an id is queued once.               *)
LEMMA QueuedTail ==
    ASSUME OpsTypeOK, SentOnce, channel # << >>, channel' = Tail(channel)
    PROVE  /\ Head(channel) \in 0 .. OpIdMax
           /\ Queued' = Queued \ {Head(channel)}
           /\ Head(channel) \notin Sentinels => Head(channel) \in Queued
  <1> DEFINE h == Head(channel)
             n == Len(channel)
  <1>1. channel \in Seq(0 .. OpIdMax)
    BY DEF OpsTypeOK
  <1>2. /\ n \in Nat
        /\ n >= 1
        /\ h = channel[1]
        /\ Len(channel') = n - 1
        /\ \A i \in 1 .. (n - 1) : channel'[i] = channel[i + 1]
        /\ h \in 0 .. OpIdMax
    BY <1>1
  <1>3. {channel[i] : i \in 1 .. n}
          = {h} \cup {channel'[i] : i \in 1 .. Len(channel')}
    <2>1. ASSUME NEW i \in 1 .. n
          PROVE  channel[i] \in {h} \cup {channel'[j] : j \in 1 .. Len(channel')}
      <3>1. CASE i = 1
        BY <3>1, <1>2
      <3>2. CASE i # 1
        <4>1. i - 1 \in 1 .. (n - 1) /\ channel'[i - 1] = channel[i]
          BY <3>2, <1>2
        <4> QED BY <4>1, <1>2
      <3> QED BY <3>1, <3>2
    <2>2. ASSUME NEW j \in 1 .. Len(channel')
          PROVE  channel'[j] \in {channel[i] : i \in 1 .. n}
      <3>1. j + 1 \in 1 .. n /\ channel'[j] = channel[j + 1]
        BY <1>2
      <3> QED BY <3>1
    <2>3. h \in {channel[i] : i \in 1 .. n}
      BY <1>2
    <2> QED BY <2>1, <2>2, <2>3
  <1>4. h \in Sentinels \/ h \notin {channel'[i] : i \in 1 .. Len(channel')}
    <2>1. SUFFICES ASSUME h \notin Sentinels,
                          NEW j \in 1 .. Len(channel'), channel'[j] = h
                   PROVE  FALSE
      OBVIOUS
    <2>2. j + 1 \in 1 .. n /\ 1 \in 1 .. n /\ channel[j + 1] = channel[1]
      BY <1>2, <2>1
    <2> QED BY <2>2, <2>1, <1>2 DEF SentOnce
  <1> QED BY <1>2, <1>3, <1>4 DEF Queued

(* The rest of a channel without repeated ops has none.                    *)
LEMMA TailDistinct ==
    ASSUME OpsTypeOK, SentOnce, channel # << >>, channel' = Tail(channel)
    PROVE  \A i, j \in 1 .. Len(channel') :
              channel'[i] = channel'[j] /\ i # j => channel'[i] \in Sentinels
  <1> SUFFICES ASSUME NEW i \in 1 .. Len(channel'), NEW j \in 1 .. Len(channel'),
                      channel'[i] = channel'[j], i # j
               PROVE  channel'[i] \in Sentinels
    OBVIOUS
  <1>1. /\ i + 1 \in 1 .. Len(channel)
        /\ j + 1 \in 1 .. Len(channel)
        /\ i + 1 # j + 1
        /\ channel'[i] = channel[i + 1]
        /\ channel'[j] = channel[j + 1]
    BY DEF OpsTypeOK
  <1> QED BY <1>1 DEF SentOnce

(* The live ops are finitely many, so the counter has a number to match.   *)
LEMMA LiveFinite ==
    ASSUME OpsTypeOK
    PROVE  Live \subseteq OpId /\ IsFiniteSet(Live)
  <1>1. channel \in Seq(0 .. OpIdMax) /\ op_running \subseteq OpId
    BY DEF OpsTypeOK
  <1>2. \A i \in 1 .. Len(channel) : channel[i] \in 0 .. OpIdMax
    BY <1>1
  <1>3. Live \subseteq OpId
    <2>1. ASSUME NEW q \in Queued PROVE q \in OpId
      <3>1. q \in 0 .. OpIdMax
        BY <1>2 DEF Queued
      <3>2. q # 0 /\ q # OpIdMax
        BY DEF Queued, Sentinels, SIGNAL_OP_ID, PLATFORM_TASK_OP_ID
      <3> QED BY <3>1, <3>2 DEF OpId
    <2> QED BY <2>1, <1>1 DEF Live
  <1>4. IsFiniteSet(OpId)
    BY FS_Interval DEF OpId
  <1> QED BY <1>3, <1>4, FS_Subset

-----------------------------------------------------------------------------
(* The initial state: nothing is live, filed or counted.                   *)
LEMMA InitInv == OpsInit => IInv
  <1> SUFFICES ASSUME OpsInit PROVE IInv
    OBVIOUS
  <1> USE DEF OpsInit, EmptyMap
  <1>1. OpsTypeOK
    BY DEF OpsTypeOK
  <1>2. Queued = {} /\ Live = {}
    BY DEF Queued, Live
  <1>3. SentOnce /\ IdsBelowNext /\ ParkedIsLive
    BY <1>2 DEF SentOnce, IdsBelowNext, ParkedIsLive
  <1>4. InflightExact
    BY <1>2, FS_EmptySet DEF InflightExact
  <1>5. HandleIndexAgrees /\ RefAgrees /\ HandlesPruned
    BY DEF HandleIndexAgrees, RefAgrees, HandlesPruned
  <1> QED BY <1>1, <1>3, <1>4, <1>5 DEF IInv

(* What the four kinds of spawn share: the new id was in no use, and is    *)
(* live, parked and counted or unref'd after it.                           *)
LEMMA SpawnFacts ==
    ASSUME IInv, NEW referenced \in BOOLEAN, Spawn(referenced)
    PROVE  /\ op_next_id \in OpId
           /\ op_next_id \notin Live
           /\ Queued' = Queued
           /\ Live' = Live \cup {op_next_id}
           /\ SentOnce'
           /\ IdsBelowNext'
           /\ InflightExact'
           /\ ParkedIsLive'
           /\ op_next_id \in unref_ops' <=> ~referenced
           /\ \A i \in Live : i \in unref_ops' <=> i \in unref_ops
           /\ op_next_id' \in 1 .. OpIdMax
           /\ op_running' \subseteq OpId
           /\ channel' \in Seq(0 .. OpIdMax)
           /\ inflight' \in Int
           /\ unref_ops' \subseteq OpId
           /\ parked' \subseteq OpId
  <1> USE DEF Spawn
  <1>1. /\ op_next_id \in OpId
        /\ op_next_id' \in 1 .. OpIdMax
        /\ op_next_id' = op_next_id + 1
        /\ op_next_id \in Int
    BY DEF IInv, OpsTypeOK, OpId
  <1>2. Live \subseteq OpId /\ IsFiniteSet(Live)
    BY LiveFinite DEF IInv
  <1>3. op_next_id \notin Live /\ op_next_id \notin unref_ops
    BY <1>1, <1>2 DEF IInv, IdsBelowNext, InflightExact, OpId
  <1>4. Queued' = Queued /\ Live' = Live \cup {op_next_id}
    BY DEF Queued, Live
  <1>5. SentOnce' /\ IdsBelowNext' /\ ParkedIsLive'
    <2>1. IdsBelowNext'
      BY <1>1, <1>2, <1>4 DEF IInv, IdsBelowNext, OpId
    <2>2. ParkedIsLive'
      BY <1>4 DEF IInv, ParkedIsLive
    <2>3. SentOnce'
      <3>1. op_running' \cap Queued' = {}
        BY <1>3, <1>4 DEF IInv, SentOnce, Live
      <3> QED BY <3>1 DEF IInv, SentOnce
    <2> QED BY <2>1, <2>2, <2>3
  <1>6. InflightExact'
    <2>1. IsFiniteSet(Live \ unref_ops) /\ unref_ops \subseteq Live
            /\ inflight = Cardinality(Live \ unref_ops)
      BY <1>2, FS_Subset DEF IInv, InflightExact
    <2>2. CASE referenced
      <3>1. Live' \ unref_ops' = (Live \ unref_ops) \cup {op_next_id}
        BY <2>2, <1>3, <1>4
      <3>2. Cardinality(Live' \ unref_ops') = Cardinality(Live \ unref_ops) + 1
        BY <3>1, <2>1, <1>3, FS_AddElement
      <3> QED BY <3>2, <2>1, <2>2, <1>4 DEF InflightExact
    <2>3. CASE ~referenced
      <3>1. Live' \ unref_ops' = Live \ unref_ops
        BY <2>3, <1>3, <1>4
      <3> QED BY <3>1, <2>1, <2>3, <1>4 DEF InflightExact
    <2> QED BY <2>2, <2>3
  <1>7. /\ op_next_id \in unref_ops' <=> ~referenced
        /\ \A i \in Live : i \in unref_ops' <=> i \in unref_ops
    BY <1>3
  <1>8. /\ op_running' \subseteq OpId
        /\ channel' \in Seq(0 .. OpIdMax)
        /\ inflight' \in Int
        /\ unref_ops' \subseteq OpId
        /\ parked' \subseteq OpId
    BY <1>1 DEF IInv, OpsTypeOK
  <1> QED BY <1>1, <1>3, <1>4, <1>5, <1>6, <1>7, <1>8

-----------------------------------------------------------------------------
(* One lemma per operation.                                                *)

LEMMA SpawnPlainInv ==
    ASSUME IInv, NEW referenced \in BOOLEAN, Spawn(referenced),
           UNCHANGED <<handles, op_handles>>
    PROVE  IInv'
  <1>1. OpsTypeOK'
    BY SpawnFacts DEF IInv, OpsTypeOK
  <1>2. HandleIndexAgrees'
    BY SpawnFacts DEF IInv, HandleIndexAgrees
  <1>3. RefAgrees'
    BY SpawnFacts DEF IInv, HandleIndexAgrees, RefAgrees
  <1>4. HandlesPruned'
    BY DEF IInv, HandlesPruned
  <1> QED BY <1>1, <1>2, <1>3, <1>4, SpawnFacts DEF IInv

LEMMA EntryType ==
    ASSUME IInv, NEW key \in HandleKey
    PROVE  /\ HandleEntry(key) \in HandleRef
           /\ \A i \in HandleEntry(key).ops :
                 key \in DOMAIN handles /\ i \in handles[key].ops
  BY DEF IInv, OpsTypeOK, HandleEntry, NewHandle, HandleRef

LEMMA SpawnHandleInv ==
    ASSUME IInv, NEW key \in HandleKey, SpawnHandleOp(key)
    PROVE  IInv'
  <1> DEFINE h == HandleEntry(key)
             h2 == [h EXCEPT !.ops = @ \cup {op_next_id}]
  <1>1. h \in HandleRef /\ h.referenced \in BOOLEAN
    BY EntryType DEF HandleRef
  <1>2. Spawn(h.referenced)
    BY DEF SpawnHandleOp
  <1>3. /\ op_next_id \in OpId
        /\ op_next_id \notin Live
        /\ Live' = Live \cup {op_next_id}
        /\ op_next_id \in unref_ops' <=> ~h.referenced
        /\ \A i \in Live : i \in unref_ops' <=> i \in unref_ops
    BY <1>1, <1>2, SpawnFacts
  <1>4. /\ h2 \in HandleRef
        /\ h2.referenced = h.referenced
        /\ h2.ops = h.ops \cup {op_next_id}
    BY <1>1, <1>3 DEF HandleRef
  <1>5. /\ DOMAIN handles' = DOMAIN handles \cup {key}
        /\ handles'[key] = h2
        /\ \A k \in DOMAIN handles : k # key => handles'[k] = handles[k]
    BY DEF SpawnHandleOp, Put
  <1>6. /\ DOMAIN op_handles' = DOMAIN op_handles \cup {op_next_id}
        /\ op_handles'[op_next_id] = key
        /\ \A i \in DOMAIN op_handles :
              i # op_next_id => op_handles'[i] = op_handles[i]
    BY DEF SpawnHandleOp, Put
  <1>7. OpsTypeOK'
    <2>1. \A k \in DOMAIN handles' : k \in HandleKey /\ handles'[k] \in HandleRef
      BY <1>4, <1>5 DEF IInv, OpsTypeOK
    <2>2. \A i \in DOMAIN op_handles' : i \in OpId /\ op_handles'[i] \in HandleKey
      BY <1>3, <1>6 DEF IInv, OpsTypeOK
    <2> QED BY <2>1, <2>2, <1>1, <1>2, SpawnFacts DEF OpsTypeOK
  <1>8. h.ops \subseteq Live
    BY EntryType DEF IInv, HandleIndexAgrees
  <1>9. HandleIndexAgrees'
    <2>0. op_next_id \notin DOMAIN op_handles
      BY <1>3 DEF IInv, HandleIndexAgrees
    <2>1. DOMAIN op_handles' \subseteq Live'
      BY <1>3, <1>6 DEF IInv, HandleIndexAgrees
    <2>2. ASSUME NEW i \in DOMAIN op_handles'
          PROVE  /\ op_handles'[i] \in DOMAIN handles'
                 /\ i \in handles'[op_handles'[i]].ops
      <3>1. CASE i = op_next_id
        BY <3>1, <1>4, <1>5, <1>6
      <3>2. CASE i # op_next_id
        <4>1. /\ i \in DOMAIN op_handles
              /\ op_handles'[i] = op_handles[i]
              /\ op_handles[i] \in DOMAIN handles
              /\ i \in handles[op_handles[i]].ops
          BY <3>2, <1>6 DEF IInv, HandleIndexAgrees
        <4>2. CASE op_handles[i] = key
          <5>1. h = handles[key]
            BY <4>1, <4>2 DEF HandleEntry
          <5> QED BY <5>1, <4>1, <4>2, <1>4, <1>5
        <4>3. CASE op_handles[i] # key
          BY <4>1, <4>3, <1>5
        <4> QED BY <4>2, <4>3
      <3> QED BY <3>1, <3>2
    <2>3. ASSUME NEW k \in DOMAIN handles', NEW i \in handles'[k].ops
          PROVE  i \in DOMAIN op_handles' /\ op_handles'[i] = k
      <3>1. CASE k = key /\ i = op_next_id
        BY <3>1, <1>6
      <3>2. CASE k = key /\ i # op_next_id
        <4>1. i \in h.ops
          BY <3>2, <1>4, <1>5
        <4>2. key \in DOMAIN handles /\ i \in handles[key].ops
          BY <4>1, EntryType
        <4> QED BY <4>2, <3>2, <1>6 DEF IInv, HandleIndexAgrees
      <3>3. CASE k # key
        <4>1. i \in DOMAIN op_handles /\ op_handles[i] = k
          BY <3>3, <1>5 DEF IInv, HandleIndexAgrees
        <4> QED BY <4>1, <2>0, <1>6
      <3> QED BY <3>1, <3>2, <3>3
    <2> QED BY <2>1, <2>2, <2>3 DEF HandleIndexAgrees
  <1>10. RefAgrees'
    <2> SUFFICES ASSUME NEW k \in DOMAIN handles', NEW i \in handles'[k].ops
                 PROVE  i \in unref_ops' <=> ~handles'[k].referenced
      BY DEF RefAgrees
    <2>1. CASE k = key /\ i = op_next_id
      BY <2>1, <1>3, <1>4, <1>5
    <2>2. CASE k = key /\ i # op_next_id
      <3>1. i \in h.ops /\ i \in Live
        BY <2>2, <1>4, <1>5, <1>8
      <3>2. key \in DOMAIN handles /\ i \in handles[key].ops /\ h = handles[key]
        BY <3>1, EntryType DEF HandleEntry
      <3> QED BY <3>1, <3>2, <2>2, <1>3, <1>4, <1>5 DEF IInv, RefAgrees
    <2>3. CASE k # key
      <3>1. k \in DOMAIN handles /\ i \in handles[k].ops
        BY <2>3, <1>5
      <3>2. i \in Live
        BY <3>1 DEF IInv, HandleIndexAgrees
      <3> QED BY <3>1, <3>2, <2>3, <1>3, <1>5 DEF IInv, RefAgrees
    <2> QED BY <2>1, <2>2, <2>3
  <1>11. HandlesPruned'
    BY <1>4, <1>5 DEF IInv, HandlesPruned
  <1> QED BY <1>7, <1>9, <1>10, <1>11, <1>1, <1>2, SpawnFacts DEF IInv

(* ref() and unref() move as many ops into or out of the count as change   *)
(* sides, because every op of the handle is live.                          *)
LEMMA SetHandleRefCount ==
    ASSUME IInv, NEW key \in HandleKey, NEW referenced \in BOOLEAN,
           SetHandleRef(key, referenced)
    PROVE  InflightExact'
  <1> DEFINE ops == HandleEntry(key).ops
             h == [HandleEntry(key) EXCEPT !.referenced = referenced]
  <1>1. HandleEntry(key) \in HandleRef /\ h.ops = ops
    BY EntryType DEF HandleRef
  <1>2. ops \subseteq Live
    BY EntryType DEF IInv, HandleIndexAgrees
  <1>3. Live \subseteq OpId /\ IsFiniteSet(Live)
    BY LiveFinite DEF IInv
  <1>4. Live' = Live
    BY DEF SetHandleRef, Live, Queued
  <1>5. unref_ops \subseteq Live /\ inflight = Cardinality(Live \ unref_ops)
    BY DEF IInv, InflightExact
  <1>6. /\ IsFiniteSet(Live \ unref_ops)
        /\ IsFiniteSet(ops \cap unref_ops)
        /\ IsFiniteSet(ops \ unref_ops)
    BY <1>2, <1>3, FS_Subset
  <1>7. CASE referenced
    <2>1. /\ unref_ops' = unref_ops \ ops
          /\ inflight' = inflight + Cardinality(ops \cap unref_ops)
      BY <1>1, <1>7 DEF SetHandleRef, RefChange
    <2>2. Live \ unref_ops' = (Live \ unref_ops) \cup (ops \cap unref_ops)
      BY <2>1, <1>2
    <2>3. (Live \ unref_ops) \cap (ops \cap unref_ops) = {}
      OBVIOUS
    <2>4. Cardinality(Live \ unref_ops')
            = Cardinality(Live \ unref_ops) + Cardinality(ops \cap unref_ops) - 0
      BY <2>2, <2>3, <1>6, FS_Union, FS_EmptySet
    <2>5. Cardinality(Live \ unref_ops) \in Nat /\ Cardinality(ops \cap unref_ops) \in Nat
      BY <1>6, FS_CardinalityType
    <2> QED BY <2>1, <2>4, <2>5, <1>4, <1>5 DEF InflightExact
  <1>8. CASE ~referenced
    <2>1. /\ unref_ops' = unref_ops \cup ops
          /\ inflight' = inflight + (-Cardinality(ops \ unref_ops))
      BY <1>1, <1>8 DEF SetHandleRef, RefChange
    <2>2. Live \ unref_ops' = (Live \ unref_ops) \ (ops \ unref_ops)
      BY <2>1
    <2>3. (Live \ unref_ops) \cap (ops \ unref_ops) = ops \ unref_ops
      BY <1>2
    <2>4. Cardinality(Live \ unref_ops')
            = Cardinality(Live \ unref_ops) - Cardinality(ops \ unref_ops)
      <3>1. Cardinality((Live \ unref_ops) \ (ops \ unref_ops))
              = Cardinality(Live \ unref_ops)
                  - Cardinality((Live \ unref_ops) \cap (ops \ unref_ops))
        BY <1>6, FS_Difference
      <3> QED BY <3>1, <2>2, <2>3
    <2>5. Cardinality(Live \ unref_ops) \in Nat /\ Cardinality(ops \ unref_ops) \in Nat
      BY <1>6, FS_CardinalityType
    <2> QED BY <2>1, <2>4, <2>5, <1>2, <1>4, <1>5 DEF InflightExact
  <1> QED BY <1>7, <1>8

LEMMA SetHandleRefInv ==
    ASSUME IInv, NEW key \in HandleKey, NEW referenced \in BOOLEAN,
           SetHandleRef(key, referenced)
    PROVE  IInv'
  <1> DEFINE h == [HandleEntry(key) EXCEPT !.referenced = referenced]
  <1>1. /\ h \in HandleRef
        /\ h.ops = HandleEntry(key).ops
        /\ h.referenced = referenced
        /\ h.ops \subseteq OpId
    BY EntryType DEF HandleRef
  <1>2. /\ UNCHANGED <<op_next_id, op_running, channel, op_handles, parked>>
        /\ handles' = Pruned(key, h)
        /\ unref_ops' = IF referenced THEN unref_ops \ h.ops
                                      ELSE unref_ops \cup h.ops
    BY DEF SetHandleRef
  <1>3. Live' = Live /\ Queued' = Queued
    BY <1>2 DEF Live, Queued
  <1>4. InflightExact'
    BY SetHandleRefCount
  <1>5. ASSUME NEW k \in DOMAIN handles'
        PROVE  /\ k \in HandleKey
               /\ handles'[k] = IF k = key THEN h ELSE handles[k]
               /\ k # key => k \in DOMAIN handles
    BY <1>2 DEF Pruned, Put, Drop, IInv, OpsTypeOK
  <1>6. ASSUME NEW k \in DOMAIN handles, handles[k].ops # {}
        PROVE  k \in DOMAIN handles'
    <2>1. k = key => h.ops # {}
      BY <1>1, <1>6 DEF HandleEntry
    <2> QED BY <2>1, <1>2 DEF Pruned, Put, Drop
  <1>7. OpsTypeOK'
    <2>1. inflight' \in Int
      <3>1. IsFiniteSet(Live' \ unref_ops')
        BY LiveFinite, <1>3, FS_Subset DEF IInv
      <3> QED BY <3>1, <1>4, FS_CardinalityType DEF InflightExact
    <2>2. \A k \in DOMAIN handles' : k \in HandleKey /\ handles'[k] \in HandleRef
      BY <1>1, <1>5 DEF IInv, OpsTypeOK
    <2>3. unref_ops' \subseteq OpId
      BY <1>1, <1>2 DEF IInv, OpsTypeOK
    <2> QED BY <2>1, <2>2, <2>3, <1>2 DEF IInv, OpsTypeOK
  <1>8. HandleIndexAgrees'
    <2>1. ASSUME NEW i \in DOMAIN op_handles'
          PROVE  /\ op_handles'[i] \in DOMAIN handles'
                 /\ i \in handles'[op_handles'[i]].ops
      <3>1. /\ i \in DOMAIN op_handles
            /\ op_handles'[i] = op_handles[i]
            /\ op_handles[i] \in DOMAIN handles
            /\ i \in handles[op_handles[i]].ops
        BY <1>2 DEF IInv, HandleIndexAgrees
      <3>2. op_handles[i] \in DOMAIN handles'
        BY <3>1, <1>6
      <3>3. op_handles[i] = key => i \in h.ops
        BY <3>1, <1>1 DEF HandleEntry
      <3> QED BY <3>1, <3>2, <3>3, <1>5
    <2>2. ASSUME NEW k \in DOMAIN handles', NEW i \in handles'[k].ops
          PROVE  i \in DOMAIN op_handles' /\ op_handles'[i] = k
      <3>1. k \in DOMAIN handles /\ i \in handles[k].ops
        BY <1>1, <1>5, EntryType
      <3> QED BY <3>1, <1>2 DEF IInv, HandleIndexAgrees
    <2>3. DOMAIN op_handles' \subseteq Live'
      BY <1>2, <1>3 DEF IInv, HandleIndexAgrees
    <2> QED BY <2>1, <2>2, <2>3 DEF HandleIndexAgrees
  <1>9. RefAgrees'
    <2> SUFFICES ASSUME NEW k \in DOMAIN handles', NEW i \in handles'[k].ops
                 PROVE  i \in unref_ops' <=> ~handles'[k].referenced
      BY DEF RefAgrees
    <2>1. CASE k = key
      BY <2>1, <1>1, <1>2, <1>5
    <2>2. CASE k # key
      <3>1. k \in DOMAIN handles /\ i \in handles[k].ops
        BY <2>2, <1>5
      <3>2. i \notin h.ops
        <4>1. SUFFICES ASSUME i \in h.ops PROVE FALSE
          OBVIOUS
        <4>2. key \in DOMAIN handles /\ i \in handles[key].ops
          BY <4>1, <1>1, EntryType
        <4> QED BY <4>2, <3>1, <2>2 DEF IInv, HandleIndexAgrees
      <3> QED BY <3>1, <3>2, <2>2, <1>2, <1>5 DEF IInv, RefAgrees
    <2> QED BY <2>1, <2>2
  <1>10. HandlesPruned'
    <2> SUFFICES ASSUME NEW k \in DOMAIN handles'
                 PROVE  handles'[k].ops # {} \/ ~handles'[k].referenced
      BY DEF HandlesPruned
    <2>1. CASE k = key
      BY <2>1, <1>2, <1>5 DEF Pruned, Put, Drop
    <2>2. CASE k # key
      BY <2>2, <1>5 DEF IInv, HandlesPruned
    <2> QED BY <2>1, <2>2
  <1>11. SentOnce' /\ IdsBelowNext' /\ ParkedIsLive'
    BY <1>2, <1>3 DEF IInv, SentOnce, IdsBelowNext, ParkedIsLive
  <1> QED BY <1>4, <1>7, <1>8, <1>9, <1>10, <1>11 DEF IInv

LEMMA ForgetHandleInv ==
    ASSUME IInv, NEW key \in HandleKey, ForgetHandle(key)
    PROVE  IInv'
  <1>1. /\ UNCHANGED <<op_next_id, op_running, channel, inflight, unref_ops, parked>>
        /\ key \in DOMAIN handles
        /\ DOMAIN handles' = DOMAIN handles \ {key}
        /\ \A k \in DOMAIN handles' : handles'[k] = handles[k]
        /\ DOMAIN op_handles' = DOMAIN op_handles \ handles[key].ops
        /\ \A i \in DOMAIN op_handles' : op_handles'[i] = op_handles[i]
    BY DEF ForgetHandle, Drop
  <1>2. Live' = Live /\ Queued' = Queued
    BY <1>1 DEF Live, Queued
  <1>3. OpsTypeOK' /\ SentOnce' /\ IdsBelowNext' /\ ParkedIsLive' /\ InflightExact'
    BY <1>1, <1>2
       DEF IInv, OpsTypeOK, SentOnce, IdsBelowNext, ParkedIsLive, InflightExact
  <1>4. HandleIndexAgrees'
    <2>1. DOMAIN op_handles' \subseteq Live'
      BY <1>1, <1>2 DEF IInv, HandleIndexAgrees
    <2>2. ASSUME NEW i \in DOMAIN op_handles'
          PROVE  /\ op_handles'[i] \in DOMAIN handles'
                 /\ i \in handles'[op_handles'[i]].ops
      <3>1. /\ op_handles'[i] = op_handles[i]
            /\ op_handles[i] \in DOMAIN handles
            /\ i \in handles[op_handles[i]].ops
            /\ i \notin handles[key].ops
        BY <1>1 DEF IInv, HandleIndexAgrees
      <3> QED BY <3>1, <1>1
    <2>3. ASSUME NEW k \in DOMAIN handles', NEW i \in handles'[k].ops
          PROVE  i \in DOMAIN op_handles' /\ op_handles'[i] = k
      <3>1. i \in DOMAIN op_handles /\ op_handles[i] = k /\ k # key
        BY <1>1 DEF IInv, HandleIndexAgrees
      <3>2. i \notin handles[key].ops
        BY <3>1, <1>1 DEF IInv, HandleIndexAgrees
      <3> QED BY <3>1, <3>2, <1>1
    <2> QED BY <2>1, <2>2, <2>3 DEF HandleIndexAgrees
  <1>5. RefAgrees' /\ HandlesPruned'
    BY <1>1 DEF IInv, RefAgrees, HandlesPruned
  <1> QED BY <1>3, <1>4, <1>5 DEF IInv

(* What a completion's send does not touch.                                *)
LEMMA CompleteInv ==
    ASSUME IInv, NEW id \in op_running, Complete(id)
    PROVE  IInv'
  <1> USE DEF Complete
  <1>1. id \in OpId /\ id \in 0 .. OpIdMax /\ id \notin Sentinels
    BY DEF IInv, OpsTypeOK, OpId, Sentinels, SIGNAL_OP_ID, PLATFORM_TASK_OP_ID
  <1>2. Queued' = Queued \cup {id}
    BY <1>1, QueuedAppend DEF IInv
  <1>3. Live' = Live
    BY <1>2 DEF Live
  <1>4. OpsTypeOK'
    BY <1>1 DEF IInv, OpsTypeOK
  <1>5. SentOnce'
    <2>1. op_running' \cap Queued' = {}
      BY <1>2 DEF IInv, SentOnce
    <2>2. /\ channel \in Seq(0 .. OpIdMax)
          /\ Len(channel') = Len(channel) + 1
          /\ Len(channel) \in Nat
          /\ \A i \in 1 .. Len(channel) : channel'[i] = channel[i]
          /\ channel'[Len(channel) + 1] = id
      BY <1>1 DEF IInv, OpsTypeOK
    <2>3. \A i \in 1 .. Len(channel) : channel[i] # id
      BY <1>1 DEF IInv, SentOnce, Queued
    <2>4. ASSUME NEW i \in 1 .. Len(channel'), NEW j \in 1 .. Len(channel'),
                 channel'[i] = channel'[j], i # j
          PROVE  channel'[i] \in Sentinels
      <3>1. /\ i \in 1 .. Len(channel) \/ i = Len(channel) + 1
            /\ j \in 1 .. Len(channel) \/ j = Len(channel) + 1
        BY <2>2
      <3> QED BY <3>1, <2>2, <2>3, <2>4 DEF IInv, SentOnce
    <2> QED BY <2>1, <2>4 DEF SentOnce
  <1>6. IdsBelowNext' /\ ParkedIsLive' /\ InflightExact'
    BY <1>3 DEF IInv, IdsBelowNext, ParkedIsLive, InflightExact
  <1>7. HandleIndexAgrees' /\ RefAgrees' /\ HandlesPruned'
    BY <1>3 DEF IInv, HandleIndexAgrees, RefAgrees, HandlesPruned
  <1> QED BY <1>4, <1>5, <1>6, <1>7 DEF IInv

LEMMA SentinelInv ==
    ASSUME IInv, NEW id \in Sentinels, channel' = Append(channel, id),
           UNCHANGED <<op_next_id, op_running, inflight, unref_ops, handles, op_handles, parked>>
    PROVE  IInv'
  <1>1. id \in 0 .. OpIdMax
    BY DEF Sentinels, SIGNAL_OP_ID, PLATFORM_TASK_OP_ID
  <1>2. Queued' = Queued /\ Live' = Live
    BY <1>1, QueuedAppend DEF IInv, Live
  <1>3. OpsTypeOK'
    BY <1>1 DEF IInv, OpsTypeOK
  <1>4. SentOnce'
    <2>1. /\ channel \in Seq(0 .. OpIdMax)
          /\ Len(channel') = Len(channel) + 1
          /\ Len(channel) \in Nat
          /\ \A i \in 1 .. Len(channel) : channel'[i] = channel[i]
          /\ channel'[Len(channel) + 1] = id
      BY <1>1 DEF IInv, OpsTypeOK
    <2>2. ASSUME NEW i \in 1 .. Len(channel'), NEW j \in 1 .. Len(channel'),
                 channel'[i] = channel'[j], i # j
          PROVE  channel'[i] \in Sentinels
      <3>1. /\ i \in 1 .. Len(channel) \/ i = Len(channel) + 1
            /\ j \in 1 .. Len(channel) \/ j = Len(channel) + 1
        BY <2>1
      <3> QED BY <3>1, <2>1, <2>2 DEF IInv, SentOnce
    <2> QED BY <2>2, <1>2 DEF IInv, SentOnce
  <1>5. IdsBelowNext' /\ ParkedIsLive' /\ InflightExact'
    BY <1>2 DEF IInv, IdsBelowNext, ParkedIsLive, InflightExact
  <1>6. HandleIndexAgrees' /\ RefAgrees' /\ HandlesPruned'
    BY <1>2 DEF IInv, HandleIndexAgrees, RefAgrees, HandlesPruned
  <1> QED BY <1>3, <1>4, <1>5, <1>6 DEF IInv

(* Receiving a signal or a wake changes nothing but the channel.           *)
LEMMA SettleSentinelInv ==
    ASSUME IInv, Settle, Head(channel) \in Sentinels
    PROVE  IInv'
  <1>1. /\ channel # << >>
        /\ channel' = Tail(channel)
        /\ UNCHANGED <<op_next_id, op_running, inflight, unref_ops, handles, op_handles>>
        /\ parked' = parked \ {Head(channel)}
    BY DEF Settle, NoteSettled
  <1>2. Queued' = Queued /\ Live' = Live
    BY <1>1, QueuedTail DEF IInv, Live, Queued
  <1>3. parked' = parked
    BY <1>1, LiveFinite
       DEF IInv, ParkedIsLive, OpId, Sentinels, SIGNAL_OP_ID, PLATFORM_TASK_OP_ID
  <1>4. OpsTypeOK'
    BY <1>1, <1>3 DEF IInv, OpsTypeOK
  <1>5. SentOnce'
    BY <1>1, <1>2, TailDistinct DEF IInv, SentOnce
  <1>6. IdsBelowNext' /\ ParkedIsLive' /\ InflightExact'
    BY <1>1, <1>2, <1>3 DEF IInv, IdsBelowNext, ParkedIsLive, InflightExact
  <1>7. HandleIndexAgrees' /\ RefAgrees' /\ HandlesPruned'
    BY <1>1, <1>2 DEF IInv, HandleIndexAgrees, RefAgrees, HandlesPruned
  <1> QED BY <1>4, <1>5, <1>6, <1>7 DEF IInv

(* Settling an op takes it out of everything at once.                      *)
LEMMA SettleOpInv ==
    ASSUME IInv, Settle, Head(channel) \notin Sentinels
    PROVE  IInv'
  <1> DEFINE id == Head(channel)
  <1>1. /\ channel # << >>
        /\ channel' = Tail(channel)
        /\ UNCHANGED <<op_next_id, op_running>>
        /\ Unfile(id)
        /\ inflight' = IF id \in unref_ops THEN inflight ELSE inflight - 1
        /\ unref_ops' = unref_ops \ {id}
        /\ parked' = parked \ {id}
    BY DEF Settle, NoteSettled
  <1>2. id \in Queued /\ Queued' = Queued \ {id}
    BY <1>1, QueuedTail DEF IInv
  <1>3. id \notin op_running /\ id \in Live /\ Live' = Live \ {id}
    BY <1>1, <1>2 DEF IInv, SentOnce, Live
  <1>4. DOMAIN op_handles' = DOMAIN op_handles \ {id}
    BY <1>1 DEF Unfile, Drop
  <1>5. \A i \in DOMAIN op_handles' : op_handles'[i] = op_handles[i]
    BY <1>1 DEF Unfile, Drop
  <1>6. ASSUME NEW k \in DOMAIN handles'
        PROVE  /\ k \in DOMAIN handles
               /\ handles'[k] \in HandleRef
               /\ handles'[k].ops = handles[k].ops \ {id}
               /\ handles'[k].referenced = handles[k].referenced
               /\ handles'[k].ops # {} \/ ~handles'[k].referenced
    <2>1. CASE id \in DOMAIN op_handles
      <3> DEFINE key == op_handles[id]
                 h == [handles[key] EXCEPT !.ops = @ \ {id}]
      <3>1. key \in DOMAIN handles /\ handles[key] \in HandleRef
        BY <2>1 DEF IInv, HandleIndexAgrees, OpsTypeOK
      <3>2. handles' = Pruned(key, h)
        BY <1>1, <2>1, <3>1 DEF Unfile
      <3>3. /\ h \in HandleRef
            /\ h.ops = handles[key].ops \ {id}
            /\ h.referenced = handles[key].referenced
        BY <3>1 DEF HandleRef
      <3>4. k \in DOMAIN handles /\ handles[k] \in HandleRef
        BY <3>1, <3>2 DEF Pruned, Put, Drop, IInv, OpsTypeOK
      <3>5. CASE k = key
        <4>1. handles'[k] = h /\ ~(h.referenced /\ h.ops = {})
          BY <3>2, <3>5 DEF Pruned, Put, Drop
        <4> QED BY <4>1, <3>3, <3>4, <3>5
      <3>6. CASE k # key
        <4>1. handles'[k] = handles[k]
          BY <3>2, <3>6 DEF Pruned, Put, Drop
        <4>2. id \notin handles[k].ops
          BY <2>1, <3>4, <3>6 DEF IInv, HandleIndexAgrees
        <4> QED BY <4>1, <4>2, <3>4 DEF IInv, HandlesPruned
      <3> QED BY <3>5, <3>6
    <2>2. CASE id \notin DOMAIN op_handles
      <3>1. handles' = handles
        BY <1>1, <2>2 DEF Unfile
      <3>2. id \notin handles[k].ops
        BY <2>2, <3>1 DEF IInv, HandleIndexAgrees
      <3> QED BY <3>1, <3>2 DEF IInv, HandlesPruned, OpsTypeOK
    <2> QED BY <2>1, <2>2
  <1>7. ASSUME NEW k \in DOMAIN handles, NEW i \in handles[k].ops, i # id
        PROVE  k \in DOMAIN handles'
    <2>1. CASE id \in DOMAIN op_handles
      <3> DEFINE key == op_handles[id]
                 h == [handles[key] EXCEPT !.ops = @ \ {id}]
      <3>1. key \in DOMAIN handles /\ handles[key] \in HandleRef
        BY <2>1 DEF IInv, HandleIndexAgrees, OpsTypeOK
      <3>2. handles' = Pruned(key, h)
        BY <1>1, <2>1, <3>1 DEF Unfile
      <3>3. h.ops = handles[key].ops \ {id}
        BY <3>1 DEF HandleRef
      <3>4. k = key => h.ops # {}
        BY <1>7, <3>3
      <3> QED BY <3>2, <3>4 DEF Pruned, Put, Drop
    <2>2. CASE id \notin DOMAIN op_handles
      BY <1>1, <2>2 DEF Unfile
    <2> QED BY <2>1, <2>2
  <1>8. OpsTypeOK'
    <2>1. channel' \in Seq(0 .. OpIdMax)
      BY <1>1 DEF IInv, OpsTypeOK
    <2>2. inflight' \in Int
      BY <1>1 DEF IInv, OpsTypeOK
    <2>3. \A k \in DOMAIN handles' : k \in HandleKey /\ handles'[k] \in HandleRef
      BY <1>6 DEF IInv, OpsTypeOK
    <2> QED BY <2>1, <2>2, <2>3, <1>1, <1>4, <1>5 DEF IInv, OpsTypeOK
  <1>9. SentOnce'
    BY <1>1, <1>2, TailDistinct DEF IInv, SentOnce
  <1>10. IdsBelowNext' /\ ParkedIsLive'
    BY <1>1, <1>3 DEF IInv, IdsBelowNext, ParkedIsLive
  <1>11. InflightExact'
    <2>1. /\ IsFiniteSet(Live \ unref_ops)
          /\ unref_ops \subseteq Live
          /\ inflight = Cardinality(Live \ unref_ops)
      BY LiveFinite, FS_Subset DEF IInv, InflightExact
    <2>2. CASE id \in unref_ops
      <3>1. Live' \ unref_ops' = Live \ unref_ops
        BY <2>2, <1>1, <1>3
      <3> QED BY <3>1, <2>1, <2>2, <1>1, <1>3 DEF InflightExact
    <2>3. CASE id \notin unref_ops
      <3>1. Live' \ unref_ops' = (Live \ unref_ops) \ {id}
        BY <2>3, <1>1, <1>3
      <3>2. Cardinality(Live' \ unref_ops') = Cardinality(Live \ unref_ops) - 1
        BY <3>1, <2>1, <2>3, <1>3, FS_RemoveElement
      <3> QED BY <3>2, <2>1, <2>3, <1>1, <1>3 DEF InflightExact
    <2> QED BY <2>2, <2>3
  <1>12. HandleIndexAgrees'
    <2>1. DOMAIN op_handles' \subseteq Live'
      BY <1>3, <1>4 DEF IInv, HandleIndexAgrees
    <2>2. ASSUME NEW i \in DOMAIN op_handles'
          PROVE  /\ op_handles'[i] \in DOMAIN handles'
                 /\ i \in handles'[op_handles'[i]].ops
      <3>1. /\ i # id
            /\ op_handles'[i] = op_handles[i]
            /\ op_handles[i] \in DOMAIN handles
            /\ i \in handles[op_handles[i]].ops
        BY <1>4, <1>5 DEF IInv, HandleIndexAgrees
      <3>2. op_handles[i] \in DOMAIN handles'
        BY <3>1, <1>7
      <3> QED BY <3>1, <3>2, <1>6
    <2>3. ASSUME NEW k \in DOMAIN handles', NEW i \in handles'[k].ops
          PROVE  i \in DOMAIN op_handles' /\ op_handles'[i] = k
      BY <1>4, <1>5, <1>6 DEF IInv, HandleIndexAgrees
    <2> QED BY <2>1, <2>2, <2>3 DEF HandleIndexAgrees
  <1>13. RefAgrees'
    BY <1>1, <1>6 DEF IInv, RefAgrees
  <1>14. HandlesPruned'
    BY <1>6 DEF HandlesPruned
  <1> QED BY <1>8, <1>9, <1>10, <1>11, <1>12, <1>13, <1>14 DEF IInv

LEMMA SettleInv == ASSUME IInv, Settle PROVE IInv'
  BY SettleSentinelInv, SettleOpInv

LEMMA StutterInv == ASSUME IInv, UNCHANGED opVars PROVE IInv'
  <1>1. Live' = Live /\ Queued' = Queued
    BY DEF opVars, Live, Queued
  <1> QED BY <1>1
       DEF opVars, IInv, OpsTypeOK, SentOnce, IdsBelowNext, InflightExact,
           HandleIndexAgrees, RefAgrees, HandlesPruned, ParkedIsLive

-----------------------------------------------------------------------------
(* The invariant is inductive.                                             *)
LEMMA NextInv == IInv /\ [OpsNext]_opVars => IInv'
  <1> SUFFICES ASSUME IInv, [OpsNext]_opVars PROVE IInv'
    OBVIOUS
  <1>1. CASE SpawnOp
    BY <1>1, SpawnPlainInv DEF SpawnOp
  <1>2. CASE SpawnOpUnref
    BY <1>2, SpawnPlainInv DEF SpawnOpUnref
  <1>3. ASSUME NEW key \in HandleKey, SpawnHandleOp(key) PROVE IInv'
    BY <1>3, SpawnHandleInv
  <1>4. ASSUME NEW key \in HandleKey, NEW referenced \in BOOLEAN,
               SetHandleRef(key, referenced)
        PROVE  IInv'
    BY <1>4, SetHandleRefInv
  <1>5. ASSUME NEW key \in HandleKey, ForgetHandle(key) PROVE IInv'
    BY <1>5, ForgetHandleInv
  <1>6. ASSUME NEW id \in op_running, Complete(id) PROVE IInv'
    BY <1>6, CompleteInv
  <1>7. ASSUME NEW id \in Sentinels, SendSentinel(id) PROVE IInv'
    BY <1>7, SentinelInv DEF SendSentinel
  <1>8. CASE Settle
    BY <1>8, SettleInv
  <1>9. CASE UNCHANGED opVars
    BY <1>9, StutterInv
  <1> QED BY <1>1, <1>2, <1>3, <1>4, <1>5, <1>6, <1>7, <1>8, <1>9 DEF OpsNext

(* CoreRuntime's variables keep their types.                               *)
THEOREM TypeCorrect == OpsSpec => []OpsTypeOK
  <1>1. IInv => OpsTypeOK
    BY DEF IInv
  <1> QED BY <1>1, InitInv, NextInv, PTL DEF OpsSpec

(* has_inflight() tells the truth: the counter is exactly the number of    *)
(* live ops that are not unref'd, for every number of handles and ops.     *)
THEOREM InflightIsExact == OpsSpec => []InflightExact
  <1>1. IInv => InflightExact
    BY DEF IInv
  <1> QED BY <1>1, InitInv, NextInv, PTL DEF OpsSpec

(* The handle map and its reverse index agree and list live ops only, an   *)
(* op counts exactly when its handle is referenced, and the map holds only *)
(* handles with ops in flight and unref'd ones.                            *)
THEOREM HandlesAgree == OpsSpec => []HandlesConsistent
  <1>1. IInv => HandlesConsistent
    BY DEF IInv, HandlesConsistent
  <1> QED BY <1>1, InitInv, NextInv, PTL DEF OpsSpec

(* The promises that wait are those of the live ops.                       *)
THEOREM NoPromiseLost == OpsSpec => []ParkedIsLive
  <1>1. IInv => ParkedIsLive
    BY DEF IInv
  <1> QED BY <1>1, InitInv, NextInv, PTL DEF OpsSpec

-----------------------------------------------------------------------------
(* The refinement of AsyncOps: one lemma per operation.                    *)

\* A step of AsyncOps, or none of what it sees changes.
PromisedSteps ==
    \/ Promised!Step
    \/ UNCHANGED <<op_next_id, parked, Counting, Filed, Unrefd, op_running, channel>>

LEMMA FiledIff ==
    \A i, k : <<i, k>> \in Filed <=> i \in DOMAIN op_handles /\ op_handles[i] = k
  BY DEF Filed

(* The ops filed under a handle are those of its entry.                    *)
LEMMA OpsOfEntry ==
    ASSUME IInv, NEW key \in HandleKey
    PROVE  Promised!OpsOf(key) = HandleEntry(key).ops
  <1>1. ASSUME NEW i \in Promised!OpsOf(key) PROVE i \in HandleEntry(key).ops
    <2>1. i \in DOMAIN op_handles /\ op_handles[i] = key
      BY <1>1, FiledIff DEF Promised!OpsOf
    <2> QED BY <2>1 DEF IInv, HandleIndexAgrees, HandleEntry
  <1>2. ASSUME NEW i \in HandleEntry(key).ops PROVE i \in Promised!OpsOf(key)
    <2>1. key \in DOMAIN handles /\ i \in handles[key].ops
      BY <1>2, EntryType
    <2>2. i \in DOMAIN op_handles /\ op_handles[i] = key /\ i \in Live
      BY <2>1 DEF IInv, HandleIndexAgrees
    <2>3. i \in parked
      BY <2>2 DEF IInv, ParkedIsLive
    <2> QED BY <2>2, <2>3, FiledIff DEF Promised!OpsOf
  <1> QED BY <1>1, <1>2

(* A handle without an entry is ref'd.                                     *)
LEMMA EntryUnrefd ==
    ASSUME IInv, NEW key \in HandleKey
    PROVE  key \notin Unrefd <=> HandleEntry(key).referenced
  BY EntryType DEF Unrefd, HandleEntry, NewHandle, HandleRef

LEMMA SpawnIssues ==
    ASSUME IInv, NEW counts \in BOOLEAN, Spawn(counts), Unrefd' = Unrefd
    PROVE  Promised!Issue((op_next_id - 1) + 1, counts)
  <1>1. op_next_id \in Int /\ (op_next_id - 1) + 1 = op_next_id /\ op_next_id' - 1 = op_next_id
    BY DEF IInv, OpsTypeOK, Spawn
  <1>2. op_next_id \notin Live /\ op_next_id \notin parked /\ op_next_id \notin unref_ops
    BY SpawnFacts DEF IInv, ParkedIsLive, InflightExact
  <1>3. /\ parked' = parked \cup {op_next_id} /\ op_running' = op_running \cup {op_next_id}
        /\ channel' = channel
        /\ unref_ops' = IF counts THEN unref_ops ELSE unref_ops \cup {op_next_id}
    BY DEF Spawn
  <1>4. Counting' = IF counts THEN Counting \cup {op_next_id} ELSE Counting
    BY <1>2, <1>3 DEF Counting
  <1> QED BY <1>1, <1>3, <1>4 DEF Promised!Issue

LEMMA SpawnPlainPromised ==
    ASSUME IInv, NEW counts \in BOOLEAN, Spawn(counts),
           UNCHANGED <<handles, op_handles>>
    PROVE  PromisedSteps
  <1>1. Unrefd' = Unrefd /\ Filed' = Filed
    BY DEF Unrefd, Filed
  <1>2. Promised!IssueAlone(counts)
    BY <1>1, SpawnIssues DEF Promised!IssueAlone
  <1> QED BY <1>2 DEF PromisedSteps, Promised!Step

LEMMA SpawnHandlePromised ==
    ASSUME IInv, NEW key \in HandleKey, SpawnHandleOp(key)
    PROVE  PromisedSteps
  <1> DEFINE h == HandleEntry(key)
             h2 == [h EXCEPT !.ops = @ \cup {op_next_id}]
  <1>1. /\ h \in HandleRef /\ h.referenced \in BOOLEAN
        /\ h2.referenced = h.referenced
    BY EntryType DEF HandleRef
  <1>2. /\ Spawn(h.referenced)
        /\ handles' = Put(handles, key, h2)
        /\ op_handles' = Put(op_handles, op_next_id, key)
    BY DEF SpawnHandleOp
  <1>3. op_next_id \notin DOMAIN op_handles
    BY <1>1, <1>2, SpawnFacts DEF IInv, HandleIndexAgrees
  <1>4. Unrefd' = Unrefd
    <2>1. ASSUME NEW k PROVE k \in Unrefd' <=> k \in Unrefd
      <3>1. CASE k = key
        BY <3>1, <1>1, <1>2 DEF Unrefd, Put, HandleEntry, NewHandle
      <3>2. CASE k # key
        BY <3>2, <1>2 DEF Unrefd, Put
      <3> QED BY <3>1, <3>2
    <2> QED BY <2>1
  <1>5. Filed' = Filed \cup {<<op_next_id, key>>}
    <2>1. /\ DOMAIN op_handles' = DOMAIN op_handles \cup {op_next_id}
          /\ op_handles'[op_next_id] = key
          /\ \A i \in DOMAIN op_handles : op_handles'[i] = op_handles[i]
      BY <1>2, <1>3 DEF Put
    <2> QED BY <2>1 DEF Filed
  <1>6. (op_next_id - 1) + 1 = op_next_id
    BY DEF IInv, OpsTypeOK
  <1>7. key \notin Unrefd <=> h.referenced
    BY EntryUnrefd
  <1>8. (key \notin Unrefd) = h.referenced
    BY <1>1, <1>7
  <1>9. Promised!IssueOn(key)
    BY <1>1, <1>2, <1>4, <1>5, <1>6, <1>8, SpawnIssues DEF Promised!IssueOn
  <1> QED BY <1>9 DEF PromisedSteps, Promised!Step

LEMMA SetHandleRefPromised ==
    ASSUME IInv, NEW key \in HandleKey, NEW referenced \in BOOLEAN,
           SetHandleRef(key, referenced)
    PROVE  PromisedSteps
  <1> DEFINE h == [HandleEntry(key) EXCEPT !.referenced = referenced]
  <1>1. h.ops = HandleEntry(key).ops /\ h.referenced = referenced
    BY EntryType DEF HandleRef
  <1>2. /\ UNCHANGED <<op_next_id, op_running, channel, op_handles, parked>>
        /\ handles' = Pruned(key, h)
        /\ unref_ops' = IF referenced THEN unref_ops \ h.ops
                                      ELSE unref_ops \cup h.ops
    BY DEF SetHandleRef
  <1>3. Promised!OpsOf(key) = h.ops /\ h.ops \subseteq parked
    <2>1. Promised!OpsOf(key) \subseteq parked
      BY DEF Promised!OpsOf
    <2> QED BY <2>1, <1>1, OpsOfEntry
  <1>4. Unrefd' = IF referenced THEN Unrefd \ {key} ELSE Unrefd \cup {key}
    <2>1. ASSUME NEW k
          PROVE  k \in Unrefd' <=> IF k = key THEN ~referenced ELSE k \in Unrefd
      <3>1. CASE k = key
        BY <3>1, <1>1, <1>2 DEF Unrefd, Pruned, Put, Drop
      <3>2. CASE k # key
        BY <3>2, <1>2 DEF Unrefd, Pruned, Put, Drop
      <3> QED BY <3>1, <3>2
    <2> QED BY <2>1
  <1>5. Filed' = Filed
    BY <1>2 DEF Filed
  <1>6. CASE referenced
    <2>1. Counting' = Counting \cup Promised!OpsOf(key)
      BY <1>2, <1>3, <1>6 DEF Counting
    <2>2. Promised!Ref(key)
      BY <2>1, <1>2, <1>4, <1>5, <1>6 DEF Promised!Ref
    <2> QED BY <2>2 DEF PromisedSteps, Promised!Step
  <1>7. CASE ~referenced
    <2>1. Counting' = Counting \ Promised!OpsOf(key)
      BY <1>2, <1>3, <1>7 DEF Counting
    <2>2. Promised!Unref(key)
      BY <2>1, <1>2, <1>4, <1>5, <1>7 DEF Promised!Unref
    <2> QED BY <2>2 DEF PromisedSteps, Promised!Step
  <1> QED BY <1>6, <1>7

LEMMA ForgetHandlePromised ==
    ASSUME IInv, NEW key \in HandleKey, ForgetHandle(key)
    PROVE  PromisedSteps
  <1>1. /\ UNCHANGED <<op_next_id, op_running, channel, inflight, unref_ops, parked>>
        /\ DOMAIN handles' = DOMAIN handles \ {key}
        /\ \A k \in DOMAIN handles' : handles'[k] = handles[k]
        /\ DOMAIN op_handles' = DOMAIN op_handles \ handles[key].ops
        /\ \A i \in DOMAIN op_handles' : op_handles'[i] = op_handles[i]
    BY DEF ForgetHandle, Drop
  <1>2. \A i \in DOMAIN op_handles : i \in handles[key].ops <=> op_handles[i] = key
    BY DEF ForgetHandle, IInv, HandleIndexAgrees
  <1>3. Unrefd' = Unrefd \ {key} /\ Counting' = Counting
    BY <1>1 DEF Unrefd, Counting
  <1>4. Filed' = {p \in Filed : p[2] # key}
    BY <1>1, <1>2 DEF Filed
  <1>5. Promised!Close(key)
    BY <1>1, <1>3, <1>4 DEF Promised!Close
  <1> QED BY <1>5 DEF PromisedSteps, Promised!Step

LEMMA CompletePromised ==
    ASSUME NEW id \in op_running, Complete(id) PROVE PromisedSteps
  <1>1. Promised!Finish(id)
    BY DEF Complete, Promised!Finish, Counting, Filed, Unrefd
  <1> QED BY <1>1 DEF PromisedSteps, Promised!Step

LEMMA SentinelPromised ==
    ASSUME NEW id \in Sentinels, channel' = Append(channel, id),
           UNCHANGED <<op_next_id, op_running, inflight, unref_ops, handles, op_handles, parked>>
    PROVE  PromisedSteps
  <1>1. Promised!Wake(id)
    BY DEF Promised!Wake, Counting, Filed, Unrefd
  <1> QED BY <1>1 DEF PromisedSteps, Promised!Step

(* A completion that is taken is that of an op a promise waits for.        *)
LEMMA SettlePromised == ASSUME IInv, Settle PROVE PromisedSteps
  <1> DEFINE id == Head(channel)
  <1>1. /\ channel # << >> /\ channel' = Tail(channel)
        /\ NoteSettled(id) /\ parked' = parked \ {id}
        /\ UNCHANGED <<op_next_id, op_running>>
    BY DEF Settle
  <1>2. id \notin Sentinels => id \in parked
    BY <1>1, QueuedTail DEF IInv, ParkedIsLive, Live
  <1>3. id \in Sentinels => id \notin parked /\ id \notin DOMAIN op_handles
    BY DEF IInv, OpsTypeOK, OpId, Sentinels, SIGNAL_OP_ID, PLATFORM_TASK_OP_ID
  <1>4. Counting' = Counting \ {id}
    BY <1>1, <1>3 DEF NoteSettled, Counting
  <1>5. DOMAIN op_handles' = DOMAIN op_handles \ {id}
    BY <1>1, <1>3 DEF NoteSettled, Unfile, Drop
  <1>6. \A i \in DOMAIN op_handles' : op_handles'[i] = op_handles[i]
    BY <1>1 DEF NoteSettled, Unfile, Drop
  <1>7. Filed' = {p \in Filed : p[1] # id}
    BY <1>5, <1>6 DEF Filed
  <1>8. Unrefd' = Unrefd
    <2>1. CASE id \in DOMAIN op_handles
      <3> DEFINE key == op_handles[id]
                 h == [handles[key] EXCEPT !.ops = @ \ {id}]
      <3>1. key \in DOMAIN handles /\ handles[key] \in HandleRef
        BY <2>1 DEF IInv, HandleIndexAgrees, OpsTypeOK
      <3>2. handles' = Pruned(key, h)
        BY <1>1, <1>3, <2>1, <3>1 DEF NoteSettled, Unfile
      <3>3. h.referenced = handles[key].referenced
        BY <3>1 DEF HandleRef
      <3>4. ASSUME NEW k PROVE k \in Unrefd' <=> k \in Unrefd
        <4>1. CASE k = key
          BY <4>1, <3>1, <3>2, <3>3 DEF Unrefd, Pruned, Put, Drop
        <4>2. CASE k # key
          BY <4>2, <3>2 DEF Unrefd, Pruned, Put, Drop
        <4> QED BY <4>1, <4>2
      <3> QED BY <3>4
    <2>2. CASE id \notin DOMAIN op_handles
      BY <2>2, <1>1 DEF NoteSettled, Unfile, Unrefd
    <2> QED BY <2>1, <2>2
  <1>9. Promised!Take
    BY <1>1, <1>2, <1>4, <1>7, <1>8 DEF Promised!Take
  <1> QED BY <1>9 DEF PromisedSteps, Promised!Step

(* Every step of the runtime is one of AsyncOps.                           *)
LEMMA StepsPromised == ASSUME IInv, [OpsNext]_opVars PROVE PromisedSteps
  <1>1. CASE SpawnOp
    BY <1>1, SpawnPlainPromised DEF SpawnOp
  <1>2. CASE SpawnOpUnref
    BY <1>2, SpawnPlainPromised DEF SpawnOpUnref
  <1>3. ASSUME NEW key \in HandleKey, SpawnHandleOp(key) PROVE PromisedSteps
    BY <1>3, SpawnHandlePromised
  <1>4. ASSUME NEW key \in HandleKey, NEW referenced \in BOOLEAN,
               SetHandleRef(key, referenced)
        PROVE  PromisedSteps
    BY <1>4, SetHandleRefPromised
  <1>5. ASSUME NEW key \in HandleKey, ForgetHandle(key) PROVE PromisedSteps
    BY <1>5, ForgetHandlePromised
  <1>6. ASSUME NEW id \in op_running, Complete(id) PROVE PromisedSteps
    BY <1>6, CompletePromised
  <1>7. ASSUME NEW id \in Sentinels, SendSentinel(id) PROVE PromisedSteps
    BY <1>7, SentinelPromised DEF SendSentinel
  <1>8. CASE UNCHANGED opVars
    BY <1>8 DEF opVars, PromisedSteps, Counting, Filed, Unrefd
  <1> QED BY <1>1, <1>2, <1>3, <1>4, <1>5, <1>6, <1>7, <1>8, SettlePromised DEF OpsNext

(* The counter is positive exactly while a promise that counts waits.      *)
LEMMA InflightAlive == ASSUME IInv PROVE has_inflight <=> Promised!KeepsAlive
  <1>1. IsFiniteSet(Counting) /\ inflight = Cardinality(Counting)
    BY LiveFinite, FS_Subset DEF IInv, InflightExact, ParkedIsLive, Counting
  <1>2. inflight \in Nat /\ (inflight = 0 <=> Counting = {})
    BY <1>1, FS_CardinalityType, FS_EmptySet
  <1> QED BY <1>2 DEF has_inflight, Promised!KeepsAlive

(* What the loop asks, whether to go on, follows each step.                *)
LEMMA PromisedFollows ==
    IInv /\ IInv' /\ PromisedSteps => [Promised!Next]_(Promised!vars)
  <1>1. IInv => (has_inflight <=> Promised!KeepsAlive)
    BY InflightAlive
  <1>2. IInv' => (has_inflight' <=> Promised!KeepsAlive')
    BY InflightAlive, PTL
  <1>3. Counting' = Counting => (Promised!KeepsAlive' <=> Promised!KeepsAlive)
    BY DEF Promised!KeepsAlive
  <1>4. has_inflight \in BOOLEAN /\ has_inflight' \in BOOLEAN
    BY DEF has_inflight
  <1>5. Promised!KeepsAlive \in BOOLEAN /\ Promised!KeepsAlive' \in BOOLEAN
    BY DEF Promised!KeepsAlive
  <1>6. ASSUME IInv, IInv', Promised!Step PROVE Promised!Next
    BY <1>2, <1>4, <1>5, <1>6 DEF Promised!Next
  <1>7. ASSUME IInv, IInv',
               UNCHANGED <<op_next_id, parked, Counting, Filed, Unrefd, op_running, channel>>
        PROVE  UNCHANGED Promised!vars
    BY <1>1, <1>2, <1>3, <1>4, <1>7 DEF Promised!vars
  <1> QED BY <1>6, <1>7 DEF PromisedSteps

LEMMA InitPromised == OpsInit => Promised!Init
  BY DEF OpsInit, Promised!Init, EmptyMap, Counting, Filed, Unrefd, has_inflight

(* The counter, the handle map and its reverse index behave as a set of    *)
(* promises, each settled once, and keep the loop going exactly while one  *)
(* of a ref'd handle, or of none, waits.                                   *)
THEOREM ImplementsPromised == OpsSpec => BehavesAsPromised
  <1>1. IInv /\ [OpsNext]_opVars => IInv'
    BY NextInv
  <1>2. IInv /\ IInv' /\ [OpsNext]_opVars => [Promised!Next]_(Promised!vars)
    BY StepsPromised, PromisedFollows
  <1> QED BY <1>1, <1>2, InitInv, InitPromised, PTL
          DEF OpsSpec, BehavesAsPromised, Promised!Spec
=============================================================================
