-------------------------- MODULE TimerQueueProofs -------------------------
(***************************************************************************)
(* Proofs about TimerQueue, for every clock, every number of timers and    *)
(* every size of the id space.                                             *)
(*                                                                         *)
(* The invariant has two halves.  QueueInv is about active, its count and  *)
(* the two queues: an entry's seq is its own (SeqsUnique), and until the   *)
(* ids wrap every id in use is below next_id (NoWrapYet), so that a fresh  *)
(* id finds no old entry.  PhaseInv is about time: what a pending callback *)
(* waits for ends before anything set after it can be due (GatesClosed).   *)
(***************************************************************************)
EXTENDS TimerQueue, FiniteSetTheorems, SequenceTheorems, TLAPS

SeqsUnique ==
    /\ \A e \in heap : e.seq <= seq
    /\ \A e \in immediates : e.seq <= seq
    /\ \A e, f \in heap : e.seq = f.seq => e = f
    /\ \A e, f \in immediates : e.seq = f.seq => e = f
    /\ \A e \in heap, f \in immediates : e.seq # f.seq

NoWrapYet ==
    seq < IdMax =>
        /\ next_id <= seq + 1
        /\ \A e \in heap : e.id < next_id
        /\ \A e \in immediates : e.id < next_id
        /\ \A i \in DOMAIN active : i < next_id

LongEnough(interval) == interval = NoInterval \/ interval >= Ms

QueueType ==
    /\ next_id \in Ids
    /\ seq \in Nat
    /\ heap \subseteq Entry
    /\ immediates \subseteq Entry
    /\ DOMAIN active \subseteq Ids
    /\ \A i \in DOMAIN active : active[i] \in Timer /\ LongEnough(active[i].interval)
    /\ ref_count \in Int

QueueInv ==
    /\ QueueType
    /\ RefCountExact
    /\ NoTimerLost
    /\ SeqsUnique
    /\ NoWrapYet
    /\ EntriesAreOwnUntilWrap

USE TimerAssumption

-----------------------------------------------------------------------------
(* The live ids, and the ref'd ones among them, are finitely many.         *)
LEMMA RefsFinite ==
    ASSUME NEW act, DOMAIN act \subseteq Ids
    PROVE  IsFiniteSet(refs(act)) /\ Cardinality(refs(act)) \in Nat
  <1>1. IsFiniteSet(Ids)
    BY FS_Interval DEF Ids
  <1>2. refs(act) \subseteq Ids
    BY DEF refs
  <1> QED BY <1>1, <1>2, FS_Subset, FS_CardinalityType

(* Looking at a front discards dead entries only.                          *)
LEMMA SkimKeepsLive ==
    ASSUME NEW queue
    PROVE  Skim(queue) \subseteq queue /\ LiveIn(queue) \subseteq Skim(queue)
  BY DEF Skim, LiveIn

(* Until the ids wrap, the id that insert takes is next_id itself.         *)
LEMMA FreshId ==
    ASSUME QueueType, NoWrapYet, seq < IdMax, NEW id \in Ids, TakesFreeId(id)
    PROVE  id = next_id
  <1>1. next_id \in Ids \ DOMAIN active
    BY DEF QueueType, NoWrapYet, Ids
  <1>2. Tries(id) <= Tries(next_id)
    BY <1>1 DEF TakesFreeId
  <1> QED BY <1>1, <1>2 DEF Tries, Ids

-----------------------------------------------------------------------------
(* What the operations do to the queues comes in five kinds.               *)

Inserts(id, interval, e) ==
    /\ Insert(id, interval)
    /\ e \in Entry /\ e.seq = seq + 1 /\ e.id = id
    /\ \/ heap' = heap \cup {e} /\ immediates' = immediates
       \/ immediates' = immediates \cup {e} /\ heap' = heap

Retires(id) ==
    /\ id \in DOMAIN active
    /\ active' = Drop(active, {id})
    /\ ref_count' = IF active[id].is_ref THEN ref_count - 1 ELSE ref_count
    /\ heap' \subseteq heap
    /\ immediates' \subseteq immediates
    /\ \A e \in heap : e.id \in DOMAIN active \ {id} => e \in heap'
    /\ \A e \in immediates : e.id \in DOMAIN active \ {id} => e \in immediates'
    /\ UNCHANGED <<next_id, seq>>

Rearms(e, f) ==
    /\ e \in LiveIn(heap)
    /\ f \in Entry /\ f.seq = seq + 1 /\ f.id = e.id
    /\ heap' = (Skim(heap) \ {e}) \cup {f}
    /\ immediates' \subseteq immediates
    /\ LiveIn(immediates) \subseteq immediates'
    /\ seq' = seq + 1
    /\ active' = [active EXCEPT ![e.id].seq = seq + 1]
    /\ UNCHANGED <<next_id, ref_count>>

Skims ==
    /\ heap' \subseteq heap /\ LiveIn(heap) \subseteq heap'
    /\ immediates' \subseteq immediates /\ LiveIn(immediates) \subseteq immediates'
    /\ UNCHANGED <<next_id, seq, active, ref_count>>

Flips(id, value) ==
    /\ id \in DOMAIN active
    /\ active[id].is_ref # value
    /\ active' = [active EXCEPT ![id].is_ref = value]
    /\ ref_count' = IF value THEN ref_count + 1 ELSE ref_count - 1
    /\ UNCHANGED <<next_id, seq, heap, immediates>>

LEMMA InsertsInv ==
    ASSUME QueueInv, NEW id \in Ids, NEW interval \in Nat \cup {NoInterval},
           LongEnough(interval), NEW e, Inserts(id, interval, e)
    PROVE  QueueInv'
  <1> DEFINE t == [interval |-> interval, is_ref |-> TRUE, seq |-> seq + 1]
  <1>1. /\ QueueType /\ RefCountExact /\ NoTimerLost /\ SeqsUnique
        /\ NoWrapYet /\ EntriesAreOwnUntilWrap
    BY DEF QueueInv
  <1>2. /\ id \notin DOMAIN active
        /\ seq' = seq + 1
        /\ seq \in Nat
        /\ next_id' = NextId(id)
        /\ ref_count' = ref_count + 1
        /\ DOMAIN active' = DOMAIN active \cup {id}
        /\ active'[id] = t
        /\ \A i \in DOMAIN active : active'[i] = active[i]
    BY <1>1 DEF Inserts, Insert, TakesFreeId, Put, QueueType
  <1>3. /\ e \in Entry /\ e.seq = seq + 1 /\ e.id = id
        /\ heap' \cup immediates' = heap \cup immediates \cup {e}
        /\ heap \subseteq heap' /\ immediates \subseteq immediates'
        /\ heap' \subseteq heap \cup {e}
        /\ immediates' \subseteq immediates \cup {e}
        /\ immediates' = immediates \/ heap' = heap
    BY DEF Inserts
  <1>4. /\ t \in Timer /\ t.is_ref = TRUE /\ t.seq = seq + 1
        /\ LongEnough(t.interval)
    BY <1>1 DEF Timer, QueueType
  <1>5. QueueType'
    <2>1. next_id' \in Ids
      BY <1>2 DEF NextId, Ids
    <2>2. heap' \subseteq Entry /\ immediates' \subseteq Entry
      BY <1>1, <1>3 DEF QueueType
    <2>3. \A i \in DOMAIN active' : 
             /\ i \in Ids
             /\ active'[i] \in Timer
             /\ LongEnough(active'[i].interval)
      BY <1>1, <1>2, <1>4 DEF QueueType
    <2> QED BY <2>1, <2>2, <2>3, <1>1, <1>2 DEF QueueType
  <1>6. RefCountExact'
    <2>1. refs(active') = refs(active) \cup {id}
      BY <1>2, <1>4 DEF refs
    <2>2. id \notin refs(active)
      BY <1>2 DEF refs
    <2>3. IsFiniteSet(refs(active)) /\ Cardinality(refs(active)) \in Nat
      BY <1>1, RefsFinite DEF QueueType
    <2>4. Cardinality(refs(active')) = Cardinality(refs(active)) + 1
      BY <2>1, <2>2, <2>3, FS_AddElement
    <2> QED BY <2>4, <1>1, <1>2 DEF RefCountExact
  <1>7. NoTimerLost'
    BY <1>1, <1>2, <1>3, <1>4 DEF NoTimerLost
  <1>8. e \notin heap /\ e \notin immediates
    BY <1>1, <1>2, <1>3 DEF SeqsUnique
  <1>9. SeqsUnique'
    <2>1. /\ \A f \in heap' : f.seq <= seq'
          /\ \A f \in immediates' : f.seq <= seq'
      BY <1>1, <1>2, <1>3 DEF SeqsUnique, QueueType, Entry
    <2>2. \A f \in heap \cup immediates : f.seq # e.seq
      BY <1>1, <1>2, <1>3 DEF SeqsUnique
    <2>3. \A f, g \in heap' : f.seq = g.seq => f = g
      BY <2>2, <1>1, <1>3 DEF SeqsUnique
    <2>4. \A f, g \in immediates' : f.seq = g.seq => f = g
      BY <2>2, <1>1, <1>3 DEF SeqsUnique
    <2>5. \A f \in heap', g \in immediates' : f.seq # g.seq
      BY <2>2, <1>1, <1>3, <1>8 DEF SeqsUnique
    <2> QED BY <2>1, <2>3, <2>4, <2>5 DEF SeqsUnique
  <1>10. NoWrapYet'
    <2> SUFFICES ASSUME seq' < IdMax
                 PROVE  /\ next_id' <= seq' + 1
                        /\ \A f \in heap' : f.id < next_id'
                        /\ \A f \in immediates' : f.id < next_id'
                        /\ \A i \in DOMAIN active' : i < next_id'
      BY DEF NoWrapYet
    <2>1. seq < IdMax /\ id = next_id
      BY <1>1, <1>2, FreshId DEF Inserts, Insert
    <2>2. next_id' = next_id + 1 /\ next_id <= seq + 1 /\ next_id \in Nat
      BY <2>1, <1>1, <1>2 DEF NoWrapYet, NextId, QueueType, Ids
    <2>3. \A f \in heap' \cup immediates' : f.id < next_id'
      BY <2>1, <2>2, <1>1, <1>3 DEF NoWrapYet, QueueType, Entry, Ids
    <2>4. \A i \in DOMAIN active' : i < next_id'
      BY <2>1, <2>2, <1>1, <1>2 DEF NoWrapYet, QueueType, Ids
    <2> QED BY <2>2, <2>3, <2>4, <1>2
  <1>11. EntriesAreOwnUntilWrap'
    <2> SUFFICES ASSUME seq' <= IdMax, NEW f \in heap' \cup immediates',
                        f.id \in DOMAIN active'
                 PROVE  f.seq = active'[f.id].seq
      BY DEF EntriesAreOwnUntilWrap, EntriesAreOwn
    <2>1. seq < IdMax /\ id = next_id
      BY <1>1, <1>2, FreshId DEF Inserts, Insert
    <2>2. CASE f = e
      BY <2>2, <1>2, <1>3, <1>4
    <2>3. CASE f # e
      <3>1. f \in heap \cup immediates /\ f.id # id
        BY <2>1, <2>3, <1>1, <1>3 DEF NoWrapYet, QueueType, Entry, Ids
      <3> QED BY <3>1, <2>1, <1>1, <1>2 DEF EntriesAreOwnUntilWrap, EntriesAreOwn
    <2> QED BY <2>2, <2>3
  <1> QED BY <1>5, <1>6, <1>7, <1>9, <1>10, <1>11 DEF QueueInv

LEMMA RetiresInv ==
    ASSUME QueueInv, NEW id, Retires(id)
    PROVE  QueueInv'
  <1>1. /\ QueueType /\ RefCountExact /\ NoTimerLost /\ SeqsUnique
        /\ NoWrapYet /\ EntriesAreOwnUntilWrap
    BY DEF QueueInv
  <1>2. /\ id \in DOMAIN active
        /\ DOMAIN active' = DOMAIN active \ {id}
        /\ \A i \in DOMAIN active' : active'[i] = active[i]
        /\ ref_count' = IF active[id].is_ref THEN ref_count - 1 ELSE ref_count
        /\ heap' \subseteq heap
        /\ immediates' \subseteq immediates
        /\ \A e \in heap : e.id \in DOMAIN active' => e \in heap'
        /\ \A e \in immediates : e.id \in DOMAIN active' => e \in immediates'
        /\ next_id' = next_id /\ seq' = seq
    BY DEF Retires, Drop
  <1>3. QueueType'
    BY <1>1, <1>2 DEF QueueType
  <1>4. RefCountExact'
    <2>1. IsFiniteSet(refs(active)) /\ Cardinality(refs(active)) \in Nat
      BY <1>1, RefsFinite DEF QueueType
    <2>2. CASE active[id].is_ref
      <3>1. refs(active') = refs(active) \ {id} /\ id \in refs(active)
        BY <2>2, <1>2 DEF refs
      <3>2. Cardinality(refs(active')) = Cardinality(refs(active)) - 1
        BY <3>1, <2>1, FS_RemoveElement
      <3> QED BY <3>2, <2>2, <1>1, <1>2 DEF RefCountExact
    <2>3. CASE ~active[id].is_ref
      <3>1. refs(active') = refs(active)
        BY <2>3, <1>2 DEF refs
      <3> QED BY <3>1, <2>3, <1>1, <1>2 DEF RefCountExact
    <2> QED BY <2>2, <2>3
  <1>5. NoTimerLost'
    BY <1>1, <1>2 DEF NoTimerLost
  <1>6. SeqsUnique'
    BY <1>1, <1>2 DEF SeqsUnique
  <1>7. NoWrapYet'
    BY <1>1, <1>2 DEF NoWrapYet
  <1>8. EntriesAreOwnUntilWrap'
    BY <1>1, <1>2 DEF EntriesAreOwnUntilWrap, EntriesAreOwn
  <1> QED BY <1>3, <1>4, <1>5, <1>6, <1>7, <1>8 DEF QueueInv

LEMMA RearmsInv ==
    ASSUME QueueInv, NEW e, NEW f, Rearms(e, f)
    PROVE  QueueInv'
  <1>1. /\ QueueType /\ RefCountExact /\ NoTimerLost /\ SeqsUnique
        /\ NoWrapYet /\ EntriesAreOwnUntilWrap
    BY DEF QueueInv
  <1>2. /\ e \in heap /\ e.id \in DOMAIN active
        /\ f \in Entry /\ f.seq = seq + 1 /\ f.id = e.id
        /\ heap' \subseteq heap \cup {f}
        /\ f \in heap'
        /\ \A g \in heap : g.id \in DOMAIN active /\ g # e => g \in heap'
        /\ immediates' \subseteq immediates
        /\ \A g \in immediates : g.id \in DOMAIN active => g \in immediates'
        /\ e \in heap' => e = f
        /\ seq' = seq + 1 /\ seq \in Nat
        /\ next_id' = next_id /\ ref_count' = ref_count
    BY <1>1, SkimKeepsLive DEF Rearms, LiveIn, QueueType
  <1>3. /\ DOMAIN active' = DOMAIN active
        /\ \A i \in DOMAIN active : i # e.id => active'[i] = active[i]
        /\ active'[e.id] \in Timer
        /\ active'[e.id].is_ref = active[e.id].is_ref
        /\ active'[e.id].interval = active[e.id].interval
        /\ active'[e.id].seq = seq + 1
    <2>1. active[e.id] \in Timer /\ seq + 1 \in Nat
      BY <1>1, <1>2 DEF QueueType
    <2>2. active' = [active EXCEPT ![e.id] = [active[e.id] EXCEPT !.seq = seq + 1]]
      BY DEF Rearms
    <2> QED BY <2>1, <2>2, <1>2 DEF Timer
  <1>4. QueueType'
    BY <1>1, <1>2, <1>3 DEF QueueType
  <1>5. RefCountExact'
    <2>1. refs(active') = refs(active)
      BY <1>3 DEF refs
    <2> QED BY <2>1, <1>1, <1>2 DEF RefCountExact
  <1>6. NoTimerLost'
    <2> SUFFICES ASSUME NEW i \in DOMAIN active
                 PROVE  \E g \in heap' \cup immediates' :
                           g.id = i /\ g.seq = active'[i].seq
      BY <1>3 DEF NoTimerLost
    <2>1. CASE i = e.id
      BY <2>1, <1>2, <1>3
    <2>2. CASE i # e.id
      BY <2>2, <1>1, <1>2, <1>3 DEF NoTimerLost
    <2> QED BY <2>1, <2>2
  <1>7. SeqsUnique'
    <2>1. \A g \in heap \cup immediates : g.seq <= seq /\ g.seq \in Nat /\ g.seq # f.seq
      BY <1>1, <1>2 DEF SeqsUnique, QueueType, Entry
    <2>2. /\ \A g \in heap' : g.seq <= seq'
          /\ \A g \in immediates' : g.seq <= seq'
      BY <2>1, <1>2
    <2>3. \A g, h \in heap' : g.seq = h.seq => g = h
      BY <2>1, <1>1, <1>2 DEF SeqsUnique
    <2>4. \A g, h \in immediates' : g.seq = h.seq => g = h
      BY <1>1, <1>2 DEF SeqsUnique
    <2>5. \A g \in heap', h \in immediates' : g.seq # h.seq
      BY <2>1, <1>1, <1>2 DEF SeqsUnique
    <2> QED BY <2>2, <2>3, <2>4, <2>5 DEF SeqsUnique
  <1>8. NoWrapYet'
    <2> SUFFICES ASSUME seq' < IdMax
                 PROVE  /\ next_id' <= seq' + 1
                        /\ \A g \in heap' : g.id < next_id'
                        /\ \A g \in immediates' : g.id < next_id'
                        /\ \A i \in DOMAIN active' : i < next_id'
      BY DEF NoWrapYet
    <2>1. seq < IdMax /\ next_id <= seq' + 1
      BY <1>1, <1>2 DEF NoWrapYet, QueueType, Ids
    <2> QED BY <2>1, <1>1, <1>2, <1>3 DEF NoWrapYet
  <1>9. EntriesAreOwnUntilWrap'
    <2> SUFFICES ASSUME seq' <= IdMax, NEW g \in heap' \cup immediates',
                        g.id \in DOMAIN active'
                 PROVE  g.seq = active'[g.id].seq
      BY DEF EntriesAreOwnUntilWrap, EntriesAreOwn
    <2>1. CASE g = f
      BY <2>1, <1>2, <1>3
    <2>2. CASE g # f
      <3>1. EntriesAreOwn
        BY <1>1, <1>2 DEF EntriesAreOwnUntilWrap
      <3>2. g \in heap \cup immediates /\ g.seq = active[g.id].seq
        BY <2>2, <3>1, <1>2, <1>3 DEF EntriesAreOwn
      <3>3. e.seq = active[e.id].seq
        BY <3>1, <1>2 DEF EntriesAreOwn
      <3>4. g.id # e.id
        <4> SUFFICES ASSUME g.id = e.id PROVE FALSE
          OBVIOUS
        <4>1. g \in heap => g = e
          BY <3>2, <3>3, <1>1, <1>2 DEF SeqsUnique
        <4>2. g \notin immediates
          BY <3>2, <3>3, <1>1, <1>2 DEF SeqsUnique
        <4> QED BY <4>1, <4>2, <3>2, <2>2, <1>2
      <3> QED BY <3>2, <3>4, <1>3
    <2> QED BY <2>1, <2>2
  <1> QED BY <1>4, <1>5, <1>6, <1>7, <1>8, <1>9 DEF QueueInv

LEMMA SkimsInv ==
    ASSUME QueueInv, Skims
    PROVE  QueueInv'
  <1>1. QueueType'
    BY DEF QueueInv, QueueType, Skims
  <1>2. RefCountExact'
    BY DEF QueueInv, RefCountExact, Skims
  <1>3. NoTimerLost'
    BY DEF QueueInv, NoTimerLost, Skims, LiveIn
  <1>4. SeqsUnique'
    BY DEF QueueInv, SeqsUnique, Skims
  <1>5. NoWrapYet'
    BY DEF QueueInv, NoWrapYet, Skims
  <1>6. EntriesAreOwnUntilWrap'
    BY DEF QueueInv, EntriesAreOwnUntilWrap, EntriesAreOwn, Skims
  <1> QED BY <1>1, <1>2, <1>3, <1>4, <1>5, <1>6 DEF QueueInv

LEMMA FlipsInv ==
    ASSUME QueueInv, NEW id \in Ids, NEW value \in BOOLEAN, Flips(id, value)
    PROVE  QueueInv'
  <1>1. /\ QueueType /\ RefCountExact /\ NoTimerLost /\ SeqsUnique
        /\ NoWrapYet /\ EntriesAreOwnUntilWrap
    BY DEF QueueInv
  <1>2. /\ DOMAIN active' = DOMAIN active
        /\ \A i \in DOMAIN active : i # id => active'[i] = active[i]
        /\ active'[id] \in Timer
        /\ active'[id].is_ref = value
        /\ active'[id].seq = active[id].seq
        /\ active'[id].interval = active[id].interval
    <2>1. active[id] \in Timer
      BY <1>1 DEF QueueType, Flips
    <2>2. active' = [active EXCEPT ![id] = [active[id] EXCEPT !.is_ref = value]]
      BY DEF Flips
    <2> QED BY <2>1, <2>2 DEF Timer, Flips
  <1>3. id \in DOMAIN active /\ active[id].is_ref # value /\ active[id].is_ref \in BOOLEAN
    BY <1>1 DEF Flips, QueueType, Timer
  <1>4. QueueType'
    BY <1>1, <1>2 DEF QueueType, Flips
  <1>5. RefCountExact'
    <2>1. IsFiniteSet(refs(active)) /\ Cardinality(refs(active)) \in Nat
      BY <1>1, RefsFinite DEF QueueType
    <2>2. CASE value
      <3>1. refs(active') = refs(active) \cup {id} /\ id \notin refs(active)
        BY <2>2, <1>2, <1>3 DEF refs
      <3>2. Cardinality(refs(active')) = Cardinality(refs(active)) + 1
        BY <3>1, <2>1, FS_AddElement
      <3> QED BY <3>2, <2>2, <1>1 DEF RefCountExact, Flips
    <2>3. CASE ~value
      <3>1. refs(active') = refs(active) \ {id} /\ id \in refs(active)
        BY <2>3, <1>2, <1>3 DEF refs
      <3>2. Cardinality(refs(active')) = Cardinality(refs(active)) - 1
        BY <3>1, <2>1, FS_RemoveElement
      <3> QED BY <3>2, <2>3, <1>1 DEF RefCountExact, Flips
    <2> QED BY <2>2, <2>3
  <1>6. NoTimerLost'
    BY <1>1, <1>2 DEF NoTimerLost, Flips
  <1>7. SeqsUnique' /\ NoWrapYet'
    BY <1>1, <1>2 DEF SeqsUnique, NoWrapYet, Flips
  <1>8. EntriesAreOwnUntilWrap'
    BY <1>1, <1>2 DEF EntriesAreOwnUntilWrap, EntriesAreOwn, Flips
  <1> QED BY <1>4, <1>5, <1>6, <1>7, <1>8 DEF QueueInv

-----------------------------------------------------------------------------
(* The other half of the invariant: time, and the pending callbacks.       *)

PhaseType ==
    /\ clock \in Nat
    /\ now \in Nat
    /\ pending \in Seq(Pending)
    /\ running \in Running
    /\ check \in Int

TimesAgree ==
    /\ now <= clock
    /\ running.kind # "none" => running.now = now
    /\ running.kind = "timer" => running.deadline <= now

GateClosed(p) ==
    /\ p.from = "open" => p.gate = "open"
    /\ p.from = "timers" =>
          /\ p.gate = "timers"
          /\ p.until < now + Ms
          /\ \A e \in heap : e.seq > p.born => e.at > p.until
    /\ p.gate = "immediates" => p.until <= now

GatesClosed == \A k \in 1 .. Len(pending) : GateClosed(pending[k])

PhaseInv == PhaseType /\ TimesAgree /\ GatesClosed

(* A gate stays closed while time passes and the heap gains only entries   *)
(* a millisecond or more away.                                             *)
LEMMA GateStaysClosed ==
    ASSUME PhaseType, NEW p \in Pending, GateClosed(p),
           now' \in Nat, now' >= now,
           \A e \in heap' : e \in heap \/ (e.at >= now + Ms /\ e.at \in Nat)
    PROVE  GateClosed(p)'
  <1>1. p.until \in Int
    BY DEF Pending
  <1> QED BY <1>1 DEF GateClosed, PhaseType

(* Taking the front pending callback off, or none, leaves closed gates.    *)
LEMMA GatesStayClosed ==
    ASSUME PhaseType, GatesClosed,
           now' \in Nat, now' >= now,
           \A e \in heap' : e \in heap \/ (e.at >= now + Ms /\ e.at \in Nat),
           pending' = pending \/ (pending # << >> /\ pending' = Tail(pending))
    PROVE  GatesClosed' /\ pending' \in Seq(Pending)
  <1>1. pending \in Seq(Pending)
    BY DEF PhaseType
  <1>2. \A p \in Pending : GateClosed(p) => GateClosed(p)'
    BY GateStaysClosed
  <1>3. CASE pending' = pending
    <2>1. ASSUME NEW k \in 1 .. Len(pending') PROVE GateClosed(pending[k])'
      <3>1. pending'[k] = pending[k] /\ pending[k] \in Pending /\ k \in 1 .. Len(pending)
        BY <1>1, <1>3
      <3> QED BY <3>1, <1>2 DEF GatesClosed, GateClosed
    <2> QED BY <2>1, <1>1, <1>3 DEF GatesClosed
  <1>4. CASE pending # << >> /\ pending' = Tail(pending)
    <2>1. pending' \in Seq(Pending)
      BY <1>1, <1>4
    <2>2. ASSUME NEW k \in 1 .. Len(pending') PROVE GateClosed(pending[k])'
      <3>1. /\ k + 1 \in 1 .. Len(pending)
            /\ pending'[k] = pending[k + 1]
            /\ pending[k + 1] \in Pending
        BY <1>1, <1>4
      <3> QED BY <3>1, <1>2 DEF GatesClosed, GateClosed
    <2> QED BY <2>1, <2>2 DEF GatesClosed
  <1> QED BY <1>3, <1>4

IInv == QueueInv /\ PhaseInv

(* Both halves are the type invariant's.                                   *)
LEMMA Types == IInv => TypeOK
  BY DEF IInv, QueueInv, PhaseInv, QueueType, PhaseType, TypeOK

LEMMA InitInv == Init => IInv
  <1> SUFFICES ASSUME Init PROVE IInv
    OBVIOUS
  <1> USE DEF Init
  <1>1. QueueType
    BY DEF QueueType, Ids
  <1>2. RefCountExact
    <2>1. refs(active) = {}
      BY DEF refs
    <2> QED BY <2>1, FS_EmptySet DEF RefCountExact
  <1>3. NoTimerLost /\ SeqsUnique /\ NoWrapYet /\ EntriesAreOwnUntilWrap
    BY DEF NoTimerLost, SeqsUnique, NoWrapYet, EntriesAreOwnUntilWrap, EntriesAreOwn
  <1>4. PhaseType /\ TimesAgree /\ GatesClosed
    BY DEF PhaseType, TimesAgree, GatesClosed, Idle, Running
  <1> QED BY <1>1, <1>2, <1>3, <1>4 DEF IInv, QueueInv, PhaseInv

(* The delay that is clamped is a millisecond or more.                     *)
LEMMA ClampedDelay ==
    ASSUME NEW ms \in Nat
    PROVE  Clamped(ms) \in Nat /\ Clamped(ms) >= Ms
  <1>1. CASE ms > 1
    <2>1. ms * Ms \in Nat /\ ms * Ms >= Ms
      BY <1>1
    <2> QED BY <2>1, <1>1 DEF Clamped
  <1>2. CASE ~(ms > 1)
    BY <1>2 DEF Clamped
  <1> QED BY <1>1, <1>2

-----------------------------------------------------------------------------
(* One lemma per operation.                                                *)

LEMMA TickInv == ASSUME IInv, Tick PROVE IInv'
  <1>1. QueueInv'
    BY SkimsInv DEF IInv, Tick, Skims, LiveIn
  <1>2. PhaseType' /\ TimesAgree'
    BY DEF IInv, PhaseInv, PhaseType, TimesAgree, Tick
  <1>3. GatesClosed'
    BY GatesStayClosed DEF IInv, PhaseInv, PhaseType, Tick
  <1> QED BY <1>1, <1>2, <1>3 DEF IInv, PhaseInv

LEMMA StartTurnInv == ASSUME IInv, StartTurn PROVE IInv'
  <1>1. QueueInv'
    BY SkimsInv DEF IInv, StartTurn, Skims, LiveIn
  <1>2. PhaseType' /\ TimesAgree'
    BY DEF IInv, PhaseInv, PhaseType, TimesAgree, StartTurn, Idle
  <1>3. now' \in Nat /\ now' >= now
    BY DEF IInv, PhaseInv, PhaseType, TimesAgree, StartTurn
  <1>4. GatesClosed'
    BY <1>3, GatesStayClosed DEF IInv, PhaseInv, StartTurn
  <1> QED BY <1>1, <1>2, <1>4 DEF IInv, PhaseInv

LEMMA ScheduleInv ==
    ASSUME IInv, NEW ms \in Delays, NEW repeating \in BOOLEAN, NEW id \in Ids,
           Schedule(ms, repeating, id)
    PROVE  IInv'
  <1> DEFINE e == [at |-> clock + Clamped(ms), seq |-> seq + 1, id |-> id]
             interval == IF repeating THEN Clamped(ms) ELSE NoInterval
  <1>1. Clamped(ms) \in Nat /\ Clamped(ms) >= Ms
    BY ClampedDelay
  <1>2. /\ clock \in Nat /\ seq \in Nat /\ now \in Nat /\ now <= clock
    BY DEF IInv, QueueInv, QueueType, PhaseInv, PhaseType, TimesAgree
  <1>3. e \in Entry /\ e.seq = seq + 1 /\ e.id = id /\ e.at = clock + Clamped(ms)
    BY <1>1, <1>2 DEF Entry
  <1>4. interval \in Nat \cup {NoInterval} /\ LongEnough(interval)
    BY <1>1 DEF LongEnough
  <1>5. Inserts(id, interval, e)
    BY <1>3 DEF Inserts, Schedule
  <1>6. QueueInv'
    BY <1>4, <1>5, InsertsInv DEF IInv
  <1>7. PhaseType' /\ TimesAgree'
    BY DEF IInv, PhaseInv, PhaseType, TimesAgree, Schedule
  <1>8. e.at >= now + Ms /\ e.at \in Nat
    BY <1>1, <1>2, <1>3
  <1>9. /\ now' \in Nat /\ now' >= now
        /\ pending' = pending
        /\ \A f \in heap' : f \in heap \/ (f.at >= now + Ms /\ f.at \in Nat)
    BY <1>2, <1>8 DEF Schedule
  <1>10. GatesClosed'
    BY <1>9, GatesStayClosed DEF IInv, PhaseInv
  <1> QED BY <1>6, <1>7, <1>10 DEF IInv, PhaseInv

LEMMA ScheduleImmediateInv ==
    ASSUME IInv, NEW id \in Ids, ScheduleImmediate(id)
    PROVE  IInv'
  <1> DEFINE e == [at |-> clock, seq |-> seq + 1, id |-> id]
  <1>1. clock \in Nat /\ seq \in Nat /\ now \in Nat
    BY DEF IInv, QueueInv, QueueType, PhaseInv, PhaseType
  <1>2. e \in Entry /\ e.seq = seq + 1 /\ e.id = id
    BY <1>1 DEF Entry
  <1>3. Inserts(id, NoInterval, e)
    BY <1>2 DEF Inserts, ScheduleImmediate
  <1>4. QueueInv'
    BY <1>3, InsertsInv DEF IInv, LongEnough
  <1>5. PhaseType' /\ TimesAgree'
    BY DEF IInv, PhaseInv, PhaseType, TimesAgree, ScheduleImmediate
  <1>6. GatesClosed'
    BY <1>1, GatesStayClosed DEF IInv, PhaseInv, ScheduleImmediate
  <1> QED BY <1>4, <1>5, <1>6 DEF IInv, PhaseInv

LEMMA CancelInv ==
    ASSUME IInv, NEW id \in Ids, Cancel(id)
    PROVE  IInv'
  <1>1. /\ heap' \subseteq heap
        /\ immediates' \subseteq immediates
        /\ \A e \in heap : e.id \in DOMAIN active' => e \in heap'
        /\ \A e \in immediates : e.id \in DOMAIN active' => e \in immediates'
    BY DEF Cancel, Purged
  <1>2. DOMAIN active' = DOMAIN active \ {id}
    BY DEF Cancel, Drop
  <1>3. Retires(id)
    BY <1>1, <1>2 DEF Cancel, Retires
  <1>4. QueueInv'
    BY <1>3, RetiresInv DEF IInv
  <1>5. PhaseType' /\ TimesAgree'
    BY DEF IInv, PhaseInv, PhaseType, TimesAgree, Cancel
  <1>6. now' \in Nat /\ now' >= now /\ pending' = pending
    BY DEF IInv, PhaseInv, PhaseType, Cancel
  <1>7. GatesClosed'
    BY <1>1, <1>6, GatesStayClosed DEF IInv, PhaseInv
  <1> QED BY <1>4, <1>5, <1>7 DEF IInv, PhaseInv

LEMMA SetRefInv ==
    ASSUME IInv, NEW id \in Ids, NEW value \in BOOLEAN, SetRef(id, value)
    PROVE  IInv'
  <1>1. Flips(id, value)
    BY DEF SetRef, Flips
  <1>2. QueueInv'
    BY <1>1, FlipsInv DEF IInv
  <1>3. PhaseType' /\ TimesAgree'
    BY DEF IInv, PhaseInv, PhaseType, TimesAgree, SetRef
  <1>4. GatesClosed'
    BY GatesStayClosed DEF IInv, PhaseInv, PhaseType, SetRef
  <1> QED BY <1>2, <1>3, <1>4 DEF IInv, PhaseInv

(* A pending callback queued by a timer waits up to an instant less than a *)
(* millisecond past this turn.                                             *)
LEMMA TimerPendingInv == ASSUME IInv, TimerPending PROVE IInv'
  <1> DEFINE p == [gate |-> GateOf, until |-> UntilOf, born |-> seq,
                   from |-> GateOf, phase |-> check]
  <1>1. QueueInv'
    BY SkimsInv DEF IInv, TimerPending, Skims, LiveIn
  <1>2. /\ now \in Nat /\ clock \in Nat /\ seq \in Nat /\ check \in Int
        /\ running \in Running
        /\ pending \in Seq(Pending)
    BY DEF IInv, QueueInv, QueueType, PhaseInv, PhaseType
  <1>3. /\ GateOf \in Gate
        /\ GateOf = "timers" <=> running.kind = "timer"
        /\ UntilOf \in Int
        /\ running.kind = "timer" => UntilOf = TimersUntil
        /\ GateOf = "immediates" => UntilOf = running.now /\ running.kind # "none"
    BY <1>2 DEF GateOf, UntilOf, Gate, Running, TimersUntil, Greatest
  <1>4. running.kind = "timer" => TimersUntil < now + Ms
    BY <1>2 DEF IInv, PhaseInv, TimesAgree, TimersUntil, Greatest, Running
  <1>5. /\ p \in Pending
        /\ p.from = GateOf /\ p.gate = GateOf
        /\ p.until = UntilOf /\ p.born = seq
    BY <1>2, <1>3 DEF Pending
  <1>6. \A e \in heap : ~(e.seq > seq)
    BY <1>2 DEF IInv, QueueInv, SeqsUnique, QueueType, Entry
  <1>7. GateClosed(p)
    <2>1. p.gate = "immediates" => p.until <= now
      BY <1>2, <1>3, <1>5 DEF IInv, PhaseInv, TimesAgree
    <2> QED BY <2>1, <1>3, <1>4, <1>5, <1>6 DEF GateClosed
  <1>8. UNCHANGED <<now, heap, clock, running, check>> /\ pending' = Append(pending, p)
    BY DEF TimerPending
  <1>9. PhaseType' /\ TimesAgree'
    BY <1>2, <1>5, <1>8 DEF IInv, PhaseInv, PhaseType, TimesAgree
  <1>10. GatesClosed'
    <2> SUFFICES ASSUME NEW k \in 1 .. Len(pending') PROVE GateClosed(pending[k])'
      BY DEF GatesClosed
    <2>1. \/ k \in 1 .. Len(pending) /\ pending'[k] = pending[k]
          \/ pending'[k] = p
      BY <1>2, <1>5, <1>8
    <2>2. GateClosed(pending'[k])
      BY <2>1, <1>7 DEF IInv, PhaseInv, GatesClosed
    <2> QED BY <2>2, <1>8 DEF GateClosed
  <1> QED BY <1>1, <1>9, <1>10 DEF IInv, PhaseInv

LEMMA PopDuePendingInv == ASSUME IInv, PopDuePending PROVE IInv'
  <1>1. Skims
    BY SkimKeepsLive DEF PopDuePending, Skims, LiveIn
  <1>2. QueueInv'
    BY <1>1, SkimsInv DEF IInv
  <1>3. GatesClosed' /\ pending' \in Seq(Pending)
    BY <1>1, GatesStayClosed
       DEF IInv, PhaseInv, PhaseType, PopDuePending, Skims
  <1>4. PhaseType' /\ TimesAgree'
    BY <1>3 DEF IInv, PhaseInv, PhaseType, TimesAgree, PopDuePending
  <1> QED BY <1>2, <1>3, <1>4 DEF IInv, PhaseInv

(* The timer that pops is the front one, and it is due.                    *)
LEMMA PoppedIsDue ==
    ASSUME IInv, NEW e \in heap, PopDueTimer(e)
    PROVE  /\ e \in LiveIn(heap)
           /\ e.at <= now
           /\ pending # << >> => \/ gate = "timers" /\ e.at <= until
                                 \/ gate = "immediates"
  <1>1. /\ now \in Nat
        /\ pending \in Seq(Pending)
        /\ heap \subseteq Entry
    BY DEF IInv, QueueInv, QueueType, PhaseInv, PhaseType
  <1>2. e \in LiveIn(heap) /\ \A f \in LiveIn(heap) : f = e \/ Before(e, f)
    BY DEF PopDueTimer, IsFront
  <1>3. \A f \in LiveIn(heap) : e.at <= f.at /\ f.at \in Nat /\ e.at \in Nat
    BY <1>1, <1>2 DEF Before, LiveIn, Entry
  <1>4. CASE pending = << >>
    <2>1. TimerIsDue
      BY <1>4 DEF PopDueTimer, WaitsForTimer
    <2> QED BY <2>1, <1>1, <1>2, <1>3, <1>4 DEF TimerIsDue, DueBy
  <1>5. CASE pending # << >>
    <2>1. TimersAhead
      BY <1>5 DEF PopDueTimer, WaitsForTimer, TimerIsDue
    <2>2. until \in Int
      <3>1. Head(pending) \in Pending
        BY <1>1, <1>5
      <3> QED BY <3>1 DEF until, Pending
    <2>3. Least(until, now) <= until /\ Least(until, now) <= now /\ Least(until, now) \in Int
      BY <2>2, <1>1 DEF Least
    <2> QED BY <2>1, <2>2, <2>3, <1>1, <1>2, <1>3 DEF TimersAhead, DueBy
  <1> QED BY <1>4, <1>5

(* The front gate that opens on the timers phase was an immediate's.       *)
LEMMA PopDueTimerGates ==
    ASSUME IInv, NEW e \in heap, PopDueTimer(e)
    PROVE  GatesClosed' /\ pending' \in Seq(Pending)
  <1>1. /\ now \in Nat /\ now' = now
        /\ pending \in Seq(Pending)
        /\ PhaseType /\ GatesClosed
    BY DEF IInv, PhaseInv, PhaseType, PopDueTimer
  <1>2. \A f \in heap' : f \in heap \/ (f.at >= now + Ms /\ f.at \in Nat)
    <2>1. /\ active[e.id] \in Timer
          /\ LongEnough(active[e.id].interval)
      BY PoppedIsDue DEF LiveIn, IInv, QueueInv, QueueType
    <2>2. CASE active[e.id].interval # NoInterval
      <3>1. active[e.id].interval \in Nat /\ active[e.id].interval >= Ms
        BY <2>1, <2>2 DEF Timer, LongEnough
      <3>2. heap' = (Skim(heap) \ {e})
                      \cup {[at |-> now + active[e.id].interval,
                             seq |-> seq + 1, id |-> e.id]}
        BY <2>2 DEF PopDueTimer, PopTimer
      <3> QED BY <3>1, <3>2, <1>1, SkimKeepsLive
    <2>3. CASE active[e.id].interval = NoInterval
      BY <2>3, SkimKeepsLive DEF PopDueTimer, PopTimer
    <2> QED BY <2>2, <2>3
  <1>3. CASE pending' = pending
    BY <1>1, <1>2, <1>3, GatesStayClosed
  <1>4. CASE pending # << >> /\ gate = "immediates"
    <2> DEFINE q == [pending[1] EXCEPT !.gate = "timers", !.until = now]
    <2>1. /\ 1 \in 1 .. Len(pending)
          /\ pending[1] \in Pending
          /\ gate = pending[1].gate
      BY <1>1, <1>4 DEF gate
    <2>2. pending' = [pending EXCEPT ![1] = q]
      BY <1>4 DEF PopDueTimer
    <2>3. q \in Pending /\ q.from = pending[1].from /\ q.gate = "timers"
      <3>1. PICK r \in Pending : r = pending[1]
        BY <2>1
      <3>2. [r EXCEPT !.gate = "timers"] \in Pending
        BY DEF Pending, Gate
      <3>3. q = [[r EXCEPT !.gate = "timers"] EXCEPT !.until = now]
        BY <3>1
      <3>4. PICK u \in Pending : u = [r EXCEPT !.gate = "timers"]
        BY <3>2
      <3>5. u.gate = "timers" /\ u.from = r.from
        BY <3>4 DEF Pending
      <3>6. now \in Int
        BY <1>1
      <3>7. [u EXCEPT !.until = now] \in Pending
        BY <3>6 DEF Pending
      <3>8. /\ [u EXCEPT !.until = now].from = u.from
            /\ [u EXCEPT !.until = now].gate = u.gate
        BY DEF Pending
      <3> QED BY <3>1, <3>3, <3>4, <3>5, <3>7, <3>8
    <2>4. q.from = "immediates"
      <3>1. GateClosed(pending[1])
        BY <2>1, <1>1 DEF GatesClosed
      <3> QED BY <3>1, <2>1, <2>3, <1>4 DEF GateClosed, Pending, Gate
    <2>5. /\ pending' \in Seq(Pending)
          /\ Len(pending') = Len(pending)
          /\ \A k \in 1 .. Len(pending) :
                pending'[k] = IF k = 1 THEN q ELSE pending[k]
      BY <2>1, <2>2, <2>3, <1>1
    <2>6. ASSUME NEW k \in 1 .. Len(pending') PROVE GateClosed(pending[k])'
      <3>1. CASE k = 1
        BY <3>1, <2>3, <2>4, <2>5 DEF GateClosed
      <3>2. CASE k # 1
        <4>1. pending'[k] = pending[k] /\ pending[k] \in Pending /\ GateClosed(pending[k])
          BY <3>2, <2>5, <1>1 DEF GatesClosed
        <4>2. \A p \in Pending : GateClosed(p) => GateClosed(p)'
          BY <1>1, <1>2, GateStaysClosed
        <4> QED BY <4>1, <4>2 DEF GateClosed
      <3> QED BY <3>1, <3>2
    <2> QED BY <2>5, <2>6 DEF GatesClosed
  <1> QED BY <1>3, <1>4 DEF PopDueTimer

LEMMA PopDueTimerInv ==
    ASSUME IInv, NEW e \in heap, PopDueTimer(e)
    PROVE  IInv'
  <1>1. /\ now \in Nat /\ clock \in Nat /\ seq \in Nat
        /\ e \in Entry /\ e \in LiveIn(heap) /\ e.id \in DOMAIN active
        /\ e.at <= now
        /\ active[e.id] \in Timer /\ LongEnough(active[e.id].interval)
    BY PoppedIsDue DEF IInv, QueueInv, QueueType, PhaseInv, PhaseType, LiveIn
  <1>2. immediates' \subseteq immediates /\ LiveIn(immediates) \subseteq immediates'
    BY SkimKeepsLive DEF PopDueTimer, LiveIn
  <1>3. QueueInv'
    <2>1. CASE active[e.id].interval # NoInterval
      <3> DEFINE f == [at |-> now + active[e.id].interval, seq |-> seq + 1,
                       id |-> e.id]
      <3>1. active[e.id].interval \in Nat
        BY <2>1, <1>1 DEF Timer
      <3>2. f \in Entry /\ f.seq = seq + 1 /\ f.id = e.id
        BY <3>1, <1>1 DEF Entry
      <3>3. Rearms(e, f)
        BY <3>2, <2>1, <1>1, <1>2 DEF Rearms, PopDueTimer, PopTimer
      <3> QED BY <3>3, RearmsInv DEF IInv
    <2>2. CASE active[e.id].interval = NoInterval
      <3>1. heap' = Skim(heap) \ {e}
        BY <2>2 DEF PopDueTimer, PopTimer
      <3>2. Retires(e.id)
        BY <3>1, <2>2, <1>1, <1>2, SkimKeepsLive
           DEF Retires, PopDueTimer, PopTimer, LiveIn
      <3> QED BY <3>2, RetiresInv DEF IInv
    <2> QED BY <2>1, <2>2
  <1>4. running' = [kind |-> "timer", now |-> now, deadline |-> e.at]
    BY DEF PopDueTimer, PopTimer
  <1>5. running' \in Running /\ running'.now = now /\ running'.deadline <= now
    BY <1>1, <1>4 DEF Running, Entry
  <1>6. GatesClosed' /\ pending' \in Seq(Pending)
    BY PopDueTimerGates
  <1>7. PhaseType' /\ TimesAgree'
    BY <1>5, <1>6 DEF IInv, PhaseInv, PhaseType, TimesAgree, PopDueTimer
  <1> QED BY <1>3, <1>6, <1>7 DEF IInv, PhaseInv

LEMMA PopDueImmediateInv ==
    ASSUME IInv, NEW e \in immediates, PopDueImmediate(e)
    PROVE  IInv'
  <1>1. /\ now \in Nat /\ clock \in Nat
        /\ e \in Entry /\ e.id \in DOMAIN active
    BY DEF IInv, QueueInv, QueueType, PhaseInv, PhaseType, PopDueImmediate,
           IsFront, LiveIn
  <1>2. /\ heap' \subseteq heap /\ LiveIn(heap) \subseteq heap'
        /\ immediates' = Skim(immediates) \ {e}
    BY SkimKeepsLive DEF PopDueImmediate, PopImmediate, LiveIn
  <1>3. Retires(e.id)
    BY <1>1, <1>2, SkimKeepsLive DEF Retires, PopDueImmediate, PopImmediate, LiveIn
  <1>4. QueueInv'
    BY <1>3, RetiresInv DEF IInv
  <1>5. running' = [kind |-> "immediate", now |-> now, deadline |-> 0]
    BY DEF PopDueImmediate, PopImmediate
  <1>6. running' \in Running /\ running'.now = now /\ running'.kind = "immediate"
    BY <1>1, <1>5 DEF Running
  <1>7. check' \in Int
    BY <1>1 DEF PopDueImmediate, PopImmediate, IInv, PhaseInv, PhaseType
  <1>8. PhaseType' /\ TimesAgree'
    BY <1>6, <1>7 DEF IInv, PhaseInv, PhaseType, TimesAgree, PopDueImmediate
  <1>9. GatesClosed'
    BY <1>2, GatesStayClosed DEF IInv, PhaseInv, PhaseType, PopDueImmediate
  <1> QED BY <1>4, <1>8, <1>9 DEF IInv, PhaseInv

(* A look at the fronts, at the end of a callback or any other time.       *)
LEMMA LooksInv ==
    ASSUME IInv, Skims, running' = running \/ running' = Idle,
           UNCHANGED <<clock, now, pending, check>>
    PROVE  IInv'
  <1>1. QueueInv'
    BY SkimsInv DEF IInv
  <1>2. GatesClosed'
    BY GatesStayClosed DEF IInv, PhaseInv, PhaseType, Skims
  <1>3. PhaseType' /\ TimesAgree'
    BY DEF IInv, PhaseInv, PhaseType, TimesAgree, Idle, Running
  <1> QED BY <1>1, <1>2, <1>3 DEF IInv, PhaseInv

LEMMA LookAtFrontsInv == ASSUME IInv, LookAtFronts PROVE IInv'
  <1>1. Skims
    BY SkimKeepsLive DEF LookAtFronts, Skims
  <1> QED BY <1>1, LooksInv DEF LookAtFronts

LEMMA CallbackDoneInv == ASSUME IInv, CallbackDone PROVE IInv'
  <1>1. Skims
    BY DEF CallbackDone, Skims, LiveIn
  <1> QED BY <1>1, LooksInv DEF CallbackDone

LEMMA StutterInv == ASSUME IInv, UNCHANGED vars PROVE IInv'
  <1>1. Skims
    BY DEF vars, Skims, LiveIn
  <1> QED BY <1>1, LooksInv DEF vars

-----------------------------------------------------------------------------
(* The invariant is inductive.                                             *)
LEMMA NextInv == IInv /\ [Next]_vars => IInv'
  <1> SUFFICES ASSUME IInv, [Next]_vars PROVE IInv'
    OBVIOUS
  <1>1. CASE Tick
    BY <1>1, TickInv
  <1>2. CASE StartTurn
    BY <1>2, StartTurnInv
  <1>3. ASSUME NEW id \in Ids, NEW ms \in Delays, NEW repeating \in BOOLEAN,
               Schedule(ms, repeating, id)
        PROVE  IInv'
    BY <1>3, ScheduleInv
  <1>4. ASSUME NEW id \in Ids, ScheduleImmediate(id) PROVE IInv'
    BY <1>4, ScheduleImmediateInv
  <1>5. ASSUME NEW id \in Ids, Cancel(id) PROVE IInv'
    BY <1>5, CancelInv
  <1>6. ASSUME NEW id \in Ids, NEW value \in BOOLEAN, SetRef(id, value)
        PROVE  IInv'
    BY <1>6, SetRefInv
  <1>7. CASE TimerPending
    BY <1>7, TimerPendingInv
  <1>8. CASE PopDue
    BY <1>8, PopDuePendingInv, PopDueTimerInv, PopDueImmediateInv DEF PopDue
  <1>9. CASE LookAtFronts
    BY <1>9, LookAtFrontsInv
  <1>10. CASE CallbackDone
    BY <1>10, CallbackDoneInv
  <1>11. CASE UNCHANGED vars
    BY <1>11, StutterInv
  <1> QED BY <1>1, <1>2, <1>3, <1>4, <1>5, <1>6, <1>7, <1>8, <1>9, <1>10, <1>11
          DEF Next

(* The timer queue's variables keep their types.                           *)
THEOREM TypeCorrect == Spec => []TypeOK
  BY InitInv, NextInv, Types, PTL DEF Spec

(* ref_count is the number of live ref'd timers.                           *)
THEOREM RefCountIsExact == Spec => []RefCountExact
  <1>1. IInv => RefCountExact
    BY DEF IInv, QueueInv
  <1> QED BY <1>1, InitInv, NextInv, PTL DEF Spec

(* Every live timer keeps its own entry in a queue, wrapped ids or not.    *)
THEOREM TimersAreKept == Spec => []NoTimerLost
  <1>1. IInv => NoTimerLost
    BY DEF IInv, QueueInv
  <1> QED BY <1>1, InitInv, NextInv, PTL DEF Spec

(* Until the ids have gone once round, no entry of a cancelled timer can   *)
(* be taken for a live one's.                                              *)
THEOREM EntriesOwnUntilWrap == Spec => []EntriesAreOwnUntilWrap
  <1>1. IInv => EntriesAreOwnUntilWrap
    BY DEF IInv, QueueInv
  <1> QED BY <1>1, InitInv, NextInv, PTL DEF Spec

-----------------------------------------------------------------------------
(* Only pop_due starts a timer's or an immediate's callback.               *)
LEMMA RanIsPopped ==
    ASSUME IInv, [Next]_vars
    PROVE  /\ \A e \in heap : RanTimer(e) => PopDueTimer(e)
           /\ \A e \in immediates : RanImmediate(e) => PopDueImmediate(e)
  <1>1. ASSUME NEW e \in heap, RanTimer(e) PROVE PopDueTimer(e)
    <2>1. running = Idle /\ running'.kind = "timer" /\ e \in LiveIn(heap) /\ e \notin heap'
      BY <1>1 DEF RanTimer
    <2>2. running' # running
      BY <2>1 DEF Idle
    <2>3. \/ \E f \in heap : PopDueTimer(f)
          \/ \E f \in immediates : PopDueImmediate(f)
      BY <2>1, <2>2
         DEF Next, vars, Tick, StartTurn, Schedule, ScheduleImmediate, Cancel,
             SetRef, TimerPending, PopDue, PopDuePending, LookAtFronts,
             CallbackDone
    <2>4. ASSUME NEW f \in immediates, PopDueImmediate(f) PROVE FALSE
      BY <2>1, <2>4 DEF PopDueImmediate, PopImmediate
    <2>5. PICK f \in heap : PopDueTimer(f)
      BY <2>3, <2>4
    <2>6. f = e
      BY <2>1, <2>5, SkimKeepsLive DEF PopDueTimer, PopTimer
    <2> QED BY <2>5, <2>6
  <1>2. ASSUME NEW e \in immediates, RanImmediate(e) PROVE PopDueImmediate(e)
    <2>1. /\ running = Idle /\ running'.kind = "immediate"
          /\ e \in LiveIn(immediates) /\ e \notin immediates'
      BY <1>2 DEF RanImmediate
    <2>2. running' # running
      BY <2>1 DEF Idle
    <2>3. \/ \E f \in heap : PopDueTimer(f)
          \/ \E f \in immediates : PopDueImmediate(f)
      BY <2>1, <2>2
         DEF Next, vars, Tick, StartTurn, Schedule, ScheduleImmediate, Cancel,
             SetRef, TimerPending, PopDue, PopDuePending, LookAtFronts,
             CallbackDone
    <2>4. ASSUME NEW f \in heap, PopDueTimer(f) PROVE FALSE
      BY <2>1, <2>4 DEF PopDueTimer, PopTimer
    <2>5. PICK f \in immediates : PopDueImmediate(f)
      BY <2>3, <2>4
    <2>6. f = e
      BY <2>1, <2>5, SkimKeepsLive DEF PopDueImmediate, PopImmediate
    <2> QED BY <2>5, <2>6
  <1> QED BY <1>1, <1>2

(* What runs is due ...                                                    *)
LEMMA RanIsDue ==
    ASSUME IInv, [Next]_vars, NEW e \in heap, RanTimer(e)
    PROVE  e.at <= clock
  <1>1. e.at <= now
    BY RanIsPopped, PoppedIsDue
  <1>2. now <= clock /\ now \in Nat /\ clock \in Nat /\ e.at \in Nat
    BY DEF IInv, PhaseInv, PhaseType, TimesAgree, QueueInv, QueueType, Entry
  <1> QED BY <1>1, <1>2

(* ... and was set before the pending callback it runs ahead of: what that *)
(* waits for ends less than a millisecond past the turn it was queued in,  *)
(* and no delay is shorter.                                                *)
LEMMA RanIsOlder ==
    ASSUME IInv, [Next]_vars, pending # << >>, Head(pending).from # "immediates",
           NEW e \in heap \cup immediates, RanTimer(e) \/ RanImmediate(e)
    PROVE  e.seq <= Head(pending).born
  <1>1. /\ Head(pending) \in Pending
        /\ Head(pending) = pending[1]
        /\ 1 \in 1 .. Len(pending)
    BY DEF IInv, PhaseInv, PhaseType
  <1>2. GateClosed(Head(pending))
    BY <1>1 DEF IInv, PhaseInv, GatesClosed
  <1>3. gate # "immediates"
    BY <1>1, <1>2 DEF gate, GateClosed, Pending, Gate
  <1>4. ASSUME e \in immediates, RanImmediate(e) PROVE FALSE
    BY <1>3, <1>4, RanIsPopped
       DEF PopDueImmediate, WaitsForImmediate, ImmediateIsDue
  <1>5. e \in heap /\ RanTimer(e)
    BY <1>4 DEF RanTimer, RanImmediate, LiveIn
  <1>6. gate = "timers" /\ e.at <= until
    BY <1>3, <1>5, RanIsPopped, PoppedIsDue
  <1>7. ~(e.at > until)
    <2>1. e.at \in Nat /\ until \in Int
      BY <1>1, <1>5 DEF IInv, QueueInv, QueueType, Entry, until, Pending
    <2> QED BY <1>6, <2>1
  <1>8. Head(pending).from = "timers"
    BY <1>1, <1>2, <1>6 DEF GateClosed, gate, Pending, Gate
  <1>9. ~(e.seq > Head(pending).born)
    BY <1>2, <1>5, <1>7, <1>8 DEF GateClosed, until
  <1>10. e.seq \in Nat /\ Head(pending).born \in Nat
    BY <1>1, <1>5 DEF IInv, QueueInv, QueueType, Entry, Pending
  <1> QED BY <1>9, <1>10

(* No timer runs before its deadline.                                      *)
THEOREM NeverEarly == Spec => TimersNeverEarly
  <1>1. IInv /\ [Next]_vars =>
          [\A e \in heap : RanTimer(e) => e.at <= clock]_vars
    BY RanIsDue
  <1> QED BY <1>1, InitInv, NextInv, PTL DEF Spec, TimersNeverEarly

(* A pending callback of the main script, of I/O or of a timer runs before *)
(* every timer and immediate set after it.                                 *)
THEOREM NotOvertaken == Spec => PendingNotOvertaken
  <1>1. IInv /\ [Next]_vars =>
          [pending # << >> /\ Head(pending).from # "immediates" =>
             \A e \in heap \cup immediates :
                RanTimer(e) \/ RanImmediate(e) => e.seq <= Head(pending).born]_vars
    BY RanIsOlder
  <1> QED BY <1>1, InitInv, NextInv, PTL DEF Spec, PendingNotOvertaken

-----------------------------------------------------------------------------
(* The queue implements NodeTimers.  First, what each kind of operation    *)
(* does to the timers that are seen; until the ids wrap an entry is its    *)
(* timer's only one, so that a cancel takes one away and a set adds one.   *)

LEMMA SeenFields ==
    ASSUME NEW e, NEW kind
    PROVE  /\ AsSeen(e, kind).kind = kind /\ AsSeen(e, kind).at = e.at
           /\ AsSeen(e, kind).seq = e.seq
           /\ AsSeen(e, kind).interval = active[e.id].interval
           /\ AsSeen(e, kind).is_ref = active[e.id].is_ref
  BY DEF AsSeen

(* The places an entry may be in.                                          *)
InQueue(e, kind) ==
    \/ kind = "timer" /\ e \in LiveIn(heap)
    \/ kind = "immediate" /\ e \in LiveIn(immediates)

LEMMA SeenIff ==
    /\ \A t : t \in SeenTimers <=> \E e, kind : InQueue(e, kind) /\ t = AsSeen(e, kind)
    /\ \A t : t \in SeenTimers' <=> \E e, kind : InQueue(e, kind)' /\ t = AsSeen(e, kind)'
  <1>1. \A t : t \in SeenTimers <=> \E e, kind : InQueue(e, kind) /\ t = AsSeen(e, kind)
    BY DEF SeenTimers, InQueue
  <1>2. \A t : t \in SeenTimers' <=> \E e, kind : InQueue(e, kind)' /\ t = AsSeen(e, kind)'
    BY DEF SeenTimers, InQueue
  <1> QED BY <1>1, <1>2

(* An entry is seen as itself, in its own queue.                           *)
LEMMA SeenOnce ==
    ASSUME QueueInv, NEW e, NEW k, NEW f, NEW j, InQueue(e, k), InQueue(f, j),
           e.seq = f.seq
    PROVE  e = f /\ k = j
  BY DEF QueueInv, SeqsUnique, InQueue, LiveIn

(* Until the ids wrap a live id has one entry.                             *)
LEMMA OneEntry ==
    ASSUME QueueInv, seq <= IdMax, NEW id \in DOMAIN active
    PROVE  \E e, k : /\ InQueue(e, k) /\ e.id = id
                     /\ \A f, j : InQueue(f, j) /\ f.id = id => f = e /\ j = k
  <1>1. PICK e \in heap \cup immediates : e.id = id /\ e.seq = active[id].seq
    BY DEF QueueInv, NoTimerLost
  <1>2. PICK k : InQueue(e, k)
    BY <1>1 DEF InQueue, LiveIn
  <1>3. ASSUME NEW f, NEW j, InQueue(f, j), f.id = id PROVE f = e /\ j = k
    <2>1. f \in heap \cup immediates
      BY <1>3 DEF InQueue, LiveIn
    <2>2. f.seq = active[id].seq
      BY <1>3, <2>1 DEF QueueInv, EntriesAreOwnUntilWrap, EntriesAreOwn
    <2> QED BY <2>2, <1>1, <1>2, <1>3, SeenOnce
  <1> QED BY <1>1, <1>2, <1>3

LEMMA SkimsSeen == ASSUME Skims PROVE SeenTimers' = SeenTimers
  <1>1. \A e, k : InQueue(e, k)' <=> InQueue(e, k)
    BY DEF Skims, InQueue, LiveIn
  <1>2. \A e, k : AsSeen(e, k)' = AsSeen(e, k)
    BY DEF Skims, AsSeen
  <1> QED BY <1>1, <1>2, SeenIff

LEMMA InsertsSeen ==
    ASSUME QueueInv, seq' <= IdMax, NEW id \in Ids, NEW interval \in Nat \cup {NoInterval},
           NEW e, Inserts(id, interval, e)
    PROVE  \E t : /\ t \notin SeenTimers /\ SeenTimers' = SeenTimers \cup {t}
                  /\ t.kind = (IF heap' = heap THEN "immediate" ELSE "timer")
                  /\ t.at = e.at /\ t.seq = seq + 1 /\ t.interval = interval /\ t.is_ref
  <1>1. /\ seq \in Nat /\ seq' = seq + 1 /\ seq < IdMax
        /\ e.seq = seq + 1 /\ e.id = id /\ TakesFreeId(id)
        /\ active' = Put(active, id, [interval |-> interval, is_ref |-> TRUE, seq |-> seq + 1])
    BY DEF QueueInv, QueueType, Inserts, Insert
  <1>2. id = next_id
    BY <1>1, FreshId DEF QueueInv
  <1>3. \A f \in heap \cup immediates : f.id # id /\ f.seq # seq + 1
    BY <1>1, <1>2 DEF QueueInv, NoWrapYet, SeqsUnique, QueueType, Entry, Ids
  <1>4. /\ DOMAIN active' = DOMAIN active \cup {id}
        /\ \A i \in DOMAIN active : i # id => active'[i] = active[i]
        /\ active'[id].interval = interval /\ active'[id].is_ref
    BY <1>1 DEF Put
  <1>5. PICK k : /\ k = "timer" /\ heap' = heap \cup {e} /\ immediates' = immediates
                 \/ /\ k = "immediate" /\ immediates' = immediates \cup {e} /\ heap' = heap
    BY DEF Inserts
  <1>6. k = (IF heap' = heap THEN "immediate" ELSE "timer")
    BY <1>1, <1>3, <1>5
  <1>7. \A f, j : InQueue(f, j)' <=> InQueue(f, j) \/ (f = e /\ j = k)
    BY <1>1, <1>3, <1>4, <1>5 DEF InQueue, LiveIn
  <1>8. \A f, j : InQueue(f, j) => AsSeen(f, j)' = AsSeen(f, j)
    BY <1>3, <1>4 DEF InQueue, LiveIn, AsSeen
  <1>9. PICK t : /\ AsSeen(e, k)' = t
                 /\ t.kind = k /\ t.at = e.at /\ t.seq = e.seq
                 /\ t.interval = interval /\ t.is_ref
    <2>1. AsSeen(e, k)' = [kind |-> k, at |-> e.at, seq |-> e.seq,
                           interval |-> active'[e.id].interval,
                           is_ref |-> active'[e.id].is_ref]
      BY DEF AsSeen
    <2> QED BY <2>1, <1>1, <1>4
  <1>10. SeenTimers' = SeenTimers \cup {t}
    BY <1>7, <1>8, <1>9, SeenIff
  <1>11. t \notin SeenTimers
    BY <1>1, <1>3, <1>9, SeenIff, SeenFields DEF InQueue, LiveIn
  <1> QED BY <1>1, <1>6, <1>9, <1>10, <1>11

LEMMA RetiresSeen ==
    ASSUME QueueInv, seq <= IdMax, NEW e, NEW k, InQueue(e, k), Retires(e.id)
    PROVE  SeenTimers' = SeenTimers \ {AsSeen(e, k)}
  <1>1. /\ e.id \in DOMAIN active /\ DOMAIN active' = DOMAIN active \ {e.id}
        /\ \A i \in DOMAIN active' : active'[i] = active[i]
    BY DEF Retires, Drop
  <1>2. \A f, j : InQueue(f, j) /\ f.id = e.id => f = e /\ j = k
    BY <1>1, OneEntry
  <1>3. \A f, j : InQueue(f, j)' <=> InQueue(f, j) /\ ~(f = e /\ j = k)
    BY <1>1, <1>2 DEF InQueue, LiveIn, Retires
  <1>4. \A f, j : InQueue(f, j)' => AsSeen(f, j)' = AsSeen(f, j)
    BY <1>1 DEF InQueue, LiveIn, AsSeen
  <1>5. \A f, j : InQueue(f, j) /\ AsSeen(f, j) = AsSeen(e, k) => f = e /\ j = k
    BY SeenFields, SeenOnce
  <1> QED BY <1>3, <1>4, <1>5, SeenIff

LEMMA SeqField ==
    ASSUME NEW k, NEW a, NEW s, NEW i, NEW r, NEW u
    PROVE  [[kind |-> k, at |-> a, seq |-> s, interval |-> i, is_ref |-> r] EXCEPT !.seq = u]
              = [kind |-> k, at |-> a, seq |-> u, interval |-> i, is_ref |-> r]
  OBVIOUS

LEMMA RearmedFields ==
    ASSUME NEW e, NEW b, NEW u
    PROVE  [AsSeen(e, "timer") EXCEPT !.at = b, !.seq = u]
              = [kind |-> "timer", at |-> b, seq |-> u,
                 interval |-> active[e.id].interval, is_ref |-> active[e.id].is_ref]
  <1> DEFINE i == active[e.id].interval
             r == active[e.id].is_ref
  <1>1. [AsSeen(e, "timer") EXCEPT !.at = b]
           = [kind |-> "timer", at |-> b, seq |-> e.seq, interval |-> i, is_ref |-> r]
    BY DEF AsSeen
  <1>2. [[kind |-> "timer", at |-> b, seq |-> e.seq, interval |-> i, is_ref |-> r]
            EXCEPT !.seq = u]
           = [kind |-> "timer", at |-> b, seq |-> u, interval |-> i, is_ref |-> r]
    BY SeqField
  <1>3. [[AsSeen(e, "timer") EXCEPT !.at = b] EXCEPT !.seq = u]
           = [kind |-> "timer", at |-> b, seq |-> u, interval |-> i, is_ref |-> r]
    BY <1>1, <1>2, Zenon
  <1>4. [AsSeen(e, "timer") EXCEPT !.at = b, !.seq = u]
           = [[AsSeen(e, "timer") EXCEPT !.at = b] EXCEPT !.seq = u]
    BY Zenon
  <1> QED BY <1>3, <1>4, Zenon

LEMMA RearmsSeen ==
    ASSUME QueueInv, seq <= IdMax, NEW e, NEW f, Rearms(e, f)
    PROVE  SeenTimers' = (SeenTimers \ {AsSeen(e, "timer")})
                            \cup {[AsSeen(e, "timer") EXCEPT !.at = f.at, !.seq = seq + 1]}
  <1>1. /\ e \in LiveIn(heap) /\ f.seq = seq + 1 /\ f.id = e.id /\ e.id \in DOMAIN active
        /\ active' = [active EXCEPT ![e.id].seq = seq + 1]
        /\ InQueue(e, "timer")
    BY DEF Rearms, LiveIn, InQueue
  <1>2. /\ DOMAIN active' = DOMAIN active
        /\ \A i \in DOMAIN active : /\ active'[i].interval = active[i].interval
                                    /\ active'[i].is_ref = active[i].is_ref
    BY <1>1 DEF QueueInv, QueueType, Timer
  <1>3. \A g, j : InQueue(g, j) /\ g.id = e.id => g = e /\ j = "timer"
    BY <1>1, OneEntry
  <1>4. f \notin heap /\ f \notin immediates
    BY <1>1 DEF QueueInv, SeqsUnique, QueueType
  <1>5. \A g, j : InQueue(g, j)' <=> \/ InQueue(g, j) /\ ~(g = e /\ j = "timer")
                                     \/ g = f /\ j = "timer"
    BY <1>1, <1>2, <1>4, SkimKeepsLive DEF InQueue, LiveIn, Rearms
  <1>6. \A g, j : InQueue(g, j) => AsSeen(g, j)' = AsSeen(g, j)
    BY <1>2 DEF InQueue, LiveIn, AsSeen
  <1>7. AsSeen(f, "timer")' = [AsSeen(e, "timer") EXCEPT !.at = f.at, !.seq = seq + 1]
    <2>1. AsSeen(f, "timer")' = [kind |-> "timer", at |-> f.at, seq |-> f.seq,
                                 interval |-> active[e.id].interval,
                                 is_ref |-> active[e.id].is_ref]
      BY <1>1, <1>2 DEF AsSeen
    <2>2. [AsSeen(e, "timer") EXCEPT !.at = f.at, !.seq = f.seq]
             = [kind |-> "timer", at |-> f.at, seq |-> f.seq,
                interval |-> active[e.id].interval, is_ref |-> active[e.id].is_ref]
      BY RearmedFields
    <2>3. f.seq = seq + 1
      BY <1>1
    <2> QED BY <2>1, <2>2, <2>3, Zenon
  <1>8. \A g, j : InQueue(g, j) /\ AsSeen(g, j) = AsSeen(e, "timer") => g = e /\ j = "timer"
    BY <1>1, SeenFields, SeenOnce
  <1> QED BY <1>5, <1>6, <1>7, <1>8, SeenIff

LEMMA FlipsSeen ==
    ASSUME QueueInv, seq <= IdMax, NEW id, NEW value \in BOOLEAN, Flips(id, value)
    PROVE  \E t \in SeenTimers :
              SeenTimers' = (SeenTimers \ {t}) \cup {[t EXCEPT !.is_ref = value]}
  <1>1. id \in DOMAIN active /\ active' = [active EXCEPT ![id].is_ref = value]
    BY DEF Flips
  <1>2. PICK e, k : /\ InQueue(e, k) /\ e.id = id
                    /\ \A f, j : InQueue(f, j) /\ f.id = id => f = e /\ j = k
    BY <1>1, OneEntry
  <1>3. \A f, j : InQueue(f, j)' <=> InQueue(f, j)
    BY <1>1 DEF Flips, InQueue, LiveIn
  <1>4. \A f, j : InQueue(f, j) /\ f.id # id => AsSeen(f, j)' = AsSeen(f, j)
    BY <1>1 DEF AsSeen, InQueue, LiveIn
  <1>5. AsSeen(e, k)' = [AsSeen(e, k) EXCEPT !.is_ref = value]
    <2>1. active[id] \in Timer
      BY <1>1 DEF QueueInv, QueueType
    <2>2. active'[id].interval = active[id].interval /\ active'[id].is_ref = value
      BY <1>1, <2>1 DEF Timer
    <2> QED BY <1>2, <2>2 DEF AsSeen
  <1>6. \A f, j : InQueue(f, j) /\ AsSeen(f, j) = AsSeen(e, k) => f = e /\ j = k
    BY <1>2, SeenFields, SeenOnce
  <1>7. SeenTimers' = (SeenTimers \ {AsSeen(e, k)}) \cup {[AsSeen(e, k) EXCEPT !.is_ref = value]}
    BY <1>2, <1>3, <1>4, <1>5, <1>6, SeenIff
  <1> QED BY <1>2, <1>7, SeenIff

(* The pending callbacks that are seen, one by one.                        *)
PendingSeen ==
    /\ SeenPending \in Seq([born : Nat, from : Gate, until : Int])
    /\ Len(SeenPending) = Len(pending)
    /\ \A k \in 1 .. Len(pending) :
          /\ SeenPending[k].born = pending[k].born
          /\ SeenPending[k].from = pending[k].from
          /\ pending[k].from = "timers" => SeenPending[k].until = pending[k].until
    /\ SeenPending = << >> <=> pending = << >>
    /\ pending # << >> => /\ Head(SeenPending) = SeenPending[1]
                          /\ Head(pending) = pending[1] /\ 1 \in 1 .. Len(pending)

LEMMA PendingFields == IInv => PendingSeen
  <1> SUFFICES ASSUME IInv PROVE PendingSeen
    OBVIOUS
  <1>1. Len(pending) \in Nat /\ \A k \in 1 .. Len(pending) : pending[k] \in Pending
    BY DEF IInv, PhaseInv, PhaseType
  <1>2. \A k \in 1 .. Len(pending) :
           [born |-> pending[k].born, from |-> pending[k].from,
            until |-> IF pending[k].from = "timers" THEN pending[k].until ELSE 0]
              \in [born : Nat, from : Gate, until : Int]
    BY <1>1 DEF Pending
  <1>3. SeenPending \in Seq([born : Nat, from : Gate, until : Int])
    BY <1>1, <1>2 DEF SeenPending
  <1>4. Len(SeenPending) = Len(pending)
    BY <1>1 DEF SeenPending
  <1>5. \A k \in 1 .. Len(pending) :
                 /\ SeenPending[k].born = pending[k].born
                 /\ SeenPending[k].from = pending[k].from
                 /\ pending[k].from = "timers" => SeenPending[k].until = pending[k].until
    BY DEF SeenPending
  <1>6. pending \in Seq(Pending)
    BY DEF IInv, PhaseInv, PhaseType
  <1> QED BY <1>1, <1>3, <1>4, <1>5, <1>6 DEF PendingSeen

(* The loop has a reason to go on exactly when a ref'd timer or a pending  *)
(* callback is seen.                                                       *)
LEMMA AliveSeen == IInv => (has_ref_timers <=> Node!KeepsAlive)
  <1> SUFFICES ASSUME IInv PROVE has_ref_timers <=> Node!KeepsAlive
    OBVIOUS
  <1>1. IsFiniteSet(refs(active)) /\ Cardinality(refs(active)) \in Nat
    BY RefsFinite DEF IInv, QueueInv, QueueType
  <1>2. ref_count > 0 <=> refs(active) # {}
    BY <1>1, FS_EmptySet DEF IInv, QueueInv, RefCountExact
  <1>3. ASSUME refs(active) # {} PROVE \E t \in SeenTimers : t.is_ref
    <2>1. PICK i \in DOMAIN active : active[i].is_ref
      BY <1>3 DEF refs
    <2>2. PICK e \in heap \cup immediates : e.id = i
      BY DEF IInv, QueueInv, NoTimerLost
    <2>3. PICK k : InQueue(e, k)
      BY <2>1, <2>2 DEF InQueue, LiveIn
    <2> QED BY <2>1, <2>2, <2>3, SeenIff, SeenFields
  <1>4. ASSUME NEW t \in SeenTimers, t.is_ref PROVE refs(active) # {}
    <2>1. PICK e, k : InQueue(e, k) /\ t = AsSeen(e, k)
      BY SeenIff
    <2> QED BY <1>4, <2>1, SeenFields DEF InQueue, LiveIn, refs
  <1>5. SeenPending = << >> <=> pending = << >>
    BY PendingFields DEF PendingSeen
  <1> QED BY <1>2, <1>3, <1>4, <1>5 DEF has_ref_timers, Node!KeepsAlive

-----------------------------------------------------------------------------
(* Now the steps.  A look at the fronts is none.                           *)
NodeSteps ==
    Node!Step \/ UNCHANGED <<clock, now, seq, SeenTimers, SeenPending, running.kind>>

LEMMA LooksNode ==
    ASSUME Skims, running' = running \/ running' = Idle, UNCHANGED <<clock, now, pending>>
    PROVE  NodeSteps
  <1>1. SeenTimers' = SeenTimers /\ SeenPending' = SeenPending /\ seq' = seq
    BY SkimsSeen DEF SeenPending, Skims
  <1>2. running'.kind = running.kind \/ (running.kind # "none" /\ running'.kind = "none")
    BY DEF Idle
  <1> QED BY <1>1, <1>2 DEF NodeSteps, Node!Step, Node!CallbackDone

LEMMA StartsNode ==
    ASSUME Skims, running = Idle, now' = clock, UNCHANGED <<clock, pending, running>>
    PROVE  NodeSteps
  <1>1. SeenTimers' = SeenTimers /\ SeenPending' = SeenPending /\ seq' = seq
    BY SkimsSeen DEF SeenPending, Skims
  <1> QED BY <1>1 DEF NodeSteps, Node!Step, Node!StartTurn, Idle

LEMMA TickNode == ASSUME IInv, Tick PROVE NodeSteps
  <1>1. Skims /\ clock' > clock
    BY DEF IInv, PhaseInv, PhaseType, Tick, Skims, LiveIn
  <1>2. SeenTimers' = SeenTimers /\ SeenPending' = SeenPending
    BY <1>1, SkimsSeen DEF SeenPending, Tick
  <1> QED BY <1>1, <1>2 DEF NodeSteps, Node!Step, Node!Tick, Tick

LEMMA ScheduleNode ==
    ASSUME IInv, NEW ms \in Delays, NEW repeating \in BOOLEAN, NEW id \in Ids,
           Schedule(ms, repeating, id), seq' <= IdMax
    PROVE  NodeSteps
  <1> DEFINE e == [at |-> clock + Clamped(ms), seq |-> seq + 1, id |-> id]
             interval == IF repeating THEN Clamped(ms) ELSE NoInterval
  <1>1. Clamped(ms) \in Nat /\ Clamped(ms) >= Ms /\ clock \in Nat /\ seq \in Nat
    BY ClampedDelay DEF IInv, QueueInv, QueueType, PhaseInv, PhaseType
  <1>2. e \in Entry /\ e.seq = seq + 1 /\ e.id = id /\ e.at = clock + Clamped(ms)
    BY <1>1 DEF Entry
  <1>3. interval \in Nat \cup {NoInterval} /\ Inserts(id, interval, e)
    BY <1>1, <1>2 DEF Inserts, Schedule
  <1>4. heap' # heap
    <2>1. e \notin heap
      BY <1>1, <1>2 DEF IInv, QueueInv, QueueType, SeqsUnique, Entry
    <2>2. e \in heap'
      BY DEF Schedule
    <2> QED BY <2>1, <2>2
  <1>5. PICK t : /\ t \notin SeenTimers /\ SeenTimers' = SeenTimers \cup {t}
                 /\ t.kind = "timer" /\ t.at = e.at /\ t.seq = seq + 1
                 /\ t.interval = interval /\ t.is_ref
    <2>1. PICK t : /\ t \notin SeenTimers /\ SeenTimers' = SeenTimers \cup {t}
                   /\ t.kind = (IF heap' = heap THEN "immediate" ELSE "timer")
                   /\ t.at = e.at /\ t.seq = seq + 1 /\ t.interval = interval /\ t.is_ref
      <3> HIDE DEF e, interval
      <3> QED BY <1>3, InsertsSeen DEF IInv
    <2> QED BY <1>4, <2>1
  <1>6. /\ UNCHANGED <<clock, now, SeenPending, running.kind>> /\ seq' = seq + 1
    BY DEF Schedule, Insert, SeenPending
  <1>7. /\ t.at >= clock + Ms
        /\ t.interval # Node!NoInterval => t.at = clock + t.interval
    BY <1>1, <1>2, <1>5 DEF NoInterval, Node!NoInterval
  <1>8. Node!SetTimeout(t)
    BY <1>5, <1>6, <1>7 DEF Node!SetTimeout, Node!New
  <1> QED BY <1>5, <1>8 DEF NodeSteps, Node!Step

LEMMA ScheduleImmediateNode ==
    ASSUME IInv, NEW id \in Ids, ScheduleImmediate(id), seq' <= IdMax
    PROVE  NodeSteps
  <1> DEFINE e == [at |-> clock, seq |-> seq + 1, id |-> id]
  <1>1. clock \in Nat /\ seq \in Nat
    BY DEF IInv, QueueInv, QueueType, PhaseInv, PhaseType
  <1>2. e \in Entry /\ e.seq = seq + 1 /\ e.id = id /\ e.at = clock
    BY <1>1 DEF Entry
  <1>3. Inserts(id, NoInterval, e) /\ heap' = heap
    BY <1>2 DEF Inserts, ScheduleImmediate
  <1>4. PICK t : /\ t \notin SeenTimers /\ SeenTimers' = SeenTimers \cup {t}
                 /\ t.kind = "immediate" /\ t.at = e.at /\ t.seq = seq + 1
                 /\ t.interval = NoInterval /\ t.is_ref
    BY <1>3, InsertsSeen DEF IInv
  <1>5. /\ UNCHANGED <<clock, now, SeenPending, running.kind>> /\ seq' = seq + 1
    BY DEF ScheduleImmediate, Insert, SeenPending
  <1>6. Node!SetImmediate(t)
    BY <1>2, <1>4, <1>5 DEF Node!SetImmediate, Node!New, NoInterval, Node!NoInterval
  <1> QED BY <1>4, <1>6 DEF NodeSteps, Node!Step

LEMMA CancelNode ==
    ASSUME IInv, NEW id \in Ids, Cancel(id), seq' <= IdMax
    PROVE  NodeSteps
  <1>1. Retires(id)
    <2>1. /\ heap' \subseteq heap
          /\ immediates' \subseteq immediates
          /\ \A e \in heap : e.id \in DOMAIN active' => e \in heap'
          /\ \A e \in immediates : e.id \in DOMAIN active' => e \in immediates'
      BY DEF Cancel, Purged
    <2>2. DOMAIN active' = DOMAIN active \ {id}
      BY DEF Cancel, Drop
    <2> QED BY <2>1, <2>2 DEF Cancel, Retires
  <1>2. PICK e, k : InQueue(e, k) /\ e.id = id
    BY OneEntry DEF IInv, Cancel
  <1>3. SeenTimers' = SeenTimers \ {AsSeen(e, k)}
    BY <1>1, <1>2, RetiresSeen DEF IInv, Cancel
  <1>4. UNCHANGED <<clock, now, seq, SeenPending, running.kind>>
    BY DEF Cancel, SeenPending
  <1>5. AsSeen(e, k) \in SeenTimers
    BY <1>2, SeenIff
  <1> QED BY <1>3, <1>4, <1>5 DEF NodeSteps, Node!Step, Node!Clear

LEMMA SetRefNode ==
    ASSUME IInv, NEW id \in Ids, NEW value \in BOOLEAN, SetRef(id, value), seq' <= IdMax
    PROVE  NodeSteps
  <1>1. Flips(id, value)
    BY DEF SetRef, Flips
  <1>2. PICK t \in SeenTimers :
           SeenTimers' = (SeenTimers \ {t}) \cup {[t EXCEPT !.is_ref = value]}
    BY <1>1, FlipsSeen DEF IInv, SetRef
  <1>3. UNCHANGED <<clock, now, seq, SeenPending, running.kind>>
    BY DEF SetRef, SeenPending
  <1>4. Node!SetRef(t, value)
    BY <1>2, <1>3, Zenon DEF Node!SetRef
  <1> QED BY <1>4 DEF NodeSteps, Node!Step

LEMMA TimerPendingNode == ASSUME IInv, TimerPending PROVE NodeSteps
  <1> DEFINE p == [gate |-> GateOf, until |-> UntilOf, born |-> seq,
                   from |-> GateOf, phase |-> check]
             n == Len(pending) + 1
  <1>1. /\ pending \in Seq(Pending) /\ pending' = Append(pending, p)
        /\ running \in Running /\ seq \in Nat /\ now \in Nat
    BY DEF TimerPending, IInv, PhaseInv, PhaseType, QueueInv, QueueType
  <1>2. IInv'
    BY TimerPendingInv
  <1>3. pending' \in Seq(Pending)
    BY <1>2 DEF IInv, PhaseInv, PhaseType
  <1>4. /\ Len(pending') = n /\ n \in 1 .. Len(pending') /\ pending'[n] = p
        /\ \A k \in 1 .. Len(pending) : pending'[k] = pending[k]
    BY <1>1
  <1>5. /\ SeenPending' \in Seq([born : Nat, from : Gate, until : Int])
        /\ Len(SeenPending') = n
        /\ SeenPending'[n] = [born |-> p.born, from |-> p.from,
                              until |-> IF p.from = "timers" THEN p.until ELSE 0]
        /\ \A k \in 1 .. Len(pending) : SeenPending'[k] = SeenPending[k]
    <2>1. SeenPending' \in Seq([born : Nat, from : Gate, until : Int]) /\ Len(SeenPending') = n
      <3>1. PendingSeen'
        BY <1>2, PendingFields, PTL
      <3> QED BY <3>1, <1>4 DEF PendingSeen
    <2>2. ASSUME NEW k \in 1 .. Len(pending) PROVE SeenPending'[k] = SeenPending[k]
      BY <1>1, <1>4 DEF SeenPending
    <2> QED BY <2>1, <2>2, <1>1, <1>4 DEF SeenPending
  <1>6. SeenPending' = Append(SeenPending, SeenPending'[n])
    BY <1>1, <1>5, PendingFields DEF PendingSeen
  <1>7. /\ p.born = seq /\ p.from = Node!PhaseOf(running.kind)
        /\ p.from = "timers" => p.until = TimersUntil /\ running.kind = "timer"
    BY <1>1 DEF GateOf, UntilOf, Node!PhaseOf, Running
  <1>8. running.kind = "timer" => TimersUntil >= now
    BY <1>1 DEF IInv, PhaseInv, TimesAgree, TimersUntil, Greatest, Running
  <1>9. /\ SeenPending'[n].born = seq /\ SeenPending'[n].from = Node!PhaseOf(running.kind)
        /\ SeenPending'[n].from = "timers" => SeenPending'[n].until >= now
    BY <1>5, <1>7, <1>8
  <1>10. UNCHANGED <<clock, now, seq, SeenTimers, running.kind>>
    BY SkimsSeen DEF TimerPending, Skims, LiveIn
  <1>11. n \in DOMAIN SeenPending'
    BY <1>1, <1>5
  <1>12. Node!QueuePending(SeenPending'[n])
    BY <1>6, <1>9, <1>10 DEF Node!QueuePending
  <1> QED BY <1>11, <1>12 DEF NodeSteps, Node!Step

LEMMA PopDuePendingNode == ASSUME IInv, PopDuePending PROVE NodeSteps
  <1>1. pending # << >> /\ running = Idle /\ pending' = Tail(pending) /\ pending \in Seq(Pending)
    BY DEF PopDuePending, IInv, PhaseInv, PhaseType
  <1>2. PendingSeen /\ PendingSeen'
    BY PendingFields, PopDuePendingInv, PTL
  <1>3. Skims
    BY SkimKeepsLive DEF PopDuePending, Skims, LiveIn
  <1>4. UNCHANGED <<clock, now, seq, SeenTimers, running.kind>>
    BY <1>3, SkimsSeen DEF PopDuePending
  <1>5. SeenPending' = Tail(SeenPending)
    <2>1. Len(pending') = Len(pending) - 1 /\ Len(pending) \in Nat
      BY <1>1
    <2>2. ASSUME NEW k \in 1 .. Len(pending') PROVE SeenPending'[k] = SeenPending[k + 1]
      <3>1. pending'[k] = pending[k + 1] /\ k + 1 \in 1 .. Len(pending)
        BY <1>1, <2>1
      <3> QED BY <3>1, <2>1 DEF SeenPending
    <2>3. SeenPending # << >> /\ Len(SeenPending') = Len(SeenPending) - 1
      BY <1>1, <1>2, <2>1 DEF PendingSeen
    <2>4. /\ SeenPending \in Seq([born : Nat, from : Gate, until : Int])
          /\ SeenPending' \in Seq([born : Nat, from : Gate, until : Int])
          /\ Len(SeenPending') = Len(pending')
      BY <1>2 DEF PendingSeen
    <2>5. PICK s \in Seq([born : Nat, from : Gate, until : Int]) : s = SeenPending
      BY <2>4
    <2>6. PICK r \in Seq([born : Nat, from : Gate, until : Int]) : r = SeenPending'
      BY <2>4
    <2>7. /\ Tail(s) \in Seq([born : Nat, from : Gate, until : Int])
          /\ Len(Tail(s)) = Len(s) - 1
          /\ \A k \in 1 .. Len(Tail(s)) : Tail(s)[k] = s[k + 1]
      BY <2>3, <2>5, HeadTailProperties
    <2>8. Len(r) = Len(Tail(s)) /\ \A k \in 1 .. Len(r) : r[k] = Tail(s)[k]
      BY <2>2, <2>3, <2>4, <2>5, <2>6, <2>7
    <2>9. r = Tail(s)
      BY <2>7, <2>8, SeqEqual
    <2> QED BY <2>5, <2>6, <2>9
  <1>6. Head(SeenPending).from = "timers" =>
           ~ \E t \in Node!OfKind("timer") : t.at <= now /\ t.at <= Head(SeenPending).until
    <2> SUFFICES ASSUME Head(SeenPending).from = "timers",
                        NEW t \in Node!OfKind("timer"), t.at <= now,
                        t.at <= Head(SeenPending).until
                 PROVE  FALSE
      OBVIOUS
    <2>1. /\ Head(pending).from = "timers" /\ Head(SeenPending).until = Head(pending).until
          /\ Head(pending) = pending[1] /\ Head(pending) \in Pending
          /\ GateClosed(pending[1])
      <3>1. /\ Head(SeenPending) = SeenPending[1] /\ Head(pending) = pending[1]
            /\ 1 \in 1 .. Len(pending)
        BY <1>1, <1>2 DEF PendingSeen
      <3>2. SeenPending[1].from = pending[1].from
        BY <1>2, <3>1 DEF PendingSeen
      <3>3. pending[1].from = "timers"
        BY <3>1, <3>2
      <3>4. SeenPending[1].until = pending[1].until
        BY <1>2, <3>1, <3>3 DEF PendingSeen
      <3>5. pending[1] \in Pending
        BY <1>1, <3>1
      <3>6. GateClosed(pending[1])
        BY <3>1 DEF IInv, PhaseInv, GatesClosed
      <3> QED BY <3>1, <3>3, <3>4, <3>5, <3>6
    <2>2. gate = "timers" /\ until = Head(SeenPending).until /\ until \in Int
      BY <2>1 DEF gate, until, GateClosed, Pending
    <2>3. PICK e \in LiveIn(heap) : e.at = t.at
      <3>1. PICK e, k : InQueue(e, k) /\ t = AsSeen(e, k)
        BY SeenIff DEF Node!OfKind
      <3>2. k = "timer" /\ e.at = t.at
        BY <3>1, SeenFields DEF Node!OfKind
      <3> QED BY <3>1, <3>2 DEF InQueue
    <2>4. e.at \in Nat /\ now \in Nat
      BY DEF IInv, QueueInv, QueueType, PhaseInv, PhaseType, LiveIn, Entry
    <2>5. DueBy(heap, Least(until, now))
      BY <2>2, <2>3, <2>4 DEF DueBy, Least
    <2> QED BY <2>2, <2>5 DEF PopDuePending, TimersAhead
  <1>7. Node!RunPending
    BY <1>1, <1>2, <1>4, <1>5, <1>6 DEF Node!RunPending, Idle, PendingSeen
  <1> QED BY <1>7 DEF NodeSteps, Node!Step

(* The front of a queue is the first of its kind.                          *)
LEMMA FrontIsFirst ==
    ASSUME NEW e, NEW k \in {"timer", "immediate"},
           IF k = "timer" THEN IsFront(heap, e) ELSE IsFront(immediates, e)
    PROVE  /\ InQueue(e, k) /\ AsSeen(e, k) \in SeenTimers
           /\ Node!First(AsSeen(e, k), Node!OfKind(k))
  <1>1. InQueue(e, k) /\ AsSeen(e, k) \in SeenTimers
    BY SeenIff DEF InQueue, IsFront
  <1>2. ASSUME NEW u \in Node!OfKind(k)
        PROVE  u = AsSeen(e, k) \/ Node!Before(AsSeen(e, k), u)
    <2>1. PICK f, j : InQueue(f, j) /\ u = AsSeen(f, j)
      BY SeenIff DEF Node!OfKind
    <2>2. j = k
      BY <2>1, SeenFields DEF Node!OfKind
    <2>3. f = e \/ Before(e, f)
      BY <2>1, <2>2 DEF InQueue, IsFront
    <2> QED BY <2>1, <2>2, <2>3, SeenFields DEF Before, Node!Before
  <1> QED BY <1>1, <1>2 DEF Node!First

(* With nothing pending what is popped is the first of both.               *)
LEMMA PoppedIsFirst ==
    ASSUME IInv, NEW e, NEW k \in {"timer", "immediate"}, NEW other,
           other = IF k = "timer" THEN immediates ELSE heap,
           IF k = "timer" THEN IsFront(heap, e) ELSE IsFront(immediates, e),
           e.at <= now, ~ \E f \in LiveIn(other) : f.at <= now /\ Before(f, e)
    PROVE  Node!First(AsSeen(e, k), SeenTimers)
  <1>1. InQueue(e, k)
    BY FrontIsFirst
  <1>2. e \in Entry /\ heap \subseteq Entry /\ immediates \subseteq Entry /\ now \in Nat
    BY <1>1 DEF InQueue, LiveIn, IInv, QueueInv, QueueType, PhaseInv, PhaseType
  <1>3. ASSUME NEW f, NEW j, InQueue(f, j), j # k PROVE Before(e, f)
    <2>1. f \in LiveIn(other) /\ f \in Entry
      BY <1>2, <1>3 DEF InQueue, LiveIn
    <2>2. e.seq # f.seq
      BY <1>1, <1>3, SeenOnce DEF IInv
    <2> QED BY <1>2, <2>1, <2>2 DEF Before, Entry
  <1>4. ASSUME NEW u \in SeenTimers
        PROVE  u = AsSeen(e, k) \/ Node!Before(AsSeen(e, k), u)
    <2>1. PICK f, j : InQueue(f, j) /\ u = AsSeen(f, j)
      BY SeenIff
    <2>2. (f = e /\ j = k) \/ Before(e, f)
      BY <1>3, <2>1 DEF InQueue, IsFront
    <2> QED BY <2>1, <2>2, SeenFields DEF Before, Node!Before
  <1> QED BY <1>4 DEF Node!First

(* A gate that moves on from the immediates to the timers is not seen.     *)
LEMMA GateMoveUnseen ==
    ASSUME IInv, pending # << >>, gate = "immediates",
           pending' = [pending EXCEPT ![1].gate = "timers", ![1].until = now]
    PROVE  SeenPending' = SeenPending
  <1> DEFINE q == [pending[1] EXCEPT !.gate = "timers", !.until = now]
  <1>1. /\ pending \in Seq(Pending) /\ 1 \in 1 .. Len(pending) /\ pending[1] \in Pending
        /\ gate = pending[1].gate /\ GateClosed(pending[1])
    BY DEF IInv, PhaseInv, PhaseType, GatesClosed, gate
  <1>2. q.born = pending[1].born /\ q.from = pending[1].from
    <2>1. PICK r \in Pending : r = pending[1]
      BY <1>1
    <2>2. PICK u : u = [r EXCEPT !.gate = "timers"]
      OBVIOUS
    <2>3. u.born = r.born /\ u.from = r.from /\ u \in Pending
      BY <2>2 DEF Pending, Gate
    <2>4. [u EXCEPT !.until = now].born = u.born /\ [u EXCEPT !.until = now].from = u.from
      BY <2>3 DEF Pending
    <2>5. q = [u EXCEPT !.until = now]
      BY <2>1, <2>2
    <2> QED BY <2>1, <2>3, <2>4, <2>5
  <1>3. q.from # "timers"
    BY <1>1, <1>2 DEF GateClosed
  <1>4. /\ Len(pending') = Len(pending)
        /\ \A k \in 1 .. Len(pending) : pending'[k] = IF k = 1 THEN q ELSE pending[k]
    <2>1. pending' = [pending EXCEPT ![1] = q]
      OBVIOUS
    <2> HIDE DEF q
    <2> QED BY <1>1, <2>1
  <1>5. \A k \in 1 .. Len(pending) :
           [born |-> pending'[k].born, from |-> pending'[k].from,
            until |-> IF pending'[k].from = "timers" THEN pending'[k].until ELSE 0]
             = [born |-> pending[k].born, from |-> pending[k].from,
                until |-> IF pending[k].from = "timers" THEN pending[k].until ELSE 0]
    <2> HIDE DEF q
    <2> QED BY <1>2, <1>3, <1>4
  <1> QED BY <1>4, <1>5 DEF SeenPending

(* What a pending callback that waits lets run before it.                  *)
LEMMA TimerPasses ==
    ASSUME IInv, pending # << >>, NEW e \in heap, PopDueTimer(e)
    PROVE  Node!Passes(Head(SeenPending), AsSeen(e, "timer"))
  <1>1. /\ pending[1] \in Pending /\ GateClosed(pending[1]) /\ Head(pending) = pending[1]
        /\ Head(SeenPending) = SeenPending[1] /\ 1 \in 1 .. Len(pending)
    BY PendingFields DEF PendingSeen, IInv, PhaseInv, PhaseType, GatesClosed
  <1>2. /\ Head(SeenPending).from = pending[1].from
        /\ Head(SeenPending).born = pending[1].born
    BY <1>1, PendingFields DEF PendingSeen
  <1>3. \/ pending[1].gate = "timers" /\ e.at <= pending[1].until
        \/ pending[1].gate = "immediates"
    BY <1>1, PoppedIsDue DEF gate, until
  <1>4. e.at \in Nat /\ e.seq \in Nat /\ pending[1].until \in Int /\ pending[1].born \in Nat
    BY <1>1 DEF IInv, QueueInv, QueueType, Entry, Pending
  <1>5. pending[1].from = "timers" => e.seq <= pending[1].born
    BY <1>1, <1>3, <1>4 DEF GateClosed
  <1>6. pending[1].from \in {"timers", "immediates"}
    BY <1>1, <1>3 DEF GateClosed, Pending, Gate
  <1> QED BY <1>2, <1>5, <1>6, SeenFields DEF Node!Passes

LEMMA PopDueTimerNode ==
    ASSUME IInv, NEW e \in heap, PopDueTimer(e), seq' <= IdMax
    PROVE  NodeSteps
  <1> DEFINE t == AsSeen(e, "timer")
  <1>1. /\ now \in Nat /\ seq \in Nat /\ e \in Entry /\ e \in LiveIn(heap)
        /\ e.id \in DOMAIN active /\ e.at <= now /\ active[e.id] \in Timer
    BY PoppedIsDue DEF IInv, QueueInv, QueueType, PhaseInv, PhaseType, LiveIn
  <1>2. immediates' \subseteq immediates /\ LiveIn(immediates) \subseteq immediates'
    BY SkimKeepsLive DEF PopDueTimer, LiveIn
  <1>3. t \in SeenTimers /\ InQueue(e, "timer") /\ Node!First(t, Node!OfKind("timer"))
    BY FrontIsFirst DEF PopDueTimer
  <1>4. /\ t.kind = "timer" /\ t.at = e.at /\ t.seq = e.seq
        /\ t.interval = active[e.id].interval
    BY SeenFields
  <1>5. SeenPending' = SeenPending
    <2>1. CASE pending # << >> /\ gate = "immediates"
      BY <2>1, GateMoveUnseen DEF PopDueTimer
    <2>2. CASE ~(pending # << >> /\ gate = "immediates")
      BY <2>2 DEF PopDueTimer, SeenPending
    <2> QED BY <2>1, <2>2
  <1>6. pending = << >> => Node!First(t, SeenTimers)
    BY <1>1, PoppedIsFirst DEF PopDueTimer, WaitsForTimer
  <1>7. pending # << >> => Node!Passes(Head(SeenPending), t)
    BY TimerPasses
  <1>8. (SeenPending = << >>) <=> (pending = << >>)
    BY PendingFields DEF PendingSeen
  <1>9. /\ running.kind = "none" /\ running'.kind = "timer"
        /\ clock' = clock /\ now' = now
    BY DEF PopDueTimer, PopTimer, Idle
  <1>10. Node!Turn(t)
    <2> HIDE DEF t
    <2> QED BY <1>1, <1>3, <1>4, <1>5, <1>6, <1>7, <1>8, <1>9 DEF Node!Turn
  <1>11. CASE active[e.id].interval # NoInterval
    <2> DEFINE f == [at |-> now + active[e.id].interval, seq |-> seq + 1, id |-> e.id]
    <2>1. active[e.id].interval \in Nat
      BY <1>11, <1>1 DEF Timer
    <2>2. /\ f \in Entry /\ f.seq = seq + 1 /\ f.id = e.id
          /\ f.at = now + active[e.id].interval
      BY <2>1, <1>1 DEF Entry
    <2>3. Rearms(e, f)
      BY <2>2, <1>11, <1>1, <1>2 DEF Rearms, PopDueTimer, PopTimer
    <2>4. seq' = seq + 1 /\ seq <= IdMax
      BY <2>3, <1>1, TimerAssumption DEF Rearms
    <2>5. SeenTimers' = (SeenTimers \ {t}) \cup {[t EXCEPT !.at = f.at, !.seq = seq + 1]}
      <3> HIDE DEF f
      <3> QED BY <2>3, <2>4, RearmsSeen DEF IInv
    <2>6. t.interval # Node!NoInterval /\ f.at = now + t.interval
      BY <1>4, <1>11, <2>2 DEF NoInterval, Node!NoInterval
    <2>7. SeenTimers' = (SeenTimers \ {t})
                           \cup {[t EXCEPT !.at = now + t.interval, !.seq = seq + 1]}
      <3> HIDE DEF f, t
      <3> QED BY <2>5, <2>6, Zenon
    <2>8. Node!RunInterval(t)
      <3> HIDE DEF f, t
      <3> QED BY <1>10, <2>4, <2>6, <2>7, Zenon DEF Node!RunInterval
    <2> QED BY <1>3, <2>8 DEF NodeSteps, Node!Step
  <1>12. CASE active[e.id].interval = NoInterval
    <2>1. heap' = Skim(heap) \ {e} /\ seq' = seq
      BY <1>12 DEF PopDueTimer, PopTimer
    <2>2. Retires(e.id)
      BY <2>1, <1>12, <1>1, <1>2, SkimKeepsLive
         DEF Retires, PopDueTimer, PopTimer, LiveIn
    <2>3. SeenTimers' = SeenTimers \ {t}
      BY <2>1, <2>2, <1>3, RetiresSeen DEF IInv
    <2>4. Node!RunOnce(t)
      <3> HIDE DEF t
      <3> QED BY <1>4, <1>10, <1>12, <2>1, <2>3
              DEF Node!RunOnce, NoInterval, Node!NoInterval
    <2> QED BY <1>3, <2>4 DEF NodeSteps, Node!Step
  <1> QED BY <1>11, <1>12

LEMMA PopDueImmediateNode ==
    ASSUME IInv, NEW e \in immediates, PopDueImmediate(e), seq' <= IdMax
    PROVE  NodeSteps
  <1> DEFINE t == AsSeen(e, "immediate")
  <1>1. /\ now \in Nat /\ e \in Entry /\ e.id \in DOMAIN active
        /\ immediates \subseteq Entry /\ pending \in Seq(Pending)
    BY DEF IInv, QueueInv, QueueType, PhaseInv, PhaseType, PopDueImmediate,
           IsFront, LiveIn
  <1>2. /\ heap' \subseteq heap /\ LiveIn(heap) \subseteq heap'
        /\ immediates' = Skim(immediates) \ {e}
    BY SkimKeepsLive DEF PopDueImmediate, PopImmediate, LiveIn
  <1>3. Retires(e.id)
    BY <1>1, <1>2, SkimKeepsLive DEF Retires, PopDueImmediate, PopImmediate, LiveIn
  <1>4. t \in SeenTimers /\ InQueue(e, "immediate") /\ Node!First(t, Node!OfKind("immediate"))
    BY FrontIsFirst DEF PopDueImmediate
  <1>5. SeenTimers' = SeenTimers \ {t} /\ seq' = seq
    BY <1>3, <1>4, RetiresSeen DEF IInv, Retires
  <1>6. /\ t.kind = "immediate" /\ t.at = e.at /\ t.interval = active[e.id].interval
    BY SeenFields
  <1>7. ASSUME pending # << >>
        PROVE  e.at <= now /\ Node!Passes(Head(SeenPending), t)
    <2>1. /\ pending[1] \in Pending /\ GateClosed(pending[1]) /\ Head(pending) = pending[1]
          /\ Head(SeenPending) = SeenPending[1] /\ 1 \in 1 .. Len(pending)
      BY <1>7, PendingFields DEF PendingSeen, IInv, PhaseInv, PhaseType, GatesClosed
    <2>2. pending[1].gate = "immediates" /\ DueBy(immediates, pending[1].until)
      BY <1>7, <2>1 DEF PopDueImmediate, WaitsForImmediate, ImmediateIsDue, gate, until
    <2>3. SeenPending[1].from = "immediates"
      <3>1. SeenPending[1].from = pending[1].from
        BY <2>1, PendingFields DEF PendingSeen
      <3> QED BY <3>1, <2>1, <2>2 DEF GateClosed, Pending, Gate
    <2>4. PICK f \in LiveIn(immediates) : f.at <= pending[1].until
      BY <2>2 DEF DueBy
    <2>5. f = e \/ Before(e, f)
      BY DEF PopDueImmediate, IsFront
    <2>6. f \in Entry /\ pending[1].until <= now /\ pending[1].until \in Int
      BY <1>1, <2>1, <2>2 DEF LiveIn, GateClosed, Pending
    <2>7. e.at <= now
      BY <1>1, <2>4, <2>5, <2>6 DEF Before, Entry
    <2> QED BY <2>1, <2>3, <2>7 DEF Node!Passes
  <1>8. ASSUME pending = << >>
        PROVE  e.at <= now /\ Node!First(t, SeenTimers)
    <2>1. e.at <= now /\ ~ \E f \in LiveIn(heap) : f.at <= now /\ Before(f, e)
      BY <1>8 DEF PopDueImmediate, WaitsForImmediate
    <2> QED BY <2>1, PoppedIsFirst DEF PopDueImmediate
  <1>9. (SeenPending = << >>) <=> (pending = << >>)
    BY PendingFields DEF PendingSeen
  <1>10. /\ running.kind = "none" /\ running'.kind = "immediate"
         /\ clock' = clock /\ now' = now /\ SeenPending' = SeenPending
    BY DEF PopDueImmediate, PopImmediate, Idle, SeenPending
  <1>11. Node!Turn(t)
    <2> HIDE DEF t
    <2> QED BY <1>4, <1>6, <1>7, <1>8, <1>9, <1>10 DEF Node!Turn
  <1>12. Node!RunOnce(t)
    <2> HIDE DEF t
    <2> QED BY <1>5, <1>6, <1>11 DEF Node!RunOnce
  <1> QED BY <1>4, <1>12 DEF NodeSteps, Node!Step

LEMMA LookAtFrontsNode == ASSUME LookAtFronts PROVE NodeSteps
  <1>1. Skims
    BY SkimKeepsLive DEF LookAtFronts, Skims
  <1> QED BY <1>1, LooksNode DEF LookAtFronts

LEMMA CallbackDoneNode == ASSUME CallbackDone PROVE NodeSteps
  <1>1. Skims
    BY DEF CallbackDone, Skims, LiveIn
  <1> QED BY <1>1, LooksNode DEF CallbackDone

LEMMA StartTurnNode == ASSUME StartTurn PROVE NodeSteps
  <1>1. Skims
    BY DEF StartTurn, Skims, LiveIn
  <1> QED BY <1>1, StartsNode DEF StartTurn

(* Every step of the queue is one of NodeTimers until the ids wrap.        *)
LEMMA StepsNode == ASSUME IInv, [Next]_vars, seq' <= IdMax PROVE NodeSteps
  <1>1. ASSUME NEW id \in Ids, NEW ms \in Delays, NEW repeating \in BOOLEAN,
               Schedule(ms, repeating, id)
        PROVE  NodeSteps
    BY <1>1, ScheduleNode
  <1>2. ASSUME NEW id \in Ids, ScheduleImmediate(id) PROVE NodeSteps
    BY <1>2, ScheduleImmediateNode
  <1>3. ASSUME NEW id \in Ids, Cancel(id) PROVE NodeSteps
    BY <1>3, CancelNode
  <1>4. ASSUME NEW id \in Ids, NEW value \in BOOLEAN, SetRef(id, value) PROVE NodeSteps
    BY <1>4, SetRefNode
  <1>5. ASSUME NEW e \in heap, PopDueTimer(e) PROVE NodeSteps
    BY <1>5, PopDueTimerNode
  <1>6. ASSUME NEW e \in immediates, PopDueImmediate(e) PROVE NodeSteps
    BY <1>6, PopDueImmediateNode
  <1>7. CASE PopDue
    BY <1>5, <1>6, <1>7, PopDuePendingNode DEF PopDue
  <1>8. CASE UNCHANGED vars
    <2>1. Skims
      BY <1>8 DEF vars, Skims, LiveIn
    <2> QED BY <1>8, <2>1, LooksNode DEF vars
  <1> QED BY <1>1, <1>2, <1>3, <1>4, <1>7, <1>8, TickNode, StartTurnNode,
             TimerPendingNode, LookAtFrontsNode, CallbackDoneNode DEF Next

(* What the loop asks, whether to go on, follows each step.                *)
LEMMA NodeFollows ==
    IInv /\ IInv' /\ (seq' <= IdMax => NodeSteps) =>
        [seq' <= IdMax => Node!Next]_(Node!vars)
  <1>1. IInv => (has_ref_timers <=> Node!KeepsAlive)
    BY AliveSeen
  <1>2. IInv' => (has_ref_timers' <=> Node!KeepsAlive')
    BY AliveSeen, PTL
  <1>3. UNCHANGED <<SeenTimers, SeenPending>> => (Node!KeepsAlive' <=> Node!KeepsAlive)
    BY DEF Node!KeepsAlive
  <1>4. has_ref_timers \in BOOLEAN /\ has_ref_timers' \in BOOLEAN
    BY DEF has_ref_timers
  <1>5. Node!KeepsAlive \in BOOLEAN /\ Node!KeepsAlive' \in BOOLEAN
    BY DEF Node!KeepsAlive
  <1>6. ASSUME IInv, IInv', Node!Step PROVE Node!Next
    BY <1>2, <1>4, <1>5, <1>6 DEF Node!Next
  <1>7. ASSUME IInv, IInv',
               UNCHANGED <<clock, now, seq, SeenTimers, SeenPending, running.kind>>
        PROVE  UNCHANGED Node!vars
    BY <1>1, <1>2, <1>3, <1>4, <1>7 DEF Node!vars
  <1> QED BY <1>6, <1>7 DEF NodeSteps

LEMMA InitNode == Init => Node!Init
  <1> SUFFICES ASSUME Init PROVE Node!Init
    OBVIOUS
  <1>1. SeenTimers = {}
    BY SeenIff DEF InQueue, LiveIn, Init
  <1>2. SeenPending = << >>
    BY DEF SeenPending, Init
  <1>3. has_ref_timers = FALSE
    BY DEF has_ref_timers, Init
  <1> QED BY <1>1, <1>2, <1>3 DEF Init, Node!Init, Idle

(* Until the ids wrap, the queue with its lazy cancels, purges, counters   *)
(* and gates behaves as a set of timers from which a cleared one is gone   *)
(* at once, and keeps the loop going exactly while one of them is ref'd or *)
(* a callback is pending.                                                  *)
THEOREM ImplementsNode == Spec => BehavesAsNode
  <1>1. IInv /\ [Next]_vars => IInv'
    BY NextInv
  <1>2. IInv /\ [Next]_vars => (seq' <= IdMax => NodeSteps)
    BY StepsNode
  <1>3. IInv /\ IInv' /\ [Next]_vars => [seq' <= IdMax => Node!Next]_(Node!vars)
    BY <1>2, NodeFollows
  <1> QED BY <1>1, <1>3, InitInv, InitNode, PTL DEF Spec, BehavesAsNode

(* As long as the ids have not gone once round, 2^32 - 1 timers set or     *)
(* rearmed in the code, that is the whole specification.                   *)
THEOREM ImplementsNodeSpec == Spec /\ [](seq <= IdMax) => Node!Spec
  <1>1. (seq <= IdMax)' => seq' <= IdMax
    OBVIOUS
  <1>2. (seq <= IdMax)' /\ [seq' <= IdMax => Node!Next]_(Node!vars) => [Node!Next]_(Node!vars)
    BY <1>1
  <1> QED BY <1>2, ImplementsNode, PTL DEF BehavesAsNode, Node!Spec
=============================================================================
