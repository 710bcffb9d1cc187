--------------------------- MODULE WorkersProofs ---------------------------
(***************************************************************************)
(* Proofs about Workers, for any capacity, number of workers and panics:   *)
(* the pool never holds more than its capacity, and a receive loop that    *)
(* ends has a worker that is gone or was terminated.                       *)
(*                                                                         *)
(* The pool's part of the invariant, PoolGood, is about values and not     *)
(* variables, because fork works on the pool that ensure_warm leaves,      *)
(* which is no state of its own: the lemmas about it are then applied one  *)
(* after the other to the steps of one action.                             *)
(***************************************************************************)
EXTENDS Workers, FiniteSetTheorems, WellFoundedInduction, SequenceTheorems, TLAPS

Held(rq) == {s \in Slots : rq[s] # NoWorker}
Used(sl) == {s \in Slots : sl[s] # "none"}

(* A worker that has, or had, a thread of its own, or whose slot's is over *)
(* pays for one new slot.                                                  *)
Spent(wh) == {w \in Worker : wh[w] \notin {"new", "slot", "warm"}}

PoolTypes(sl, p, rq, wh) ==
    /\ sl \in [Slots -> Thread] /\ p \in Seq(Slots)
    /\ rq \in [Slots -> Worker \cup {NoWorker}] /\ wh \in [Worker -> Holder]

(* The pool's slots are different, have a thread and no request.           *)
PoolFree(sl, p, rq) ==
    /\ \A m, n \in 1 .. Len(p) : p[m] = p[n] => m = n
    /\ \A n \in 1 .. Len(p) : sl[p[n]] # "none" /\ rq[p[n]] = NoWorker

(* A request is with one thread, which has its worker's sender.            *)
Requests(sl, rq, wh) ==
    /\ \A s \in Slots : rq[s] # NoWorker =>
          /\ sl[s] \in {"warming", "ready", "running"}
          /\ wh[rq[s]] = IF sl[s] = "running" THEN "warm" ELSE "slot"
    /\ \A s \in Slots : sl[s] = "running" => rq[s] # NoWorker
    /\ \A s, t \in Slots : s # t /\ rq[s] = rq[t] => rq[s] = NoWorker

PoolGood(sl, p, rq, wh) ==
    /\ PoolTypes(sl, p, rq, wh)
    /\ PoolFree(sl, p, rq)
    /\ Requests(sl, rq, wh)
    /\ Cardinality(Used(sl)) <= Capacity + Cardinality(Spent(wh))
    /\ Len(p) + Cardinality(Held(rq)) <= Capacity

(* Before the first fork there is nothing.                                 *)
ColdStart == ~warmed => pool = << >> /\ \A s \in Slots : slot[s] = "none"

(* A receive loop that waits to receive has its receiver, and an exit is   *)
(* from a worker that is gone.                                             *)
HasExit(s) == \E n \in 1 .. Len(s) : s[n] = "exit"

Ending ==
    \A w \in Worker :
        /\ where[w] = "new" => w \notin closed /\ (alive => recv[w] = "idle")
        /\ alive /\ recv[w] = "idle" /\ where[w] # "new" => w \in closed \cup receivers
        /\ HasExit(events[w]) \/ got[w] = "exit" => where[w] = "gone"

(* The type invariant's part that is not about the pool.                   *)
RestTypes ==
    /\ alive \in BOOLEAN /\ warmed \in BOOLEAN
    /\ script \in [Worker -> {"starts", "runs", "waits", "ends"}]
    /\ mail \in [Worker -> 0 .. MaxPosts]
    /\ events \in [Worker -> Seq(Event)]
    /\ handles \subseteq Worker /\ receivers \subseteq Worker /\ closed \subseteq Worker
    /\ recv \in [Worker -> {"idle", "blocked", "got", "ended"}]
    /\ got \in [Worker -> Event]
    /\ panics \in 0 .. MaxPanics

WorkersInv ==
    /\ RestTypes
    /\ PoolGood(slot, pool, request, where)
    /\ ColdStart
    /\ Ending
    /\ EndIsReal

-----------------------------------------------------------------------------
(* Counting.                                                               *)

LEMMA SlotsFinite ==
    /\ IsFiniteSet(Slots) /\ Cardinality(Slots) = Capacity + MaxWorkers
    /\ IsFiniteSet(Worker) /\ Cardinality(Worker) = MaxWorkers
    /\ \A rq : IsFiniteSet(Held(rq)) /\ Cardinality(Held(rq)) \in Nat
    /\ \A sl : IsFiniteSet(Used(sl)) /\ Cardinality(Used(sl)) \in Nat
    /\ \A wh : IsFiniteSet(Spent(wh)) /\ Cardinality(Spent(wh)) \in Nat
  <1>1. IsFiniteSet(Slots) /\ Cardinality(Slots) = Capacity + MaxWorkers
    <2> DEFINE n == Capacity + MaxWorkers
    <2>1. n \in Nat /\ Slots = 1 .. n
      BY WorkersAssumption DEF Slots
    <2> HIDE DEF n
    <2>2. IsFiniteSet(1 .. n) /\ Cardinality(1 .. n) = n
      BY <2>1, FS_Interval
    <2> QED BY <2>1, <2>2 DEF n
  <1>2. IsFiniteSet(Worker) /\ Cardinality(Worker) = MaxWorkers
    BY FS_Interval, WorkersAssumption DEF Worker
  <1>3. \A rq : IsFiniteSet(Held(rq)) /\ Cardinality(Held(rq)) \in Nat
    BY <1>1, FS_Subset, FS_CardinalityType DEF Held
  <1>4. \A sl : IsFiniteSet(Used(sl)) /\ Cardinality(Used(sl)) \in Nat
    BY <1>1, FS_Subset, FS_CardinalityType DEF Used
  <1>5. \A wh : IsFiniteSet(Spent(wh)) /\ Cardinality(Spent(wh)) \in Nat
    BY <1>2, FS_Subset, FS_CardinalityType DEF Spent
  <1> QED BY <1>1, <1>2, <1>3, <1>4, <1>5

LEMMA LeastSlot ==
    ASSUME NEW S \in SUBSET Nat, S # {}
    PROVE  \E t \in S : \A u \in S : t <= u
  <1>1. PICK t \in S : \A u \in S : ~(<<u, t>> \in OpToRel(<, Nat))
    BY NatLessThanWellFounded, WFMin
  <1>2. \A u \in S : ~(u < t)
    <2>1. SUFFICES ASSUME NEW u \in S, u < t PROVE FALSE
      OBVIOUS
    <2>2. <<u, t>> \in OpToRel(<, Nat)
      BY <2>1 DEF OpToRel
    <2> QED BY <1>1, <2>2
  <1> QED BY <1>2

(* add_slot finds a number as long as a slot is unused.                    *)
LEMMA NextSlotFree ==
    ASSUME NEW sl, Cardinality(Used(sl)) < Capacity + MaxWorkers
    PROVE  NextSlot(sl) \in Slots /\ sl[NextSlot(sl)] = "none"
  <1> DEFINE free == {s \in Slots : sl[s] = "none"}
  <1>1. free # {}
    <2>1. SUFFICES ASSUME free = {} PROVE FALSE
      OBVIOUS
    <2>2. Used(sl) = Slots
      BY <2>1 DEF Used
    <2> QED BY <2>2, SlotsFinite, WorkersAssumption
  <1>2. PICK s \in free : \A t \in free : s <= t
    <2>1. free \in SUBSET Nat
      BY WorkersAssumption DEF Slots
    <2> QED BY <1>1, <2>1, LeastSlot
  <1>3. sl[s] = "none" /\ \A t \in 1 .. s - 1 : sl[t] # "none"
    BY <1>2, WorkersAssumption DEF Slots
  <1> QED BY <1>2, <1>3 DEF NextSlot

(* A worker leaves the ones that have not spent their slot.                *)
LEMMA SpendsOne ==
    ASSUME NEW wh \in [Worker -> Holder], NEW w \in Worker, wh[w] \in {"new", "slot", "warm"},
           NEW h \in {"cold", "gone"}
    PROVE  Cardinality(Spent([wh EXCEPT ![w] = h])) = Cardinality(Spent(wh)) + 1
  <1>1. Spent([wh EXCEPT ![w] = h]) = Spent(wh) \cup {w} /\ w \notin Spent(wh)
    BY DEF Spent
  <1> QED BY <1>1, SlotsFinite, FS_AddElement

-----------------------------------------------------------------------------
(* The steps of the pool.                                                  *)

LEMMA PoolStarts ==
    LET sl == [s \in Slots |-> "none"]
        rq == [s \in Slots |-> NoWorker]
        wh == [w \in Worker |-> "new"]
    IN  PoolGood(sl, << >>, rq, wh)
  <1> DEFINE sl == [s \in Slots |-> "none"]
             rq == [s \in Slots |-> NoWorker]
             wh == [w \in Worker |-> "new"]
  <1>1. Used(sl) = {} /\ Held(rq) = {}
    BY DEF Used, Held
  <1>2. Cardinality(Used(sl)) = 0 /\ Cardinality(Held(rq)) = 0
    BY <1>1, FS_EmptySet
  <1>3. Cardinality(Spent(wh)) \in Nat
    BY SlotsFinite
  <1>4. PoolTypes(sl, << >>, rq, wh)
    BY DEF PoolTypes, Thread, Holder
  <1>5. PoolFree(sl, << >>, rq) /\ Requests(sl, rq, wh)
    BY DEF PoolFree, Requests
  <1>6. Len(<< >>) = 0
    OBVIOUS
  <1> QED BY <1>2, <1>3, <1>4, <1>5, <1>6, WorkersAssumption DEF PoolGood

(* ensure_warm.                                                            *)
LEMMA WarmGood == ASSUME WorkersInv PROVE PoolGood(WarmSlots, WarmPool, request, where)
  <1>1. CASE warmed
    BY <1>1 DEF WorkersInv, WarmSlots, WarmPool
  <1>2. CASE ~warmed
    <2> DEFINE sl == [s \in Slots |-> IF s <= Capacity THEN "warming" ELSE "none"]
               p == [n \in 1 .. Capacity |-> n]
    <2>1. WarmSlots = sl /\ WarmPool = p
      BY <1>2 DEF WarmSlots, WarmPool
    <2>2. /\ \A s \in Slots : slot[s] = "none" /\ request[s] = NoWorker
          /\ request \in [Slots -> Worker \cup {NoWorker}] /\ where \in [Worker -> Holder]
      BY <1>2 DEF WorkersInv, ColdStart, PoolGood, Requests, PoolTypes
    <2>3. 1 .. Capacity \subseteq Slots /\ Capacity \in Nat
      BY WorkersAssumption DEF Slots
    <2>4. p \in Seq(Slots) /\ Len(p) = Capacity /\ \A n \in 1 .. Capacity : p[n] = n
      BY <2>3
    <2>5. sl \in [Slots -> Thread]
      BY DEF Thread
    <2>6. PoolFree(sl, p, request)
      BY <2>2, <2>3, <2>4 DEF PoolFree
    <2>7. Requests(sl, request, where)
      BY <2>2 DEF Requests
    <2>8. Used(sl) = 1 .. Capacity /\ Held(request) = {}
      BY <2>2, <2>3 DEF Used, Held, Slots
    <2>9. Cardinality(Used(sl)) = Capacity /\ Cardinality(Held(request)) = 0
      BY <2>3, <2>8, FS_Interval, FS_EmptySet
    <2>10. Cardinality(Spent(where)) \in Nat
      BY SlotsFinite
    <2> HIDE DEF sl, p
    <2>11. PoolGood(sl, p, request, where)
      BY <2>2, <2>3, <2>4, <2>5, <2>6, <2>7, <2>9, <2>10 DEF PoolGood, PoolTypes
    <2> QED BY <2>1, <2>11
  <1> QED BY <1>1, <1>2

(* The first slot goes to a worker.                                        *)
LEMMA PoolTakes ==
    ASSUME NEW sl, NEW p, NEW rq, NEW wh, PoolGood(sl, p, rq, wh), p # << >>,
           sl[Head(p)] # "dead", NEW w \in Worker, wh[w] = "new"
    PROVE  PoolGood(sl, Tail(p), [rq EXCEPT ![Head(p)] = w], [wh EXCEPT ![w] = "slot"])
  <1> DEFINE h == Head(p)
             q == Tail(p)
             r == [rq EXCEPT ![h] = w]
             v == [wh EXCEPT ![w] = "slot"]
  <1>0. /\ sl \in [Slots -> Thread] /\ p \in Seq(Slots)
        /\ rq \in [Slots -> Worker \cup {NoWorker}] /\ wh \in [Worker -> Holder]
    BY DEF PoolGood, PoolTypes
  <1>1. /\ q \in Seq(Slots) /\ Len(q) = Len(p) - 1 /\ Len(p) \in Nat /\ h = p[1]
        /\ h \in Slots /\ 1 \in 1 .. Len(p)
        /\ \A n \in 1 .. Len(q) : q[n] = p[n + 1] /\ n + 1 \in 1 .. Len(p)
    BY <1>0
  <1>2. /\ sl[h] \in {"warming", "ready"} /\ rq[h] = NoWorker
        /\ \A n \in 1 .. Len(q) : q[n] # h /\ sl[q[n]] # "none" /\ rq[q[n]] = NoWorker
    BY <1>0, <1>1 DEF PoolGood, PoolFree, Requests, Thread
  <1> HIDE DEF h, q
  <1>3. w # NoWorker /\ \A s \in Slots : rq[s] # w
    BY WorkersAssumption DEF Worker, NoWorker, PoolGood, Requests
  <1>4. /\ r \in [Slots -> Worker \cup {NoWorker}] /\ v \in [Worker -> Holder]
        /\ \A s \in Slots : r[s] = IF s = h THEN w ELSE rq[s]
        /\ \A u \in Worker : v[u] = IF u = w THEN "slot" ELSE wh[u]
    BY <1>0, <1>1 DEF Holder
  <1>5. Held(r) = Held(rq) \cup {h} /\ h \notin Held(rq)
    BY <1>1, <1>2, <1>3, <1>4 DEF Held
  <1>6. Spent(v) = Spent(wh)
    BY <1>4 DEF Spent
  <1> HIDE DEF r, v
  <1>7. PoolFree(sl, q, r)
    <2>1. \A m, n \in 1 .. Len(q) : q[m] = q[n] => m = n
      BY <1>1 DEF PoolGood, PoolFree
    <2>2. \A n \in 1 .. Len(q) : q[n] \in Slots
      BY <1>1
    <2> QED BY <1>2, <1>4, <2>1, <2>2 DEF PoolFree
  <1>8. Requests(sl, r, v)
    <2>1. \A s \in Slots : rq[s] # NoWorker => rq[s] \in Worker
      BY <1>0
    <2> QED BY <1>2, <1>3, <1>4, <2>1 DEF PoolGood, Requests
  <1>9. Len(q) + Cardinality(Held(r)) <= Capacity
    <2>1. Cardinality(Held(r)) = Cardinality(Held(rq)) + 1 /\ Cardinality(Held(rq)) \in Nat
      BY <1>5, SlotsFinite, FS_AddElement
    <2> QED BY <1>1, <2>1, WorkersAssumption DEF PoolGood
  <1>10. PoolGood(sl, q, r, v)
    BY <1>0, <1>1, <1>4, <1>6, <1>7, <1>8, <1>9 DEF PoolGood, PoolTypes
  <1> QED BY <1>10 DEF h, q, r, v

(* The first slot is dropped, or all are.                                  *)
LEMMA PoolDrops ==
    ASSUME NEW sl, NEW p, NEW rq, NEW wh, PoolGood(sl, p, rq, wh)
    PROVE  /\ PoolGood(sl, << >>, rq, wh)
           /\ p # << >> => PoolGood(sl, Tail(p), rq, wh) /\ Len(Tail(p)) = Len(p) - 1
  <1>0. p \in Seq(Slots) /\ Cardinality(Held(rq)) \in Nat /\ Len(p) \in Nat
    BY SlotsFinite DEF PoolGood, PoolTypes
  <1>1. PoolGood(sl, << >>, rq, wh)
    <2>1. << >> \in Seq(Slots) /\ Len(<< >>) = 0
      OBVIOUS
    <2>2. PoolFree(sl, << >>, rq)
      BY <2>1 DEF PoolFree
    <2> QED BY <1>0, <2>1, <2>2, WorkersAssumption DEF PoolGood, PoolTypes
  <1>2. ASSUME p # << >> PROVE PoolGood(sl, Tail(p), rq, wh) /\ Len(Tail(p)) = Len(p) - 1
    <2> DEFINE q == Tail(p)
    <2>1. /\ q \in Seq(Slots) /\ Len(q) = Len(p) - 1
          /\ \A n \in 1 .. Len(q) : q[n] = p[n + 1] /\ n + 1 \in 1 .. Len(p)
      BY <1>0, <1>2
    <2> HIDE DEF q
    <2>2. PoolFree(sl, q, rq)
      BY <2>1 DEF PoolGood, PoolFree
    <2>3. PoolGood(sl, q, rq, wh)
      BY <1>0, <2>1, <2>2, WorkersAssumption DEF PoolGood, PoolTypes
    <2> QED BY <2>1, <2>3 DEF q
  <1> QED BY <1>1, <1>2

(* add_slot, when it was paid for and there is room.                       *)
LEMMA PoolAdds ==
    ASSUME NEW sl, NEW p, NEW rq, NEW wh, PoolGood(sl, p, rq, wh),
           Cardinality(Used(sl)) + 1 <= Capacity + Cardinality(Spent(wh)),
           Len(p) + 1 + Cardinality(Held(rq)) <= Capacity
    PROVE  PoolGood([sl EXCEPT ![NextSlot(sl)] = "warming"], Append(p, NextSlot(sl)), rq, wh)
  <1> DEFINE f == NextSlot(sl)
             q == Append(p, f)
             tl == [sl EXCEPT ![f] = "warming"]
  <1>0. /\ sl \in [Slots -> Thread] /\ p \in Seq(Slots)
        /\ rq \in [Slots -> Worker \cup {NoWorker}] /\ wh \in [Worker -> Holder]
    BY DEF PoolGood, PoolTypes
  <1>1. f \in Slots /\ sl[f] = "none"
    <2>1. Cardinality(Spent(wh)) <= MaxWorkers
      BY SlotsFinite, FS_Subset DEF Spent
    <2> QED BY <2>1, NextSlotFree, SlotsFinite, WorkersAssumption
  <1> HIDE DEF f
  <1>2. /\ q \in Seq(Slots) /\ Len(q) = Len(p) + 1 /\ Len(p) \in Nat /\ q[Len(p) + 1] = f
        /\ \A n \in 1 .. Len(p) : q[n] = p[n] /\ p[n] \in Slots
    BY <1>0, <1>1
  <1> HIDE DEF q
  <1>3. tl \in [Slots -> Thread] /\ \A s \in Slots : tl[s] = IF s = f THEN "warming" ELSE sl[s]
    BY <1>0, <1>1 DEF Thread
  <1> HIDE DEF tl
  <1>4. rq[f] = NoWorker
    BY <1>1 DEF PoolGood, Requests
  <1>5. \A n \in 1 .. Len(p) : p[n] # f /\ sl[p[n]] # "none" /\ rq[p[n]] = NoWorker
    BY <1>1 DEF PoolGood, PoolFree
  <1>6. PoolFree(tl, q, rq)
    <2>1. ASSUME NEW n \in 1 .. Len(q) PROVE tl[q[n]] # "none" /\ rq[q[n]] = NoWorker
      <3>1. CASE n \in 1 .. Len(p)
        BY <1>2, <1>3, <1>5, <3>1
      <3>2. CASE n = Len(p) + 1
        BY <1>1, <1>2, <1>3, <1>4, <3>2
      <3> QED BY <1>2, <2>1, <3>1, <3>2
    <2>2. ASSUME NEW m \in 1 .. Len(q), NEW n \in 1 .. Len(q), q[m] = q[n] PROVE m = n
      <3>1. CASE m \in 1 .. Len(p) /\ n \in 1 .. Len(p)
        BY <1>2, <2>2, <3>1 DEF PoolGood, PoolFree
      <3>2. CASE m = Len(p) + 1 \/ n = Len(p) + 1
        BY <1>2, <1>5, <2>2, <3>2
      <3> QED BY <1>2, <2>2, <3>1, <3>2
    <2> QED BY <2>1, <2>2 DEF PoolFree
  <1>7. Requests(tl, rq, wh)
    BY <1>3, <1>4 DEF PoolGood, Requests
  <1>8. Cardinality(Used(tl)) = Cardinality(Used(sl)) + 1
    <2>1. Used(tl) = Used(sl) \cup {f} /\ f \notin Used(sl)
      BY <1>1, <1>3 DEF Used
    <2> QED BY <2>1, SlotsFinite, FS_AddElement
  <1>9. PoolGood(tl, q, rq, wh)
    BY <1>0, <1>2, <1>3, <1>6, <1>7, <1>8 DEF PoolGood, PoolTypes
  <1> QED BY <1>9 DEF f, q, tl

(* A worker goes to a thread of its own, or from it.                       *)
LEMMA PoolApart ==
    ASSUME NEW sl, NEW p, NEW rq, NEW wh, PoolGood(sl, p, rq, wh), NEW w \in Worker,
           wh[w] \in {"new", "cold"}, NEW h \in {"cold", "gone"}
    PROVE  /\ PoolGood(sl, p, rq, [wh EXCEPT ![w] = h])
           /\ wh[w] = "new" =>
                 Cardinality(Spent([wh EXCEPT ![w] = h])) = Cardinality(Spent(wh)) + 1
  <1> DEFINE v == [wh EXCEPT ![w] = h]
  <1>0. /\ rq \in [Slots -> Worker \cup {NoWorker}] /\ wh \in [Worker -> Holder]
        /\ \A s \in Slots : rq[s] # w
    <2>1. w # NoWorker
      BY WorkersAssumption DEF Worker, NoWorker
    <2> QED BY <2>1 DEF PoolGood, PoolTypes, Requests
  <1>1. v \in [Worker -> Holder] /\ \A u \in Worker : v[u] = IF u = w THEN h ELSE wh[u]
    BY <1>0 DEF Holder
  <1>2. wh[w] = "new" => Cardinality(Spent(v)) = Cardinality(Spent(wh)) + 1
    BY <1>0, SpendsOne
  <1> HIDE DEF v
  <1>3. Cardinality(Spent(v)) >= Cardinality(Spent(wh))
    <2>1. CASE wh[w] = "new"
      BY <1>2, <2>1, SlotsFinite
    <2>2. CASE wh[w] = "cold"
      <3>1. Spent(v) = Spent(wh)
        BY <1>1, <2>2 DEF Spent
      <3> QED BY <3>1, SlotsFinite
    <2> QED BY <2>1, <2>2
  <1>4. Requests(sl, rq, v)
    BY <1>0, <1>1 DEF PoolGood, Requests
  <1>5. PoolGood(sl, p, rq, v)
    <2>1. /\ Cardinality(Spent(v)) \in Nat /\ Cardinality(Spent(wh)) \in Nat
          /\ Cardinality(Used(sl)) \in Nat
      BY SlotsFinite
    <2> QED BY <1>1, <1>3, <1>4, <2>1, WorkersAssumption DEF PoolGood, PoolTypes
  <1> QED BY <1>2, <1>5 DEF v

(* A thread goes on: it is warm, runs its request, or has none and exits.  *)
LEMMA SlotMoves ==
    ASSUME NEW sl, NEW p, NEW rq, NEW wh, PoolGood(sl, p, rq, wh), NEW s \in Slots,
           NEW t \in Thread, NEW v,
           \/ sl[s] = "warming" /\ t = "ready" /\ v = wh
           \/ sl[s] = "ready" /\ t = "running" /\ rq[s] # NoWorker
              /\ v = [wh EXCEPT ![rq[s]] = "warm"]
           \/ sl[s] \in {"warming", "ready"} /\ t = "dead" /\ rq[s] = NoWorker /\ v = wh
    PROVE  PoolGood([sl EXCEPT ![s] = t], p, rq, v)
  <1> DEFINE tl == [sl EXCEPT ![s] = t]
  <1>0. /\ sl \in [Slots -> Thread] /\ rq \in [Slots -> Worker \cup {NoWorker}]
        /\ wh \in [Worker -> Holder] /\ p \in Seq(Slots)
    BY DEF PoolGood, PoolTypes
  <1>1. tl \in [Slots -> Thread] /\ \A u \in Slots : tl[u] = IF u = s THEN t ELSE sl[u]
    BY <1>0
  <1>2. /\ v \in [Worker -> Holder]
        /\ \A w \in Worker : v[w] = IF t = "running" /\ w = rq[s] THEN "warm" ELSE wh[w]
    BY <1>0 DEF Holder
  <1> HIDE DEF tl
  <1>3. Used(tl) = Used(sl)
    BY <1>1 DEF Used
  <1>4. Spent(v) = Spent(wh)
    <2>1. t = "running" => wh[rq[s]] = "slot"
      BY DEF PoolGood, Requests
    <2> QED BY <1>2, <2>1 DEF Spent
  <1>5. PoolFree(tl, p, rq)
    BY <1>0, <1>1 DEF PoolGood, PoolFree
  <1>6. Requests(tl, rq, v)
    <2>1. \A u \in Slots : rq[u] # NoWorker => rq[u] \in Worker
      BY <1>0
    <2> QED BY <1>1, <1>2, <2>1 DEF PoolGood, Requests
  <1>7. PoolGood(tl, p, rq, v)
    BY <1>0, <1>1, <1>2, <1>3, <1>4, <1>5, <1>6 DEF PoolGood, PoolTypes
  <1> QED BY <1>7 DEF tl

(* A thread ends with its request, which leaves room for a slot.           *)
LEMMA SlotEnds ==
    ASSUME NEW sl, NEW p, NEW rq, NEW wh, PoolGood(sl, p, rq, wh), NEW s \in Slots,
           rq[s] # NoWorker
    PROVE  LET tl == [sl EXCEPT ![s] = "dead"]
               r == [rq EXCEPT ![s] = NoWorker]
               v == [wh EXCEPT ![rq[s]] = "gone"]
           IN  /\ PoolGood(tl, p, r, v)
               /\ Cardinality(Used(tl)) + 1 <= Capacity + Cardinality(Spent(v))
               /\ Len(p) + 1 + Cardinality(Held(r)) <= Capacity
  <1> DEFINE tl == [sl EXCEPT ![s] = "dead"]
             r == [rq EXCEPT ![s] = NoWorker]
             v == [wh EXCEPT ![rq[s]] = "gone"]
  <1>0. /\ sl \in [Slots -> Thread] /\ rq \in [Slots -> Worker \cup {NoWorker}]
        /\ wh \in [Worker -> Holder] /\ p \in Seq(Slots) /\ Len(p) \in Nat /\ rq[s] \in Worker
    BY DEF PoolGood, PoolTypes
  <1>1. wh[rq[s]] \in {"slot", "warm"} /\ sl[s] # "none"
    BY DEF PoolGood, Requests
  <1>2. /\ tl \in [Slots -> Thread] /\ \A u \in Slots : tl[u] = IF u = s THEN "dead" ELSE sl[u]
        /\ r \in [Slots -> Worker \cup {NoWorker}]
        /\ \A u \in Slots : r[u] = IF u = s THEN NoWorker ELSE rq[u]
        /\ v \in [Worker -> Holder]
        /\ \A w \in Worker : v[w] = IF w = rq[s] THEN "gone" ELSE wh[w]
    BY <1>0 DEF Thread, Holder
  <1>3. Cardinality(Spent(v)) = Cardinality(Spent(wh)) + 1
    BY <1>0, <1>1, SpendsOne
  <1> HIDE DEF tl, r, v
  <1>4. Used(tl) = Used(sl) /\ Held(r) = Held(rq) \ {s} /\ s \in Held(rq)
    BY <1>1, <1>2 DEF Used, Held
  <1>5. Cardinality(Held(r)) = Cardinality(Held(rq)) - 1
    BY <1>4, SlotsFinite, FS_RemoveElement
  <1>6. PoolFree(tl, p, r)
    BY <1>0, <1>2 DEF PoolGood, PoolFree
  <1>7. Requests(tl, r, v)
    <2>1. \A u \in Slots : rq[u] # NoWorker => rq[u] \in Worker
      BY <1>0
    <2>2. \A u \in Slots : u # s /\ rq[u] # NoWorker => rq[u] # rq[s]
      BY DEF PoolGood, Requests
    <2> QED BY <1>2, <2>1, <2>2 DEF PoolGood, Requests
  <1>8. /\ Cardinality(Used(tl)) + 1 <= Capacity + Cardinality(Spent(v))
        /\ Len(p) + 1 + Cardinality(Held(r)) <= Capacity
    BY <1>0, <1>3, <1>4, <1>5, SlotsFinite, WorkersAssumption DEF PoolGood
  <1>9. /\ Cardinality(Used(tl)) \in Nat /\ Cardinality(Spent(v)) \in Nat
        /\ Cardinality(Held(r)) \in Nat
    BY SlotsFinite
  <1>10. PoolGood(tl, p, r, v)
    BY <1>0, <1>2, <1>6, <1>7, <1>8, <1>9, WorkersAssumption DEF PoolGood, PoolTypes
  <1> QED BY <1>8, <1>10 DEF tl, r, v

-----------------------------------------------------------------------------
(* The parent's loops.                                                     *)

LEMMA WorkersInitInv == WorkersInit => WorkersInv
  <1> SUFFICES ASSUME WorkersInit PROVE WorkersInv
    OBVIOUS
  <1>1. PoolGood(slot, pool, request, where)
    BY PoolStarts DEF WorkersInit
  <1>2. alive \in BOOLEAN /\ warmed \in BOOLEAN
    BY Zenon DEF WorkersInit
  <1>3. RestTypes
    BY <1>2, WorkersAssumption DEF WorkersInit, RestTypes, Event
  <1>4. \A w \in Worker : ~HasExit(events[w])
    BY DEF WorkersInit, HasExit
  <1>5. ColdStart /\ Ending /\ EndIsReal
    BY <1>4 DEF WorkersInit, ColdStart, Ending, EndIsReal
  <1> QED BY <1>1, <1>3, <1>5 DEF WorkersInv

(* What a worker sends is the only way to an exit.                         *)
LEMMA SendAdds ==
    ASSUME RestTypes, NEW w \in Worker, NEW es \in Seq(Event), Send(w, es)
    PROVE  /\ events' \in [Worker -> Seq(Event)]
           /\ \A u \in Worker : HasExit(events'[u]) => HasExit(events[u]) \/ (u = w /\ HasExit(es))
  <1>0. events \in [Worker -> Seq(Event)]
    BY DEF RestTypes
  <1>1. CASE ~Listens(w)
    <2>1. events' = events
      BY <1>1 DEF Send
    <2> QED BY <1>0, <2>1, Zenon
  <1>2. CASE Listens(w)
    <2> DEFINE s == events[w] \o es
    <2>1. s \in Seq(Event) /\ HasExit(s) => HasExit(events[w]) \/ HasExit(es)
      <3>1. events[w] \in Seq(Event)
        BY <1>0
      <3>2. PICK a \in Seq(Event) : a = events[w]
        BY <3>1
      <3>3. HasExit(a \o es) => HasExit(a) \/ HasExit(es)
        <4>1. SUFFICES ASSUME NEW n \in 1 .. Len(a \o es), (a \o es)[n] = "exit"
                       PROVE  HasExit(a) \/ HasExit(es)
          BY DEF HasExit
        <4>2. CASE n <= Len(a)
          BY <4>1, <4>2 DEF HasExit
        <4>3. CASE n > Len(a)
          <5>1. n - Len(a) \in 1 .. Len(es) /\ es[n - Len(a)] = "exit"
            BY <4>1, <4>3
          <5> QED BY <5>1 DEF HasExit
        <4> QED BY <4>1, <4>2, <4>3
      <3> QED BY <3>2, <3>3
    <2>2. s \in Seq(Event)
      BY <1>0
    <2>3. events' = [events EXCEPT ![w] = s]
      BY <1>2 DEF Send
    <2> HIDE DEF s
    <2>4. events' \in [Worker -> Seq(Event)]
      BY <1>0, <2>2, <2>3
    <2>5. ASSUME NEW u \in Worker, HasExit(events'[u])
          PROVE  HasExit(events[u]) \/ (u = w /\ HasExit(es))
      <3>1. CASE u = w
        <4>1. events'[u] = s
          BY <1>0, <2>3, <3>1
        <4>2. HasExit(s)
          BY <2>5, <4>1, Zenon
        <4> QED BY <2>1, <2>2, <3>1, <4>2
      <3>2. CASE u # w
        <4>1. events'[u] = events[u]
          BY <1>0, <2>3, <3>2
        <4> QED BY <2>5, <4>1, Zenon
      <3> QED BY <3>1, <3>2
    <2> QED BY <2>4, <2>5
  <1> QED BY <1>1, <1>2

(* Steps that leave the pool and every sender where they are.              *)
LEMMA PoolKept ==
    ASSUME WorkersInv, UNCHANGED <<poolVars, where>>
    PROVE  PoolGood(slot', pool', request', where') /\ ColdStart'
  BY DEF WorkersInv, poolVars, ColdStart

(* A new worker.                                                           *)
LEMMA RegistersEnding ==
    ASSUME WorkersInv, NEW w \in Worker, Registers(w), NEW h \in {"slot", "cold"},
           where' = [where EXCEPT ![w] = h], UNCHANGED <<alive, panics, script, mail, events>>,
           warmed' \in BOOLEAN
    PROVE  RestTypes' /\ Ending' /\ EndIsReal'
  <1>0. where \in [Worker -> Holder]
    BY DEF WorkersInv, PoolGood, PoolTypes
  <1>1. RestTypes'
    <2>1. alive' \in BOOLEAN
      BY DEF WorkersInv, RestTypes
    <2> QED BY <2>1 DEF WorkersInv, RestTypes, Registers
  <1>2. \A u \in Worker : where'[u] = IF u = w THEN h ELSE where[u]
    BY <1>0
  <1>3. where[w] = "new" /\ w \in receivers' /\ alive
    BY DEF Registers
  <1>4. w \notin closed /\ recv[w] = "idle" /\ ~(HasExit(events[w]) \/ got[w] = "exit")
    BY <1>3 DEF WorkersInv, Ending
  <1>5. Ending'
    BY <1>2, <1>3, <1>4 DEF WorkersInv, Ending, Registers
  <1>6. EndIsReal'
    BY <1>2, <1>3, <1>4 DEF WorkersInv, EndIsReal, Registers
  <1> QED BY <1>1, <1>5, <1>6

(* A worker that ends.                                                     *)
LEMMA GoneEnding ==
    ASSUME WorkersInv, NEW w \in Worker, where[w] # "new",
           where' = [where EXCEPT ![w] = "gone"], UNCHANGED <<alive, parentVars>>,
           \A u \in Worker : HasExit(events'[u]) => HasExit(events[u]) \/ u = w
    PROVE  Ending' /\ EndIsReal'
  <1>0. where \in [Worker -> Holder]
    BY DEF WorkersInv, PoolGood, PoolTypes
  <1>1. \A u \in Worker : where'[u] = IF u = w THEN "gone" ELSE where[u]
    BY <1>0
  <1>2. Ending'
    BY <1>1 DEF WorkersInv, Ending, parentVars
  <1>3. EndIsReal'
    BY <1>1 DEF WorkersInv, EndIsReal, parentVars
  <1> QED BY <1>2, <1>3

-----------------------------------------------------------------------------
(* The actions.                                                            *)

LEMMA ForkInv == ASSUME WorkersInv, NEW w \in Worker, Fork(w) PROVE WorkersInv'
  <1>1. Registers(w) /\ warmed' = TRUE /\ UNCHANGED <<alive, panics, script, mail, events>>
    BY DEF Fork
  <1>2. warmed' \in BOOLEAN
    BY <1>1, Zenon
  <1>3. ColdStart'
    BY <1>1 DEF ColdStart
  <1>4. PoolGood(WarmSlots, WarmPool, request, where) /\ where[w] = "new"
    BY <1>1, WarmGood DEF Registers
  <1>5. PICK sl, p, rq, wh : sl = WarmSlots /\ p = WarmPool /\ rq = request /\ wh = where
    OBVIOUS
  <1>6. PoolGood(sl, p, rq, wh) /\ wh[w] = "new"
    BY <1>4, <1>5
  <1>7. CASE ForkWarm(w)
    <2>1. /\ slot' = sl /\ pool' = Tail(p) /\ request' = [rq EXCEPT ![Head(p)] = w]
          /\ where' = [wh EXCEPT ![w] = "slot"] /\ p # << >> /\ sl[Head(p)] # "dead"
      BY <1>5, <1>7 DEF ForkWarm
    <2>2. PoolGood(slot', pool', request', where')
      BY <1>6, <2>1, PoolTakes
    <2>3. RestTypes' /\ Ending' /\ EndIsReal'
      BY <1>1, <1>2, <1>5, <2>1, RegistersEnding
    <2> QED BY <1>3, <2>2, <2>3 DEF WorkersInv
  <1>8. CASE ForkDead(w)
    <2>1. /\ slot' = [sl EXCEPT ![NextSlot(sl)] = "warming"]
          /\ pool' = Append(Tail(p), NextSlot(sl)) /\ request' = rq
          /\ where' = [wh EXCEPT ![w] = "cold"] /\ p # << >>
      BY <1>5, <1>8 DEF ForkDead, AddSlot
    <2>2. PICK v, q : v = [wh EXCEPT ![w] = "cold"] /\ q = Tail(p)
      OBVIOUS
    <2>3. PoolGood(sl, q, rq, wh) /\ Len(q) = Len(p) - 1
      BY <1>6, <2>1, <2>2, PoolDrops
    <2>4. PoolGood(sl, q, rq, v) /\ Cardinality(Spent(v)) = Cardinality(Spent(wh)) + 1
      BY <1>6, <2>2, <2>3, PoolApart
    <2>5. Cardinality(Used(sl)) + 1 <= Capacity + Cardinality(Spent(v))
      BY <2>3, <2>4, SlotsFinite, WorkersAssumption DEF PoolGood
    <2>6. Len(q) + 1 + Cardinality(Held(rq)) <= Capacity
      <3>1. Len(p) \in Nat /\ Cardinality(Held(rq)) \in Nat
        BY <1>6, SlotsFinite DEF PoolGood, PoolTypes
      <3> QED BY <1>6, <2>3, <3>1, WorkersAssumption DEF PoolGood
    <2>7. PoolGood(slot', pool', request', where')
      BY <2>1, <2>2, <2>4, <2>5, <2>6, PoolAdds
    <2>8. RestTypes' /\ Ending' /\ EndIsReal'
      BY <1>1, <1>2, <1>5, <2>1, RegistersEnding
    <2> QED BY <1>3, <2>7, <2>8 DEF WorkersInv
  <1>9. CASE ForkEmpty(w)
    <2>1. slot' = sl /\ pool' = p /\ request' = rq /\ where' = [wh EXCEPT ![w] = "cold"]
      BY <1>5, <1>9 DEF ForkEmpty
    <2>2. PoolGood(slot', pool', request', where')
      BY <1>6, <2>1, PoolApart
    <2>3. RestTypes' /\ Ending' /\ EndIsReal'
      BY <1>1, <1>2, <1>5, <2>1, RegistersEnding
    <2> QED BY <1>3, <2>2, <2>3 DEF WorkersInv
  <1> QED BY <1>7, <1>8, <1>9 DEF Fork

LEMMA NewWorkerInv == ASSUME WorkersInv, NEW w \in Worker, NewWorker(w) PROVE WorkersInv'
  <1>1. /\ Registers(w) /\ where' = [where EXCEPT ![w] = "cold"]
        /\ UNCHANGED <<poolVars, script, mail, events>>
    BY DEF NewWorker
  <1>2. ColdStart'
    BY <1>1 DEF WorkersInv, ColdStart, poolVars
  <1>3. PoolGood(slot', pool', request', where')
    <2>1. where[w] = "new" /\ PoolGood(slot, pool, request, where)
      BY <1>1 DEF Registers, WorkersInv
    <2>2. PoolGood(slot, pool, request, [where EXCEPT ![w] = "cold"])
      BY <2>1, PoolApart
    <2> QED BY <1>1, <2>2 DEF poolVars
  <1>4. warmed' \in BOOLEAN
    BY <1>1 DEF poolVars, WorkersInv, RestTypes
  <1>5. RestTypes' /\ Ending' /\ EndIsReal'
    <2>1. UNCHANGED <<alive, panics, script, mail, events>>
      BY <1>1 DEF poolVars
    <2> QED BY <1>1, <1>4, <2>1, RegistersEnding
  <1> QED BY <1>2, <1>3, <1>5 DEF WorkersInv

(* Warm, Receive and PoolGone.                                             *)
LEMMA SlotGoesOn ==
    ASSUME WorkersInv, NEW s \in Slots, Warm(s) \/ Receive(s) \/ PoolGone(s)
    PROVE  WorkersInv'
  <1>0. /\ slot \in [Slots -> Thread] /\ request \in [Slots -> Worker \cup {NoWorker}]
        /\ where \in [Worker -> Holder]
    BY DEF WorkersInv, PoolGood, PoolTypes
  <1>1. /\ UNCHANGED <<alive, warmed, pool, request, panics, mail, events, parentVars>>
        /\ slot[s] # "none"
    BY DEF Warm, Receive, PoolGone, threadVars
  <1>2. PICK t \in Thread :
          /\ slot' = [slot EXCEPT ![s] = t]
          /\ \/ slot[s] = "warming" /\ t = "ready" /\ where' = where
             \/ slot[s] = "ready" /\ t = "running" /\ request[s] # NoWorker
                /\ where' = [where EXCEPT ![request[s]] = "warm"]
             \/ slot[s] \in {"warming", "ready"} /\ t = "dead" /\ request[s] = NoWorker
                /\ where' = where
    <2>1. CASE Warm(s)
      BY <2>1 DEF Warm, Thread, threadVars
    <2>2. CASE Receive(s)
      BY <2>2 DEF Receive, Thread
    <2>3. CASE PoolGone(s)
      BY <2>3 DEF PoolGone, Thread, threadVars
    <2> QED BY <2>1, <2>2, <2>3
  <1>3. PoolGood(slot', pool', request', where')
    <2>1. PICK sl, p, rq, wh, v : sl = slot /\ p = pool /\ rq = request /\ wh = where /\ v = where'
      OBVIOUS
    <2>2. PoolGood(sl, p, rq, wh)
      BY <2>1 DEF WorkersInv
    <2>3. PoolGood([sl EXCEPT ![s] = t], p, rq, v)
      BY <1>2, <2>1, <2>2, SlotMoves
    <2> QED BY <1>1, <1>2, <2>1, <2>3
  <1>4. ColdStart'
    BY <1>1 DEF WorkersInv, ColdStart
  <1>5. /\ \A w \in Worker : where[w] = "gone" <=> where'[w] = "gone"
        /\ \A w \in Worker : where[w] = "new" <=> where'[w] = "new"
    <2>1. request[s] # NoWorker => where[request[s]] \in {"slot", "warm"}
      BY DEF WorkersInv, PoolGood, Requests
    <2> QED BY <1>0, <1>2, <2>1
  <1>6. script' \in [Worker -> {"starts", "runs", "waits", "ends"}]
    BY DEF WorkersInv, RestTypes, Warm, Receive, PoolGone, threadVars
  <1>7. RestTypes'
    <2>1. alive' \in BOOLEAN /\ warmed' \in BOOLEAN
      BY <1>1 DEF WorkersInv, RestTypes
    <2> QED BY <1>1, <1>6, <2>1 DEF WorkersInv, RestTypes, parentVars
  <1>8. Ending' /\ EndIsReal'
    BY <1>1, <1>5 DEF WorkersInv, Ending, EndIsReal, parentVars
  <1> QED BY <1>3, <1>4, <1>7, <1>8 DEF WorkersInv

LEMMA PanicInv == ASSUME WorkersInv, NEW s \in Slots, Panic(s) PROVE WorkersInv'
  <1>0. /\ slot \in [Slots -> Thread] /\ request \in [Slots -> Worker \cup {NoWorker}]
        /\ where \in [Worker -> Holder]
    BY DEF WorkersInv, PoolGood, PoolTypes
  <1>1. /\ UNCHANGED <<alive, warmed, pool, events, parentVars>> /\ slot[s] \in {"warming", "running"}
        /\ slot' = [slot EXCEPT ![s] = "dead"] /\ Unwinds(request[s])
        /\ request' = [request EXCEPT ![s] = NoWorker]
        /\ panics' = panics + 1 /\ panics < MaxPanics
    BY DEF Panic
  <1>2. ColdStart'
    BY <1>1 DEF WorkersInv, ColdStart
  <1>3. alive' \in BOOLEAN /\ warmed' \in BOOLEAN
    BY <1>1 DEF WorkersInv, RestTypes
  <1>4. panics' \in 0 .. MaxPanics
    BY <1>1, WorkersAssumption DEF WorkersInv, RestTypes
  <1>5. CASE request[s] = NoWorker
    <2>1. UNCHANGED threadVars /\ request' = request /\ slot[s] = "warming"
      BY <1>0, <1>1, <1>5 DEF Unwinds, WorkersInv, PoolGood, Requests
    <2>2. PoolGood([slot EXCEPT ![s] = "dead"], pool, request, where)
      <3>1. PICK sl, p, rq, wh : sl = slot /\ p = pool /\ rq = request /\ wh = where
        OBVIOUS
      <3>2. PoolGood(sl, p, rq, wh) /\ sl[s] \in {"warming", "ready"} /\ rq[s] = NoWorker
        BY <1>5, <2>1, <3>1 DEF WorkersInv
      <3>3. "dead" \in Thread
        BY DEF Thread
      <3>4. PoolGood([sl EXCEPT ![s] = "dead"], p, rq, wh)
        BY <3>2, <3>3, SlotMoves
      <3> QED BY <3>1, <3>4
    <2>3. PoolGood(slot', pool', request', where')
      BY <1>1, <2>1, <2>2 DEF threadVars
    <2>4. RestTypes'
      BY <1>1, <1>3, <1>4, <2>1 DEF WorkersInv, RestTypes, threadVars, parentVars
    <2>5. Ending' /\ EndIsReal'
      BY <1>1, <2>1 DEF WorkersInv, Ending, EndIsReal, threadVars, parentVars
    <2> QED BY <1>2, <2>3, <2>4, <2>5 DEF WorkersInv
  <1>6. CASE request[s] # NoWorker
    <2>1. /\ where' = [where EXCEPT ![request[s]] = "gone"]
          /\ mail' = [mail EXCEPT ![request[s]] = 0]
          /\ script' = [script EXCEPT ![request[s]] = "ends"]
          /\ request[s] \in Worker /\ where[request[s]] # "new"
      BY <1>0, <1>1, <1>6 DEF Unwinds, WorkersInv, PoolGood, Requests
    <2>2. PoolGood(slot', pool', request', where')
      <3>1. PICK sl, p, rq, wh : sl = slot /\ p = pool /\ rq = request /\ wh = where
        OBVIOUS
      <3>2. PoolGood(sl, p, rq, wh) /\ rq[s] # NoWorker
        BY <1>6, <3>1 DEF WorkersInv
      <3>3. PoolGood([sl EXCEPT ![s] = "dead"], p, [rq EXCEPT ![s] = NoWorker],
                     [wh EXCEPT ![rq[s]] = "gone"])
        BY <3>2, SlotEnds
      <3> QED BY <1>1, <2>1, <3>1, <3>3
    <2>3. RestTypes'
      <3>1. 0 \in 0 .. MaxPosts
        BY WorkersAssumption
      <3>2. mail' \in [Worker -> 0 .. MaxPosts]
        BY <2>1, <3>1 DEF WorkersInv, RestTypes
      <3>3. script' \in [Worker -> {"starts", "runs", "waits", "ends"}]
        BY <2>1 DEF WorkersInv, RestTypes
      <3> QED BY <1>1, <1>3, <1>4, <3>2, <3>3 DEF WorkersInv, RestTypes, parentVars
    <2>4. \A u \in Worker : HasExit(events'[u]) => HasExit(events[u]) \/ u = request[s]
      BY <1>1, Zenon
    <2>5. Ending' /\ EndIsReal'
      <3>1. PICK w \in Worker : w = request[s]
        BY <2>1
      <3> QED BY <1>1, <2>1, <2>4, <3>1, GoneEnding
    <2> QED BY <1>2, <2>2, <2>3, <2>5 DEF WorkersInv
  <1> QED BY <1>5, <1>6

(* What the end of a script leaves alone and what it sets.                 *)
LEMMA ScriptEndsInv ==
    ASSUME WorkersInv, NEW w \in Worker, where[w] # "new",
           ScriptEnds(w, <<"exit">>) \/ ScriptEnds(w, <<"note", "exit">>)
    PROVE  /\ RestTypes' /\ Ending' /\ EndIsReal'
           /\ where' = [where EXCEPT ![w] = "gone"] /\ UNCHANGED <<alive, warmed>>
  <1>0. <<"exit">> \in Seq(Event) /\ <<"note", "exit">> \in Seq(Event)
    BY DEF Event
  <1>1. PICK last \in Seq(Event) : ScriptEnds(w, last)
    BY <1>0
  <1>2. /\ Send(w, last) /\ where' = [where EXCEPT ![w] = "gone"]
        /\ mail' = [mail EXCEPT ![w] = 0] /\ script' = [script EXCEPT ![w] = "ends"]
        /\ UNCHANGED <<alive, warmed, panics, parentVars>>
    BY <1>1 DEF ScriptEnds
  <1>3. RestTypes
    BY DEF WorkersInv
  <1>4. /\ events' \in [Worker -> Seq(Event)]
        /\ \A u \in Worker : HasExit(events'[u]) => HasExit(events[u]) \/ u = w
    BY <1>2, <1>3, SendAdds
  <1>5. RestTypes'
    <2>1. 0 \in 0 .. MaxPosts
      BY WorkersAssumption
    <2>2. mail' \in [Worker -> 0 .. MaxPosts]
      BY <1>2, <2>1 DEF WorkersInv, RestTypes
    <2>3. script' \in [Worker -> {"starts", "runs", "waits", "ends"}]
      BY <1>2 DEF WorkersInv, RestTypes
    <2>4. alive' \in BOOLEAN /\ warmed' \in BOOLEAN
      BY <1>2 DEF WorkersInv, RestTypes
    <2> QED BY <1>2, <1>4, <2>2, <2>3, <2>4 DEF WorkersInv, RestTypes, parentVars
  <1>6. Ending' /\ EndIsReal'
    BY <1>2, <1>4, GoneEnding
  <1> QED BY <1>2, <1>5, <1>6

LEMMA ColdEndsInv == ASSUME WorkersInv, NEW w \in Worker, ColdEnds(w) PROVE WorkersInv'
  <1>1. /\ where[w] = "cold" /\ UNCHANGED <<pool, slot, request>>
        /\ ScriptEnds(w, <<"exit">>) \/ ScriptEnds(w, <<"note", "exit">>)
    BY DEF ColdEnds
  <1>2. /\ RestTypes' /\ Ending' /\ EndIsReal'
        /\ where' = [where EXCEPT ![w] = "gone"] /\ UNCHANGED <<alive, warmed>>
    BY <1>1, ScriptEndsInv
  <1>3. PoolGood(slot, pool, request, [where EXCEPT ![w] = "gone"])
    BY <1>1, PoolApart DEF WorkersInv
  <1>4. PoolGood(slot', pool', request', where')
    BY <1>1, <1>2, <1>3
  <1>5. ColdStart'
    BY <1>1, <1>2 DEF WorkersInv, ColdStart
  <1> QED BY <1>2, <1>4, <1>5 DEF WorkersInv

LEMMA ColdPanicsInv == ASSUME WorkersInv, NEW w \in Worker, ColdPanics(w) PROVE WorkersInv'
  <1>1. /\ where[w] = "cold" /\ panics' = panics + 1 /\ panics < MaxPanics
        /\ UNCHANGED <<alive, warmed, pool, slot, request, events, parentVars>>
    BY DEF ColdPanics
  <1>2. /\ where' = [where EXCEPT ![w] = "gone"] /\ mail' = [mail EXCEPT ![w] = 0]
        /\ script' = [script EXCEPT ![w] = "ends"]
    <2>1. w # NoWorker
      BY WorkersAssumption DEF Worker, NoWorker
    <2> QED BY <2>1 DEF ColdPanics, Unwinds
  <1>3. PoolGood(slot', pool', request', where')
    <2>1. PoolGood(slot, pool, request, [where EXCEPT ![w] = "gone"])
      BY <1>1, PoolApart DEF WorkersInv
    <2> QED BY <1>1, <1>2, <2>1
  <1>4. ColdStart'
    BY <1>1 DEF WorkersInv, ColdStart
  <1>5. RestTypes'
    <2>1. 0 \in 0 .. MaxPosts /\ panics' \in 0 .. MaxPanics
      BY <1>1, WorkersAssumption DEF WorkersInv, RestTypes
    <2>2. mail' \in [Worker -> 0 .. MaxPosts]
      BY <1>2, <2>1 DEF WorkersInv, RestTypes
    <2>3. script' \in [Worker -> {"starts", "runs", "waits", "ends"}]
      BY <1>2 DEF WorkersInv, RestTypes
    <2>4. alive' \in BOOLEAN /\ warmed' \in BOOLEAN
      BY <1>1 DEF WorkersInv, RestTypes
    <2> QED BY <1>1, <2>1, <2>2, <2>3, <2>4 DEF WorkersInv, RestTypes, parentVars
  <1>6. \A u \in Worker : HasExit(events'[u]) => HasExit(events[u]) \/ u = w
    BY <1>1, Zenon
  <1>7. Ending' /\ EndIsReal'
    BY <1>1, <1>2, <1>6, GoneEnding
  <1> QED BY <1>3, <1>4, <1>5, <1>7 DEF WorkersInv

LEMMA WarmEndsInv == ASSUME WorkersInv, NEW s \in Slots, WarmEnds(s) PROVE WorkersInv'
  <1>1. PICK sl, p, rq, wh : sl = slot /\ p = pool /\ rq = request /\ wh = where
    OBVIOUS
  <1>2. PICK tl, r, v : /\ tl = [sl EXCEPT ![s] = "dead"] /\ r = [rq EXCEPT ![s] = NoWorker]
                        /\ v = [wh EXCEPT ![rq[s]] = "gone"]
    OBVIOUS
  <1>3. /\ sl[s] = "running" /\ request' = r
        /\ ScriptEnds(rq[s], <<"exit">>) \/ ScriptEnds(rq[s], <<"note", "exit">>)
        /\ \/ slot' = [tl EXCEPT ![NextSlot(tl)] = "warming"] /\ pool' = Append(p, NextSlot(tl))
           \/ slot' = tl /\ pool' = p
    BY <1>1, <1>2 DEF WarmEnds, AddSlot
  <1>4. PoolGood(sl, p, rq, wh)
    BY <1>1 DEF WorkersInv
  <1>5. rq[s] # NoWorker /\ rq[s] \in Worker /\ wh[rq[s]] # "new"
    BY <1>3, <1>4 DEF PoolGood, PoolTypes, Requests
  <1>6. /\ RestTypes' /\ Ending' /\ EndIsReal' /\ where' = v /\ UNCHANGED <<alive, warmed>>
    <2>1. PICK w \in Worker : w = rq[s]
      BY <1>5
    <2> QED BY <1>1, <1>2, <1>3, <1>5, <2>1, ScriptEndsInv
  <1>7. /\ PoolGood(tl, p, r, v)
        /\ Cardinality(Used(tl)) + 1 <= Capacity + Cardinality(Spent(v))
        /\ Len(p) + 1 + Cardinality(Held(r)) <= Capacity
    BY <1>2, <1>4, <1>5, SlotEnds
  <1>8. PoolGood(slot', pool', request', where')
    <2>1. PoolGood([tl EXCEPT ![NextSlot(tl)] = "warming"], Append(p, NextSlot(tl)), r, v)
      BY <1>7, PoolAdds
    <2> QED BY <1>3, <1>6, <1>7, <2>1
  <1>9. ColdStart'
    BY <1>1, <1>3, <1>6 DEF WorkersInv, ColdStart
  <1> QED BY <1>6, <1>8, <1>9 DEF WorkersInv

LEMMA DropParentInv == ASSUME WorkersInv, DropParent PROVE WorkersInv'
  <1>1. /\ alive' = FALSE /\ pool' = << >> /\ handles' = {} /\ receivers' = {}
        /\ recv' = [w \in Worker |-> "ended"] /\ events' = [w \in Worker |-> << >>]
        /\ got' = [w \in Worker |-> "note"]
        /\ UNCHANGED <<warmed, slot, request, panics, where, script, mail, closed>>
    BY DEF DropParent, threadVars
  <1>2. PoolGood(slot', pool', request', where')
    BY <1>1, PoolDrops DEF WorkersInv
  <1>3. alive' \in BOOLEAN /\ warmed' \in BOOLEAN
    <2>1. alive' \in BOOLEAN
      BY <1>1, Zenon
    <2> QED BY <1>1, <2>1 DEF WorkersInv, RestTypes
  <1>4. RestTypes'
    BY <1>1, <1>3 DEF WorkersInv, RestTypes, Event
  <1>5. ColdStart'
    BY <1>1 DEF WorkersInv, ColdStart
  <1>6. \A w \in Worker : ~HasExit(events'[w])
    BY <1>1 DEF HasExit
  <1>7. Ending' /\ EndIsReal'
    BY <1>1, <1>6 DEF WorkersInv, Ending, EndIsReal
  <1> QED BY <1>2, <1>4, <1>5, <1>7 DEF WorkersInv

(* The steps of a worker that runs, and a message to it.                   *)
LEMMA WorkerGoesOn ==
    ASSUME WorkersInv, NEW w \in Worker,
           WorkerPost(w) \/ WorkerRecv(w) \/ WorkerRecvDone(w) \/ Online(w) \/ ParentPost(w)
    PROVE  WorkersInv'
  <1>0. /\ script \in [Worker -> {"starts", "runs", "waits", "ends"}]
        /\ mail \in [Worker -> 0 .. MaxPosts]
    BY DEF WorkersInv, RestTypes
  <1>1. UNCHANGED <<poolVars, where, parentVars>>
    BY DEF WorkerPost, WorkerRecv, WorkerRecvDone, Online, ParentPost, threadVars
  <1>2. PoolGood(slot', pool', request', where') /\ ColdStart'
    BY <1>1, PoolKept
  <1>3. /\ events' \in [Worker -> Seq(Event)]
        /\ \A u \in Worker : HasExit(events'[u]) => HasExit(events[u])
    <2>1. CASE events' = events
      BY <2>1, Zenon DEF WorkersInv, RestTypes
    <2>2. CASE Send(w, <<"note">>)
      <3>1. RestTypes /\ <<"note">> \in Seq(Event) /\ ~HasExit(<<"note">>)
        BY DEF WorkersInv, Event, HasExit
      <3> QED BY <2>2, <3>1, SendAdds
    <2> QED BY <2>1, <2>2 DEF WorkerPost, WorkerRecv, WorkerRecvDone, Online, ParentPost
  <1>4. script' \in [Worker -> {"starts", "runs", "waits", "ends"}]
    BY <1>0 DEF WorkerPost, WorkerRecv, WorkerRecvDone, Online, ParentPost, threadVars
  <1>5. mail' \in [Worker -> 0 .. MaxPosts]
    <2>1. CASE mail' = mail
      BY <1>0, <2>1
    <2>2. CASE mail[w] > 0 /\ mail' = [mail EXCEPT ![w] = @ - 1]
      BY <1>0, <2>2, WorkersAssumption
    <2>3. CASE mail[w] < MaxPosts /\ mail' = [mail EXCEPT ![w] = @ + 1]
      BY <1>0, <2>3, WorkersAssumption
    <2> QED BY <2>1, <2>2, <2>3
           DEF WorkerPost, WorkerRecv, WorkerRecvDone, Online, ParentPost, threadVars
  <1>6. alive' \in BOOLEAN /\ warmed' \in BOOLEAN
    BY <1>1 DEF WorkersInv, RestTypes, poolVars
  <1>7. RestTypes'
    BY <1>1, <1>3, <1>4, <1>5, <1>6 DEF WorkersInv, RestTypes, poolVars, parentVars
  <1>8. Ending' /\ EndIsReal'
    BY <1>1, <1>3 DEF WorkersInv, Ending, EndIsReal, poolVars, parentVars
  <1> QED BY <1>2, <1>7, <1>8 DEF WorkersInv

(* The parent's receive loop and terminate.                                *)
LEMMA RecvInv ==
    ASSUME WorkersInv, NEW w \in Worker, Recv(w) \/ RecvGone(w) PROVE WorkersInv'
  <1>0. recv \in [Worker -> {"idle", "blocked", "got", "ended"}]
    BY DEF WorkersInv, RestTypes
  <1>1. UNCHANGED <<poolVars, threadVars, events, handles, closed, got>>
    BY DEF Recv, RecvGone
  <1>2. PoolGood(slot', pool', request', where') /\ ColdStart'
    BY <1>1, PoolKept DEF threadVars
  <1>3. PICK r \in {"blocked", "ended"} :
          /\ recv' = [recv EXCEPT ![w] = r]
          /\ r = "ended" /\ alive => w \in closed \/ where[w] = "gone"
    <2>1. CASE Recv(w)
      BY <2>1 DEF Recv, WorkersInv, Ending
    <2>2. CASE RecvGone(w)
      BY <2>2 DEF RecvGone
    <2> QED BY <2>1, <2>2
  <1>4. receivers' \subseteq receivers /\ \A u \in Worker : u # w /\ u \in receivers => u \in receivers'
    BY DEF Recv, RecvGone
  <1>5. \A u \in Worker : recv'[u] = IF u = w THEN r ELSE recv[u]
    BY <1>0, <1>3
  <1>6. alive' \in BOOLEAN /\ warmed' \in BOOLEAN
    BY <1>1 DEF WorkersInv, RestTypes, poolVars
  <1>7. RestTypes'
    <2>1. recv' \in [Worker -> {"idle", "blocked", "got", "ended"}]
      BY <1>0, <1>3
    <2> QED BY <1>1, <1>4, <1>6, <2>1 DEF WorkersInv, RestTypes, poolVars, threadVars
  <1>8. where[w] = "new" => ~alive
    BY DEF Recv, RecvGone, WorkersInv, Ending
  <1>9. Ending' /\ EndIsReal'
    BY <1>1, <1>3, <1>4, <1>5, <1>8 DEF WorkersInv, Ending, EndIsReal, poolVars, threadVars
  <1> QED BY <1>2, <1>7, <1>9 DEF WorkersInv

LEMMA RecvEventInv == ASSUME WorkersInv, NEW w \in Worker, RecvEvent(w) PROVE WorkersInv'
  <1>0. /\ recv \in [Worker -> {"idle", "blocked", "got", "ended"}]
        /\ got \in [Worker -> Event] /\ events \in [Worker -> Seq(Event)]
    BY DEF WorkersInv, RestTypes
  <1>1. /\ UNCHANGED <<poolVars, threadVars, handles, receivers, closed>>
        /\ recv[w] = "blocked" /\ recv' = [recv EXCEPT ![w] = "got"]
    BY DEF RecvEvent
  <1>2. PoolGood(slot', pool', request', where') /\ ColdStart'
    BY <1>1, PoolKept DEF threadVars
  <1>3. PICK s \in Seq(Event) : s = events[w] /\ s # << >>
    BY <1>0 DEF RecvEvent
  <1>4. PICK t \in Seq(Event), e \in Event : t = Tail(s) /\ e = Head(s)
    <2>1. Tail(s) \in Seq(Event) /\ Head(s) \in Event
      BY <1>3
    <2> QED BY <2>1
  <1>5. events' = [events EXCEPT ![w] = t] /\ got' = [got EXCEPT ![w] = e]
    BY <1>3, <1>4 DEF RecvEvent
  <1>6. HasExit(t) \/ e = "exit" => HasExit(events[w])
    BY <1>3, <1>4 DEF HasExit
  <1>7. /\ \A u \in Worker : recv'[u] = IF u = w THEN "got" ELSE recv[u]
        /\ \A u \in Worker : got'[u] = IF u = w THEN e ELSE got[u]
        /\ \A u \in Worker : events'[u] = IF u = w THEN t ELSE events[u]
    BY <1>0, <1>1, <1>5
  <1>8. \A u \in Worker : HasExit(events'[u]) \/ got'[u] = "exit" => HasExit(events[u]) \/ got[u] = "exit"
    <2>1. SUFFICES ASSUME NEW u \in Worker
                   PROVE  HasExit(events'[u]) \/ got'[u] = "exit" => HasExit(events[u]) \/ got[u] = "exit"
      OBVIOUS
    <2>2. CASE u = w
      <3>1. events'[u] = t /\ got'[u] = e
        BY <1>7, <2>2
      <3> QED BY <1>6, <2>2, <3>1
    <2>3. CASE u # w
      <3>1. events'[u] = events[u] /\ got'[u] = got[u]
        BY <1>7, <2>3
      <3> QED BY <3>1
    <2> QED BY <2>2, <2>3
  <1>9. alive' \in BOOLEAN /\ warmed' \in BOOLEAN
    BY <1>1 DEF WorkersInv, RestTypes, poolVars
  <1>10. RestTypes'
    <2>1. /\ recv' \in [Worker -> {"idle", "blocked", "got", "ended"}]
          /\ got' \in [Worker -> Event] /\ events' \in [Worker -> Seq(Event)]
      BY <1>0, <1>1, <1>4, <1>5
    <2> QED BY <1>1, <1>9, <2>1 DEF WorkersInv, RestTypes, poolVars, threadVars
  <1>11. Ending' /\ EndIsReal'
    BY <1>1, <1>7, <1>8 DEF WorkersInv, Ending, EndIsReal, poolVars, threadVars
  <1> QED BY <1>2, <1>10, <1>11 DEF WorkersInv

LEMMA RecvReturnInv == ASSUME WorkersInv, NEW w \in Worker, RecvReturn(w) PROVE WorkersInv'
  <1>0. /\ recv \in [Worker -> {"idle", "blocked", "got", "ended"}]
        /\ got \in [Worker -> Event] /\ events \in [Worker -> Seq(Event)]
    BY DEF WorkersInv, RestTypes
  <1>1. /\ UNCHANGED <<poolVars, threadVars, handles, closed>> /\ recv[w] = "got"
        /\ receivers' = IF w \in closed THEN receivers ELSE receivers \cup {w}
        /\ got' = [got EXCEPT ![w] = "note"]
    BY DEF RecvReturn, ReinsertReceiver
  <1>2. PoolGood(slot', pool', request', where') /\ ColdStart'
    BY <1>1, PoolKept DEF threadVars
  <1>3. PICK r \in {"idle", "ended"} :
          recv' = [recv EXCEPT ![w] = r] /\ (r = "ended" => got[w] = "exit")
    BY DEF RecvReturn
  <1>4. /\ \A u \in Worker : recv'[u] = IF u = w THEN r ELSE recv[u]
        /\ \A u \in Worker : got'[u] = IF u = w THEN "note" ELSE got[u]
    BY <1>0, <1>1, <1>3
  <1>5. \A u \in Worker : events'[u] = events[u] \/ events'[u] = << >>
    BY <1>0 DEF RecvReturn
  <1>6. \A u \in Worker : HasExit(events'[u]) => HasExit(events[u])
    <2>1. ~HasExit(<< >>)
      BY DEF HasExit
    <2> QED BY <1>5, <2>1, Zenon
  <1>7. alive' \in BOOLEAN /\ warmed' \in BOOLEAN
    BY <1>1 DEF WorkersInv, RestTypes, poolVars
  <1>8. RestTypes'
    <2>1. /\ recv' \in [Worker -> {"idle", "blocked", "got", "ended"}] /\ got' \in [Worker -> Event]
      BY <1>0, <1>1, <1>3 DEF Event
    <2>2. events' \in [Worker -> Seq(Event)]
      BY <1>0 DEF RecvReturn
    <2> QED BY <1>1, <1>7, <2>1, <2>2 DEF WorkersInv, RestTypes, poolVars, threadVars
  <1>9. where[w] = "new" => ~alive
    BY <1>1 DEF WorkersInv, Ending
  <1>10. \A u \in Worker : got'[u] = "exit" => got[u] = "exit"
    BY <1>4
  <1>11. Ending'
    BY <1>1, <1>4, <1>6, <1>9, <1>10 DEF WorkersInv, Ending, poolVars, threadVars
  <1>12. EndIsReal'
    <2>1. r = "ended" => where[w] = "gone"
      BY <1>3 DEF WorkersInv, Ending
    <2> QED BY <1>1, <1>4, <2>1 DEF WorkersInv, EndIsReal, poolVars, threadVars
  <1> QED BY <1>2, <1>8, <1>11, <1>12 DEF WorkersInv

LEMMA TerminateInv == ASSUME WorkersInv, NEW w \in Worker, Terminate(w) PROVE WorkersInv'
  <1>0. events \in [Worker -> Seq(Event)]
    BY DEF WorkersInv, RestTypes
  <1>1. /\ UNCHANGED <<poolVars, threadVars, recv, got>> /\ where[w] # "new"
        /\ handles' = handles \ {w} /\ receivers' = receivers \ {w} /\ closed' = closed \cup {w}
    BY DEF Terminate
  <1>2. PoolGood(slot', pool', request', where') /\ ColdStart'
    BY <1>1, PoolKept DEF threadVars
  <1>3. \A u \in Worker : events'[u] = events[u] \/ events'[u] = << >>
    BY <1>0 DEF Terminate
  <1>4. \A u \in Worker : HasExit(events'[u]) => HasExit(events[u])
    <2>1. ~HasExit(<< >>)
      BY DEF HasExit
    <2> QED BY <1>3, <2>1, Zenon
  <1>5. alive' \in BOOLEAN /\ warmed' \in BOOLEAN
    BY <1>1 DEF WorkersInv, RestTypes, poolVars
  <1>6. RestTypes'
    <2>1. events' \in [Worker -> Seq(Event)]
      BY <1>0 DEF Terminate
    <2> QED BY <1>1, <1>5, <2>1 DEF WorkersInv, RestTypes, poolVars, threadVars
  <1>7. Ending' /\ EndIsReal'
    BY <1>1, <1>4 DEF WorkersInv, Ending, EndIsReal, poolVars, threadVars
  <1> QED BY <1>2, <1>6, <1>7 DEF WorkersInv

LEMMA WorkersStutterInv == ASSUME WorkersInv, UNCHANGED workerVars PROVE WorkersInv'
  <1>1. UNCHANGED <<poolVars, threadVars, events, parentVars>>
    BY DEF workerVars
  <1>2. PoolGood(slot', pool', request', where') /\ ColdStart'
    BY <1>1, PoolKept DEF threadVars
  <1>3. RestTypes' /\ Ending' /\ EndIsReal'
    BY <1>1 DEF WorkersInv, RestTypes, Ending, EndIsReal, poolVars, threadVars, parentVars
  <1> QED BY <1>2, <1>3 DEF WorkersInv

(* WorkersInv is inductive.                                                *)
LEMMA WorkersNextInv == WorkersInv /\ [WorkersNext]_workerVars => WorkersInv'
  <1> SUFFICES ASSUME WorkersInv, [WorkersNext]_workerVars PROVE WorkersInv'
    OBVIOUS
  <1>1. ASSUME NEW s \in Slots, SlotStep(s) \/ Panic(s) PROVE WorkersInv'
    BY <1>1, SlotGoesOn, WarmEndsInv, PanicInv DEF SlotStep
  <1>2. ASSUME NEW w \in Worker, Fork(w) \/ NewWorker(w) \/ Terminate(w) PROVE WorkersInv'
    BY <1>2, ForkInv, NewWorkerInv, TerminateInv
  <1>3. ASSUME NEW w \in Worker,
               \/ ParentPost(w) \/ WorkerPost(w) \/ WorkerRecv(w) \/ WorkerStep(w)
               \/ ColdPanics(w)
        PROVE  WorkersInv'
    BY <1>3, WorkerGoesOn, ColdEndsInv, ColdPanicsInv DEF WorkerStep
  <1>4. ASSUME NEW w \in Worker, RecvStep(w) PROVE WorkersInv'
    BY <1>4, RecvInv, RecvEventInv, RecvReturnInv DEF RecvStep
  <1>5. CASE DropParent
    BY <1>5, DropParentInv
  <1>6. CASE UNCHANGED workerVars
    BY <1>6, WorkersStutterInv
  <1> QED BY <1>1, <1>2, <1>3, <1>4, <1>5, <1>6 DEF WorkersNext

LEMMA WorkersInvHolds == WorkersSpec => []WorkersInv
  BY WorkersInitInv, WorkersNextInv, PTL DEF WorkersSpec

-----------------------------------------------------------------------------
(***************************************************************************)
(* However forks, deaths of threads, refills and the drop of the parent    *)
(* interleave, the pool's slots and the threads that will refill one (a    *)
(* request went to them) are never more than its capacity: fork.rs adds a  *)
(* slot only for one that was used up.                                     *)
(***************************************************************************)
THEOREM WorkersPoolNeverGrows == WorkersSpec => []PoolNeverGrows
  <1>1. WorkersInv => PoolNeverGrows
    BY DEF WorkersInv, PoolGood, PoolNeverGrows, Held
  <1> QED BY <1>1, WorkersInvHolds, PTL

(***************************************************************************)
(* A receive loop ends only with a worker that is gone or was terminated,  *)
(* and a terminated worker's receiver never goes back to the registry:     *)
(* parent_recv, reinsert_receiver and parent_terminate, any number of      *)
(* workers and messages.                                                   *)
(***************************************************************************)
THEOREM WorkersEndIsReal == WorkersSpec => []EndIsReal
  <1>1. WorkersInv => EndIsReal
    BY DEF WorkersInv
  <1> QED BY <1>1, WorkersInvHolds, PTL

(***************************************************************************)
(* The types of the workers' state, and no slot is in the pool twice: two  *)
(* forks never send to one channel.                                        *)
(***************************************************************************)
THEOREM WorkersTypeCorrect == WorkersSpec => []WorkersTypeOK
  <1>1. WorkersInv => WorkersTypeOK
    <2>1. SUFFICES ASSUME WorkersInv PROVE WorkersTypeOK
      OBVIOUS
    <2>2. pool \in Seq(Slots) /\ DOMAIN pool = 1 .. Len(pool)
      BY <2>1 DEF WorkersInv, PoolGood, PoolTypes
    <2>3. IsInjective(pool)
      BY <2>1, <2>2 DEF WorkersInv, PoolGood, PoolFree, IsInjective
    <2> QED BY <2>1, <2>3 DEF WorkersInv, RestTypes, PoolGood, PoolTypes, WorkersTypeOK
  <1> QED BY <1>1, WorkersInvHolds, PTL
=============================================================================
