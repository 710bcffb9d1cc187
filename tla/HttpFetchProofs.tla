-------------------------- MODULE HttpFetchProofs --------------------------
(***************************************************************************)
(* Proofs about the HTTP client's pool (HttpPool) and the fetches over it  *)
(* (HttpFetch), for every set of requests and every number of connections, *)
(* destroys, redirects and resends.                                        *)
(***************************************************************************)
EXTENDS HttpFetch, FiniteSetTheorems, TLAPS

-----------------------------------------------------------------------------
(* The pool.  A connection that is open is held by a request at the gate   *)
(* or sending, by its parking task, by the queue or by the HTTP/2 entry;   *)
(* only the entry's is shared.  One that nobody holds may be closed, which *)
(* is what lets a new one take its number.                                 *)

Holding == {"gate", "send"}

(* A request has an open connection exactly while it needs one, and waits  *)
(* at the gate for an HTTP/1 one.                                          *)
RequestsHold ==
    \A r \in Req :
        /\ req[r].pc \in Holding <=> req[r].conn # NoConn
        /\ req[r].conn # NoConn => conn[req[r].conn].open
        /\ req[r].pc = "gate" => ~conn[req[r].conn].h2

ParkingOpen == \A c \in Conns : parking[c].pc # "none" => conn[c].open /\ ~conn[c].h2

EntryOpen == h2 # NoConn => conn[h2].open /\ conn[h2].h2

PoolInv ==
    /\ PoolTypeOK
    /\ RequestsHold
    /\ ParkingOpen
    /\ EntryOpen
    /\ OneOwner

(* All but a destroy() leave these alone; its steps keep the type.         *)
Steady == hooked' = hooked /\ clearing' \in Clearing

LEMMA HttpPoolTypes ==
    ASSUME PoolInv
    PROVE  /\ hooked \in BOOLEAN /\ conn \in [Conns -> Connection] /\ idle \in Seq(Conns)
           /\ h2 \in Conns \cup {NoConn} /\ poolGen \in 0 .. MaxDestroys
           /\ parking \in [Conns -> Parking] /\ req \in [Req -> Request]
           /\ inUse \subseteq Conns /\ clearing \in Clearing
  BY DEF PoolInv, PoolTypeOK

LEMMA Steadily == ASSUME PoolInv, UNCHANGED <<hooked, clearing>> PROVE Steady
  BY HttpPoolTypes DEF Steady

LEMMA NoConnApart == NoConn \notin Conns
  BY DEF NoConn, Conns

LEMMA RecordTypes ==
    /\ Closed \in Connection /\ ~Closed.open
    /\ NoParking \in Parking /\ NoParking.pc = "none"
    /\ NoRequest \in Request /\ NoRequest.pc = "out" /\ NoRequest.conn = NoConn
  <1>1. Closed \in Connection
    BY Zenon DEF Closed, Connection
  <1>2. NoParking \in Parking
    <2>1. 0 \in 0 .. MaxDestroys
      BY HttpPoolAssumption
    <2> QED BY <2>1, Zenon DEF NoParking, Parking
  <1>3. NoRequest \in Request
    <2>1. NoConn \in Conns \cup {NoConn}
      OBVIOUS
    <2>2. "none" \in Outcome
      BY DEF Outcome
    <2> QED BY <2>1, <2>2, Zenon DEF NoRequest, Request
  <1> QED BY <1>1, <1>2, <1>3 DEF Closed, NoParking, NoRequest

LEMMA PoolInitInv == PoolInit => PoolInv
  <1> SUFFICES ASSUME PoolInit PROVE PoolInv
    OBVIOUS
  <1>1. Parked \in Connection
    BY Zenon DEF Parked, Connection
  <1>2. Parked.open /\ ~Parked.h2
    BY DEF Parked
  <1>3. conn \in [Conns -> Connection]
    BY <1>1, RecordTypes DEF PoolInit
  <1>4. idle \in Seq(Conns) /\ IsInjective(idle) /\ \A c \in ToSet(idle) : c = 1 /\ idle = <<1>>
    <2>1. CASE idle = << >>
      BY <2>1 DEF IsInjective, ToSet
    <2>2. CASE idle = <<1>> /\ 1 \in Conns
      <3>1. DOMAIN idle = {1} /\ idle[1] = 1 /\ idle \in Seq(Conns)
        BY <2>2
      <3> QED BY <2>2, <3>1 DEF IsInjective, ToSet
    <2> QED BY <2>1, <2>2 DEF PoolInit
  <1>5. \A c \in ToSet(idle) : conn[c].open /\ ~conn[c].h2
    BY <1>2, <1>4 DEF PoolInit
  <1>6. /\ parking = [c \in Conns |-> NoParking] /\ req = [r \in Req |-> NoRequest]
        /\ h2 = NoConn /\ poolGen = 0 /\ inUse = {} /\ hooked \in BOOLEAN
        /\ clearing = "none"
    BY Zenon DEF PoolInit
  <1>7. PoolTypeOK
    BY <1>3, <1>4, <1>6, RecordTypes, HttpPoolAssumption DEF PoolTypeOK, Clearing
  <1>8. \A r \in Req : req[r].conn = NoConn /\ req[r].pc = "out"
    BY <1>6, RecordTypes
  <1>9. \A c \in Conns : parking[c].pc = "none"
    BY <1>6, RecordTypes
  <1> QED BY <1>4, <1>5, <1>6, <1>7, <1>8, <1>9, NoConnApart
          DEF PoolInv, RequestsHold, Holding, ParkingOpen, EntryOpen, OneOwner

(* What a step makes of a request.                                         *)
LEMMA RequestGets ==
    ASSUME PoolInv, NEW r \in Req, NEW c \in Conns, NEW pc \in {"send", "gate"}
    PROVE  LET q == [req[r] EXCEPT !.pc = pc, !.conn = c]
           IN  q \in Request /\ q.pc = pc /\ q.conn = c
  BY HttpPoolTypes DEF Request

LEMMA RequestEnds ==
    ASSUME NEW out \in Outcome
    PROVE  LET q == [NoRequest EXCEPT !.pc = "done", !.out = out]
           IN  q \in Request /\ q.pc = "done" /\ q.conn = NoConn /\ q.pc \notin Holding
  BY RecordTypes DEF Request, Holding

(* The queue, without its front and with one more.                         *)
LEMMA QueueTail ==
    ASSUME NEW s \in Seq(Conns), s # << >>, IsInjective(s)
    PROVE  /\ Head(s) \in Conns /\ Head(s) \in ToSet(s)
           /\ Tail(s) \in Seq(Conns) /\ IsInjective(Tail(s))
           /\ ToSet(Tail(s)) = ToSet(s) \ {Head(s)}
  <1>1. /\ Len(s) \in Nat /\ Len(s) >= 1 /\ DOMAIN s = 1 .. Len(s)
        /\ Head(s) = s[1] /\ s[1] \in Conns
        /\ Tail(s) \in Seq(Conns) /\ Len(Tail(s)) = Len(s) - 1
        /\ \A i \in 1 .. Len(s) - 1 : Tail(s)[i] = s[i + 1]
    OBVIOUS
  <1>2. DOMAIN Tail(s) = 1 .. Len(s) - 1
    BY <1>1
  <1>3. IsInjective(Tail(s))
    BY <1>1, <1>2 DEF IsInjective
  <1>4. ASSUME NEW x \in ToSet(Tail(s)) PROVE x \in ToSet(s) /\ x # Head(s)
    <2>1. PICK i \in 1 .. Len(s) - 1 : x = s[i + 1]
      BY <1>1, <1>2 DEF ToSet
    <2> QED BY <1>1, <2>1 DEF ToSet, IsInjective
  <1>5. ASSUME NEW x \in ToSet(s), x # Head(s) PROVE x \in ToSet(Tail(s))
    <2>1. PICK i \in 1 .. Len(s) : x = s[i]
      BY <1>1 DEF ToSet
    <2>2. i - 1 \in 1 .. Len(s) - 1 /\ Tail(s)[i - 1] = s[i]
      BY <1>1, <1>5, <2>1
    <2> QED BY <1>2, <2>1, <2>2 DEF ToSet
  <1>6. Head(s) \in ToSet(s)
    BY <1>1 DEF ToSet
  <1> QED BY <1>1, <1>3, <1>4, <1>5, <1>6

LEMMA QueueAppend ==
    ASSUME NEW s \in Seq(Conns), NEW c \in Conns, IsInjective(s), c \notin ToSet(s)
    PROVE  /\ Append(s, c) \in Seq(Conns) /\ IsInjective(Append(s, c))
           /\ ToSet(Append(s, c)) = ToSet(s) \cup {c}
  <1>1. /\ Append(s, c) \in Seq(Conns) /\ Len(s) \in Nat /\ DOMAIN s = 1 .. Len(s)
        /\ DOMAIN Append(s, c) = 1 .. Len(s) + 1
        /\ Append(s, c)[Len(s) + 1] = c
        /\ \A i \in 1 .. Len(s) : Append(s, c)[i] = s[i]
    OBVIOUS
  <1>2. \A i \in 1 .. Len(s) : s[i] # c
    BY <1>1 DEF ToSet
  <1>3. \A i \in 1 .. Len(s) + 1 : i \in 1 .. Len(s) \/ i = Len(s) + 1
    BY <1>1
  <1>4. IsInjective(Append(s, c))
    BY <1>1, <1>2, <1>3 DEF IsInjective
  <1>5. ToSet(Append(s, c)) = ToSet(s) \cup {c}
    <2>1. ASSUME NEW x \in ToSet(Append(s, c)) PROVE x \in ToSet(s) \cup {c}
      BY <1>1, <1>3 DEF ToSet
    <2>2. ASSUME NEW x \in ToSet(s) PROVE x \in ToSet(Append(s, c))
      <3>1. PICK i \in 1 .. Len(s) : x = s[i]
        BY <1>1 DEF ToSet
      <3>2. i \in 1 .. Len(s) + 1 /\ Append(s, c)[i] = x
        BY <1>1, <3>1
      <3> QED BY <1>1, <3>2 DEF ToSet
    <2>3. c \in ToSet(Append(s, c))
      <3>1. Len(s) + 1 \in 1 .. Len(s) + 1
        BY <1>1
      <3> QED BY <1>1, <3>1 DEF ToSet
    <2> QED BY <2>1, <2>2, <2>3
  <1> QED BY <1>1, <1>4, <1>5

(* The queue, with the entries kept at some of its indexes.                *)
LEMMA QueueKept ==
    ASSUME NEW s \in Seq(Conns), NEW K \in SUBSET DOMAIN s, IsInjective(s),
           NEW at \in InOrder(K)
    PROVE  LET t == [k \in DOMAIN at |-> s[at[k]]]
           IN  t \in Seq(Conns) /\ IsInjective(t) /\ ToSet(t) \subseteq {s[i] : i \in K}
  <1> DEFINE n == Cardinality(K)
             t == [k \in DOMAIN at |-> s[at[k]]]
  <1>1. DOMAIN s = 1 .. Len(s) /\ Len(s) \in Nat
    OBVIOUS
  <1>2. n \in Nat
    <2>1. IsFiniteSet(1 .. Len(s))
      BY <1>1, FS_Interval
    <2>2. IsFiniteSet(K)
      BY <1>1, <2>1, FS_Subset
    <2> QED BY <2>2, FS_CardinalityType
  <1>3. at \in [1 .. n -> K] /\ \A i, j \in 1 .. n : i < j => at[i] < at[j]
    BY DEF InOrder, Orders
  <1> HIDE DEF n
  <1>4. DOMAIN t = 1 .. n /\ \A k \in 1 .. n : t[k] = s[at[k]] /\ at[k] \in K
    BY <1>3
  <1>5. t \in Seq(Conns)
    BY <1>1, <1>2, <1>4
  <1>6. ASSUME NEW i \in 1 .. n, NEW j \in 1 .. n, t[i] = t[j] PROVE i = j
    <2>1. at[i] = at[j]
      BY <1>4, <1>6 DEF IsInjective
    <2>2. at[i] \in Nat /\ at[j] \in Nat
      BY <1>1, <1>4
    <2> QED BY <1>2, <1>3, <2>1, <2>2
  <1>7. IsInjective(t)
    BY <1>4, <1>6 DEF IsInjective
  <1>8. ToSet(t) \subseteq {s[i] : i \in K}
    BY <1>4 DEF ToSet
  <1> QED BY <1>5, <1>7, <1>8

(* A step in which connections are let go and none is taken: the ones in S *)
(* are closed, held by nobody from then on.                                *)
LEMMA Releases ==
    ASSUME PoolInv, PoolTypeOK', NEW S \in SUBSET Conns,
           \A b \in Conns \ S : conn'[b].open = conn[b].open /\ conn'[b].h2 = conn[b].h2,
           IsInjective(idle'), ToSet(idle') \subseteq ToSet(idle) \ S,
           h2' \in {h2, NoConn} \ S,
           \A b \in Conns : parking'[b].pc # "none" => parking[b].pc # "none" /\ b \notin S,
           \A q \in Req : /\ req'[q].conn \in ({req[q].conn} \ S) \cup {NoConn}
                          /\ req'[q].pc \in Holding <=> req'[q].conn # NoConn
                          /\ req'[q].pc = "gate" => req[q].pc = "gate"
    PROVE  PoolInv'
  <1>1. \A q \in Req : req[q].conn \in Conns \cup {NoConn}
    BY HttpPoolTypes DEF Request
  <1>2. ToSet(idle) \subseteq Conns
    BY HttpPoolTypes DEF ToSet
  <1>3. RequestsHold'
    <2>1. ASSUME NEW q \in Req, req'[q].conn # NoConn
          PROVE  /\ req'[q].conn = req[q].conn /\ req[q].conn \in Conns \ S
                 /\ conn[req[q].conn].open
      BY <1>1, <2>1 DEF PoolInv, RequestsHold
    <2>2. ASSUME NEW q \in Req, req'[q].pc = "gate"
          PROVE  ~conn'[req'[q].conn].h2
      BY <2>1, <2>2 DEF PoolInv, RequestsHold, Holding
    <2> QED BY <2>1, <2>2 DEF RequestsHold
  <1>4. ParkingOpen'
    BY DEF PoolInv, ParkingOpen
  <1>5. EntryOpen'
    BY HttpPoolTypes DEF PoolInv, EntryOpen
  <1>6. OneOwner'
    <2>1. ASSUME NEW c \in ToSet(idle') PROVE conn'[c].open /\ ~conn'[c].h2
      BY <1>2, <2>1 DEF PoolInv, OneOwner
    <2>2. ASSUME NEW c \in Conns, c \in S
          PROVE  /\ \A q \in Req : req'[q].conn # c
                 /\ c \notin ToSet(idle') /\ parking'[c].pc = "none"
      BY <2>2, NoConnApart
    <2>3. ASSUME NEW c \in Conns, c \notin S, conn'[c].open, ~conn'[c].h2
          PROVE  /\ \A r, q \in Req : req'[r].conn = c /\ req'[q].conn = c => r = q
                 /\ (\E r \in Req : req'[r].conn = c) => c \notin ToSet(idle') /\ parking'[c].pc = "none"
                 /\ parking'[c].pc # "none" => c \notin ToSet(idle')
      <3>1. conn[c].open /\ ~conn[c].h2
        BY <2>3
      <3>2. \A q \in Req : req'[q].conn = c => req[q].conn = c
        BY NoConnApart
      <3> QED BY <3>1, <3>2 DEF PoolInv, OneOwner
    <2> QED BY <2>1, <2>2, <2>3 DEF OneOwner
  <1> QED BY <1>3, <1>4, <1>5, <1>6 DEF PoolInv

(* A request changes, and the pool does not.                               *)
LEMMA OnlyRequest ==
    ASSUME PoolInv, Steady, UNCHANGED connPoolVars, NEW r \in Req,
           NEW q \in Request, req' = [req EXCEPT ![r] = q],
           \/ q.conn = NoConn /\ q.pc \notin Holding
           \/ q.conn = h2 /\ h2 # NoConn /\ q.pc = "send"
    PROVE  PoolInv'
  <1>1. PoolTypeOK'
    BY DEF PoolInv, PoolTypeOK, Steady, connPoolVars
  <1>2. CASE q.conn = NoConn /\ q.pc \notin Holding
    <2>1. \A p \in Req : req'[p] = IF p = r THEN q ELSE req[p]
      BY HttpPoolTypes
    <2>2. \A p \in Req : /\ req'[p].conn \in ({req[p].conn} \ {}) \cup {NoConn}
                         /\ req'[p].pc \in Holding <=> req'[p].conn # NoConn
                         /\ req'[p].pc = "gate" => req[p].pc = "gate"
      BY <1>2, <2>1 DEF PoolInv, RequestsHold, Holding
    <2>3. IsInjective(idle')
      BY DEF PoolInv, OneOwner, connPoolVars
    <2> QED BY <1>1, <2>2, <2>3, Releases DEF connPoolVars
  <1>3. CASE q.conn = h2 /\ h2 # NoConn /\ q.pc = "send"
    <2>1. \A p \in Req : req'[p] = IF p = r THEN q ELSE req[p]
      BY HttpPoolTypes
    <2>2. conn[h2].open /\ conn[h2].h2 /\ UNCHANGED <<conn, idle, h2, parking>>
      BY <1>3 DEF PoolInv, EntryOpen, connPoolVars
    <2>3. RequestsHold'
      BY <1>3, <2>1, <2>2 DEF PoolInv, RequestsHold, Holding
    <2>4. \A c \in Conns : ~conn[c].h2 => \A p \in Req : req'[p].conn = c => req[p].conn = c
      BY <1>3, <2>1, <2>2
    <2>5. OneOwner'
      BY <2>2, <2>4 DEF PoolInv, OneOwner
    <2> QED BY <1>1, <2>2, <2>3, <2>5 DEF PoolInv, ParkingOpen, EntryOpen
  <1> QED BY <1>2, <1>3

(* Connections closed.                                                     *)
LEMMA DroppedType ==
    ASSUME PoolInv, NEW S
    PROVE  /\ Dropped(S) \in [Conns -> Connection]
           /\ \A b \in Conns \ S : Dropped(S)[b] = conn[b]
  BY HttpPoolTypes, RecordTypes DEF Dropped

(* A request lets go of its connection: it is closed, or somebody else has *)
(* it.                                                                     *)
LEMMA LetGoReleases ==
    ASSUME PoolInv, NEW r \in Req, req[r].conn # NoConn, NEW e \in BOOLEAN,
           NEW n \in BOOLEAN, LetGo(r, e, n)
    PROVE  /\ conn' \in [Conns -> Connection] /\ inUse' \subseteq Conns
           /\ h2' \in Conns \cup {NoConn}
           /\ \E S \in SUBSET Conns :
                 /\ \A b \in Conns \ S : conn'[b].open = conn[b].open /\ conn'[b].h2 = conn[b].h2
                 /\ S \cap ToSet(idle) = {} /\ h2' \in {h2, NoConn} \ S
                 /\ \A b \in S : parking[b].pc = "none"
                 /\ \A q \in Req \ {r} : req[q].conn \notin S
  <1> DEFINE c == req[r].conn
  <1>0. c \in Conns
    BY HttpPoolTypes DEF Request
  <1> DEFINE Freed(S) ==
                 /\ \A b \in Conns \ S : conn'[b].open = conn[b].open /\ conn'[b].h2 = conn[b].h2
                 /\ S \cap ToSet(idle) = {} /\ h2' \in {h2, NoConn} \ S
                 /\ \A b \in S : parking[b].pc = "none"
                 /\ \A q \in Req \ {r} : req[q].conn \notin S
  <1>1. h2' \in {h2, NoConn}
    BY DEF LetGo
  <1>2. CASE conn' = [conn EXCEPT ![c].used = @ \/ n] /\ UNCHANGED inUse
    <2> DEFINE u == conn[c].used \/ n
    <2>0. u \in BOOLEAN
      OBVIOUS
    <2>2. conn' = [conn EXCEPT ![c] = [conn[c] EXCEPT !.used = u]]
      BY <1>2
    <2> HIDE DEF u
    <2>1. [conn[c] EXCEPT !.used = u] \in Connection
      BY <1>0, <2>0, HttpPoolTypes, Zenon DEF Connection
    <2>3. conn' \in [Conns -> Connection]
      BY <2>1, <2>2, HttpPoolTypes
    <2>4. conn'[c].open = conn[c].open /\ conn'[c].h2 = conn[c].h2
      BY <1>0, <2>2, HttpPoolTypes DEF Connection
    <2>5. \A b \in Conns : conn'[b].open = conn[b].open /\ conn'[b].h2 = conn[b].h2
      BY <1>0, <2>2, <2>4, HttpPoolTypes
    <2>6. {} \in SUBSET Conns /\ Freed({})
      BY <1>1, <2>5
    <2> HIDE DEF Freed
    <2> QED BY <1>1, <1>2, <2>3, <2>6, HttpPoolTypes DEF Freed
  <1>3. CASE Drop(c)
    <2>1. /\ conn' \in [Conns -> Connection] /\ inUse' \subseteq Conns
          /\ \A b \in Conns \ {c} : conn'[b] = conn[b]
      BY <1>3, DroppedType, HttpPoolTypes DEF Drop
    <2>2. conn[c].open
      BY DEF PoolInv, RequestsHold
    <2>3. c \notin ToSet(idle) /\ parking[c].pc = "none"
      BY <1>0, <2>2 DEF PoolInv, OneOwner, ParkingOpen
    <2>4. /\ ~(\E q \in Req \ {r} : req[q].conn = c) /\ h2' # c
      <3>1. conn' # [conn EXCEPT ![c].used = @ \/ n]
        <4>1. ~conn'[c].open
          BY <1>0, <1>3, RecordTypes DEF Drop, Dropped
        <4>2. [conn EXCEPT ![c].used = @ \/ n][c].open = conn[c].open
          BY <1>0, HttpPoolTypes DEF Connection
        <4> QED BY <2>2, <4>1, <4>2
      <3> QED BY <1>0, <3>1, NoConnApart DEF LetGo
    <2>5. {c} \in SUBSET Conns /\ Freed({c})
      BY <1>0, <1>1, <2>1, <2>3, <2>4
    <2> HIDE DEF Freed
    <2> QED BY <1>1, <2>1, <2>5, HttpPoolTypes DEF Freed
  <1> QED BY <1>2, <1>3 DEF LetGo

LEMMA LetGoInv ==
    ASSUME PoolInv, Steady, NEW r \in Req, req[r].conn # NoConn, NEW e \in BOOLEAN,
           NEW n \in BOOLEAN, LetGo(r, e, n), UNCHANGED <<idle, poolGen, parking>>, NEW q \in Request,
           q.conn = NoConn, q.pc \notin Holding, req' = [req EXCEPT ![r] = q]
    PROVE  PoolInv'
  <1>1. /\ conn' \in [Conns -> Connection] /\ inUse' \subseteq Conns
        /\ h2' \in Conns \cup {NoConn}
    BY LetGoReleases
  <1>2. PICK S \in SUBSET Conns :
           /\ \A b \in Conns \ S : conn'[b].open = conn[b].open /\ conn'[b].h2 = conn[b].h2
           /\ S \cap ToSet(idle) = {} /\ h2' \in {h2, NoConn} \ S
           /\ \A b \in S : parking[b].pc = "none"
           /\ \A p \in Req \ {r} : req[p].conn \notin S
    BY LetGoReleases
  <1>3. req' \in [Req -> Request] /\ \A p \in Req : req'[p] = IF p = r THEN q ELSE req[p]
    BY HttpPoolTypes
  <1>4. PoolTypeOK'
    BY <1>1, <1>3 DEF PoolInv, PoolTypeOK, Steady
  <1>5. \A p \in Req : /\ req'[p].conn \in ({req[p].conn} \ S) \cup {NoConn}
                       /\ req'[p].pc \in Holding <=> req'[p].conn # NoConn
                       /\ req'[p].pc = "gate" => req[p].pc = "gate"
    BY <1>2, <1>3 DEF PoolInv, RequestsHold, Holding
  <1>6. IsInjective(idle') /\ ToSet(idle') \subseteq ToSet(idle) \ S
    BY <1>2 DEF PoolInv, OneOwner
  <1> QED BY <1>2, <1>4, <1>5, <1>6, Releases

(* A request is at a place where it has no connection.                     *)
LEMMA RequestAt ==
    ASSUME PoolInv, NEW r \in Req, req[r].pc \notin Holding,
           NEW pc \in {"out", "checkout", "take", "dial", "connect", "done"}
    PROVE  LET q == [req[r] EXCEPT !.pc = pc]
           IN  q \in Request /\ q.pc = pc /\ q.conn = NoConn /\ q.pc \notin Holding
  BY HttpPoolTypes DEF Request, PoolInv, RequestsHold, Holding

(* checkout: the HTTP/2 entry is shared, or dropped when it is dead.       *)
LEMMA CheckoutInv ==
    ASSUME PoolInv, Steady, NEW r \in Req, Checkout(r) PROVE PoolInv'
  <1>0. req[r].pc = "checkout" /\ req[r].pc \notin Holding /\ req \in [Req -> Request]
    BY HttpPoolTypes DEF Checkout, Holding
  <1>1. CASE Goes(r, "dial") /\ UNCHANGED connPoolVars
    <2>1. req' = [req EXCEPT ![r] = [req[r] EXCEPT !.pc = "dial"]]
      BY <1>1 DEF Goes
    <2> QED BY <1>0, <1>1, <2>1, RequestAt, OnlyRequest
  <1>2. CASE h2 # NoConn /\ Gets(r, h2) /\ UNCHANGED connPoolVars
    <2>1. req' = [req EXCEPT ![r] = [req[r] EXCEPT !.pc = "send", !.conn = h2]]
      BY <1>0, <1>2 DEF Gets
    <2>2. h2 \in Conns
      BY <1>2, HttpPoolTypes
    <2> DEFINE q == [req[r] EXCEPT !.pc = "send", !.conn = h2]
    <2>3. q \in Request /\ q.pc = "send" /\ q.conn = h2
      BY <2>2, RequestGets
    <2> HIDE DEF q
    <2>4. req' = [req EXCEPT ![r] = q]
      BY <2>1 DEF q
    <2> QED BY <1>2, <2>3, <2>4, OnlyRequest
  <1>3. CASE /\ Goes(r, "take") /\ h2' = NoConn /\ UNCHANGED <<idle, poolGen, parking>>
             /\ IF h2 = NoConn \/ \E q \in Req : req[q].conn = h2 THEN UNCHANGED <<conn, inUse>>
                ELSE Drop(h2)
    <2> DEFINE q == [req[r] EXCEPT !.pc = "take"]
    <2>1. req' = [req EXCEPT ![r] = q]
      BY <1>3 DEF Goes
    <2>2. q \in Request /\ q.pc \notin Holding /\ q.conn = NoConn
      BY <1>0, RequestAt
    <2> HIDE DEF q
    <2>3. req' \in [Req -> Request] /\ \A p \in Req : req'[p] = IF p = r THEN q ELSE req[p]
      BY <1>0, <2>1, <2>2
    <2>4. PICK S \in SUBSET Conns :
             /\ S \subseteq {h2} /\ \A p \in Req : req[p].conn \notin S
             /\ conn' \in [Conns -> Connection] /\ inUse' \subseteq Conns
             /\ \A b \in Conns \ S : conn'[b] = conn[b]
      <3>1. CASE UNCHANGED <<conn, inUse>>
        <4>1. {} \in SUBSET Conns /\ {} \subseteq {h2} /\ \A p \in Req : req[p].conn \notin {}
          OBVIOUS
        <4> QED BY <3>1, <4>1, HttpPoolTypes
      <3>2. CASE Drop(h2) /\ ~(h2 = NoConn \/ \E p \in Req : req[p].conn = h2)
        <4>1. {h2} \in SUBSET Conns /\ \A p \in Req : req[p].conn \notin {h2}
          BY <3>2, HttpPoolTypes
        <4>2. /\ conn' \in [Conns -> Connection] /\ inUse' \subseteq Conns
              /\ \A b \in Conns \ {h2} : conn'[b] = conn[b]
          BY <3>2, DroppedType, HttpPoolTypes DEF Drop
        <4> QED BY <4>1, <4>2
      <3> QED BY <1>3, <3>1, <3>2
    <2>5. PoolTypeOK'
      BY <1>3, <2>3, <2>4 DEF PoolInv, PoolTypeOK, Steady
    <2>6. \A p \in Req : /\ req'[p].conn \in ({req[p].conn} \ S) \cup {NoConn}
                         /\ req'[p].pc \in Holding <=> req'[p].conn # NoConn
                         /\ req'[p].pc = "gate" => req[p].pc = "gate"
      BY <2>2, <2>3, <2>4 DEF PoolInv, RequestsHold, Holding
    <2>7. \A b \in S : b \in Conns /\ conn[b].h2 /\ b # NoConn
      BY <2>4, NoConnApart DEF PoolInv, EntryOpen
    <2>8. IsInjective(idle') /\ ToSet(idle') \subseteq ToSet(idle) \ S
      BY <1>3, <2>7 DEF PoolInv, OneOwner
    <2>9. /\ \A b \in Conns : parking'[b].pc # "none" => parking[b].pc # "none" /\ b \notin S
          /\ h2' \in {h2, NoConn} \ S
      BY <1>3, <2>7 DEF PoolInv, ParkingOpen
    <2> QED BY <2>4, <2>5, <2>6, <2>8, <2>9, Releases
  <1> QED BY <1>1, <1>2, <1>3 DEF Checkout

(* reuse_h1: the front of the queue is taken off, dead or alive.           *)
LEMMA TakeIdleInv ==
    ASSUME PoolInv, Steady, NEW r \in Req, TakeIdle(r) PROVE PoolInv'
  <1> DEFINE c == Head(idle)
  <1>0. /\ req[r].pc = "take" /\ idle # << >> /\ idle' = Tail(idle)
        /\ UNCHANGED <<h2, poolGen, parking>>
    BY DEF TakeIdle, Pop
  <1>1. /\ c \in Conns /\ c \in ToSet(idle) /\ idle' \in Seq(Conns) /\ IsInjective(idle')
        /\ ToSet(idle') = ToSet(idle) \ {c}
    BY <1>0, QueueTail, HttpPoolTypes DEF PoolInv, OneOwner
  <1>2. /\ conn[c].open /\ ~conn[c].h2 /\ parking[c].pc = "none"
        /\ \A q \in Req : req[q].conn # c
    BY <1>1 DEF PoolInv, OneOwner
  <1>3. CASE Drop(c) /\ UNCHANGED req
    <2>1. /\ conn' \in [Conns -> Connection] /\ inUse' \subseteq Conns
          /\ \A b \in Conns \ {c} : conn'[b] = conn[b]
      BY <1>3, DroppedType, HttpPoolTypes DEF Drop
    <2>2. PoolTypeOK'
      BY <1>0, <1>1, <1>3, <2>1 DEF PoolInv, PoolTypeOK, Steady
    <2>3. \A p \in Req : /\ req'[p].conn \in ({req[p].conn} \ {c}) \cup {NoConn}
                         /\ req'[p].pc \in Holding <=> req'[p].conn # NoConn
                         /\ req'[p].pc = "gate" => req[p].pc = "gate"
      BY <1>2, <1>3 DEF PoolInv, RequestsHold
    <2>4. /\ \A b \in Conns : parking'[b].pc # "none" => parking[b].pc # "none" /\ b \notin {c}
          /\ h2' \in {h2, NoConn} \ {c} /\ {c} \in SUBSET Conns
      BY <1>0, <1>1, <1>2, NoConnApart DEF PoolInv, EntryOpen
    <2> QED BY <1>1, <2>1, <2>2, <2>3, <2>4, Releases
  <1>4. ASSUME NEW pc \in {"send", "gate"}, UNCHANGED <<conn, inUse>>,
               req' = [req EXCEPT ![r].pc = pc, ![r].conn = c]
        PROVE  PoolInv'
    <2> DEFINE q == [req[r] EXCEPT !.pc = pc, !.conn = c]
    <2>1. req' = [req EXCEPT ![r] = q] /\ req \in [Req -> Request]
      BY <1>4, HttpPoolTypes
    <2>2. q \in Request /\ q.pc = pc /\ q.conn = c
      BY <1>1, <1>4, HttpPoolTypes DEF Request
    <2> HIDE DEF q
    <2>3. req' \in [Req -> Request] /\ \A p \in Req : req'[p] = IF p = r THEN q ELSE req[p]
      BY <2>1, <2>2
    <2>4. PoolTypeOK'
      BY <1>0, <1>1, <1>4, <2>3 DEF PoolInv, PoolTypeOK, Steady
    <2>5. RequestsHold'
      BY <1>1, <1>2, <1>4, <2>2, <2>3, NoConnApart DEF PoolInv, RequestsHold, Holding
    <2>6. OneOwner'
      <3>1. ASSUME NEW b \in Conns, conn[b].open, ~conn[b].h2
            PROVE  /\ \A p, s \in Req : req'[p].conn = b /\ req'[s].conn = b => p = s
                   /\ (\E p \in Req : req'[p].conn = b) => b \notin ToSet(idle') /\ parking[b].pc = "none"
                   /\ parking[b].pc # "none" => b \notin ToSet(idle')
        BY <1>1, <1>2, <2>2, <2>3, <3>1 DEF PoolInv, OneOwner
      <3>2. \A b \in ToSet(idle') : conn[b].open /\ ~conn[b].h2
        BY <1>1 DEF PoolInv, OneOwner
      <3> QED BY <1>0, <1>1, <1>4, <3>1, <3>2 DEF OneOwner
    <2> QED BY <1>0, <1>4, <2>4, <2>5, <2>6 DEF PoolInv, ParkingOpen, EntryOpen
  <1> QED BY <1>3, <1>4 DEF TakeIdle, Gets

(* The gate's wait is over.                                                *)
LEMMA PassGateInv ==
    ASSUME PoolInv, Steady, NEW r \in Req, PassGate(r) PROVE PoolInv'
  <1> DEFINE c == req[r].conn
  <1>0. req[r].pc = "gate" /\ UNCHANGED <<idle, h2, poolGen, parking>>
    BY DEF PassGate
  <1>1. c \in Conns /\ conn[c].open /\ ~conn[c].h2 /\ req \in [Req -> Request]
    BY <1>0, HttpPoolTypes DEF Request, PoolInv, RequestsHold, Holding
  <1>2. CASE req' = [req EXCEPT ![r].pc = "take", ![r].conn = NoConn] /\ Drop(c)
    <2> DEFINE q == [req[r] EXCEPT !.pc = "take", !.conn = NoConn]
    <2>1. req' = [req EXCEPT ![r] = q]
      BY <1>1, <1>2
    <2>2. q \in Request /\ q.pc = "take" /\ q.conn = NoConn
      BY <1>1 DEF Request
    <2> HIDE DEF q
    <2>3. req' \in [Req -> Request] /\ \A p \in Req : req'[p] = IF p = r THEN q ELSE req[p]
      BY <1>1, <2>1, <2>2
    <2>4. /\ conn' \in [Conns -> Connection] /\ inUse' \subseteq Conns
          /\ \A b \in Conns \ {c} : conn'[b] = conn[b]
      BY <1>2, DroppedType, HttpPoolTypes DEF Drop
    <2>5. PoolTypeOK'
      BY <1>0, <2>3, <2>4 DEF PoolInv, PoolTypeOK, Steady
    <2>6. /\ c \notin ToSet(idle) /\ parking[c].pc = "none" /\ h2 # c
          /\ \A p \in Req \ {r} : req[p].conn # c
      BY <1>1, NoConnApart DEF PoolInv, OneOwner, EntryOpen
    <2>7. \A p \in Req : /\ req'[p].conn \in ({req[p].conn} \ {c}) \cup {NoConn}
                         /\ req'[p].pc \in Holding <=> req'[p].conn # NoConn
                         /\ req'[p].pc = "gate" => req[p].pc = "gate"
      BY <2>2, <2>3, <2>6 DEF PoolInv, RequestsHold, Holding
    <2>8. /\ \A b \in Conns : parking'[b].pc # "none" => parking[b].pc # "none" /\ b \notin {c}
          /\ h2' \in {h2, NoConn} \ {c} /\ {c} \in SUBSET Conns
          /\ IsInjective(idle') /\ ToSet(idle') \subseteq ToSet(idle) \ {c}
      BY <1>0, <1>1, <2>6, NoConnApart DEF PoolInv, OneOwner
    <2> QED BY <2>4, <2>5, <2>7, <2>8, Releases
  <1>3. CASE Gets(r, c) /\ UNCHANGED <<conn, inUse>>
    <2> DEFINE q == [req[r] EXCEPT !.pc = "send", !.conn = c]
    <2>1. req' = [req EXCEPT ![r] = q]
      BY <1>1, <1>3 DEF Gets
    <2>2. q \in Request /\ q.pc = "send" /\ q.conn = c
      BY <1>1, RequestGets
    <2> HIDE DEF q
    <2>3. req' \in [Req -> Request] /\ \A p \in Req : req'[p] = IF p = r THEN q ELSE req[p]
      BY <1>1, <2>1, <2>2
    <2>4. PoolTypeOK'
      BY <1>0, <1>3, <2>3 DEF PoolInv, PoolTypeOK, Steady
    <2>5. \A p \in Req : /\ req'[p].conn \in ({req[p].conn} \ {}) \cup {NoConn}
                         /\ req'[p].pc \in Holding <=> req'[p].conn # NoConn
                         /\ req'[p].pc = "gate" => req[p].pc = "gate"
      BY <1>1, <2>2, <2>3, NoConnApart DEF PoolInv, RequestsHold, Holding
    <2>6. IsInjective(idle')
      BY <1>0 DEF PoolInv, OneOwner
    <2> QED BY <1>0, <1>3, <2>4, <2>5, <2>6, Releases
  <1> QED BY <1>2, <1>3 DEF PassGate

(* connect: a number that nobody holds.  An HTTP/2 connection replaces the *)
(* entry's, which is closed unless a request has it.                       *)
LEMMA ConnectedInv ==
    ASSUME PoolInv, Steady, NEW r \in Req, NEW isH2 \in BOOLEAN, Connected(r, isH2)
    PROVE  PoolInv'
  <1> DEFINE new == [Closed EXCEPT !.open = TRUE, !.h2 = isH2]
             lost(c) == {b \in Conns \ {c} : isH2 /\ b = h2 /\ \A q \in Req : req[q].conn # b}
  <1>0. req[r].pc = "connect" /\ UNCHANGED <<idle, poolGen, parking>>
    BY DEF Connected
  <1>1. PICK c \in Conns : /\ ~conn[c].open /\ Gets(r, c)
                           /\ conn' = [Dropped(lost(c)) EXCEPT ![c] = new]
                           /\ inUse' = inUse \ lost(c)
                           /\ h2' = IF isH2 THEN c ELSE h2
    BY DEF Connected
  <1> DEFINE L == lost(c)
  <1>2. new \in Connection /\ new.open = TRUE /\ new.h2 = isH2
    BY RecordTypes, Zenon DEF Closed, Connection
  <1>3. L \subseteq {h2} /\ L \subseteq Conns \ {c} /\ (\A p \in Req : req[p].conn \notin L)
        /\ (L # {} => isH2)
    OBVIOUS
  <1> HIDE DEF L, new
  <1>4. /\ conn' = [Dropped(L) EXCEPT ![c] = new] /\ inUse' = inUse \ L
    BY <1>1 DEF L, new
  <1>5. conn' \in [Conns -> Connection] /\ conn'[c] = new
        /\ \A b \in Conns \ L : b # c => conn'[b] = conn[b]
    BY <1>2, <1>4, DroppedType
  <1> DEFINE q == [req[r] EXCEPT !.pc = "send", !.conn = c]
  <1>6. req' = [req EXCEPT ![r] = q] /\ req \in [Req -> Request]
    BY <1>1, HttpPoolTypes DEF Gets
  <1>7. q \in Request /\ q.pc = "send" /\ q.conn = c
    BY HttpPoolTypes DEF Request
  <1> HIDE DEF q
  <1>8. req' \in [Req -> Request] /\ \A p \in Req : req'[p] = IF p = r THEN q ELSE req[p]
    BY <1>6, <1>7
  <1>9. h2' \in Conns \cup {NoConn}
    BY <1>1, HttpPoolTypes
  <1>10. PoolTypeOK'
    BY <1>0, <1>4, <1>5, <1>8, <1>9 DEF PoolInv, PoolTypeOK, Steady
  <1>11. /\ c \notin ToSet(idle) /\ parking[c].pc = "none" /\ h2 # c
         /\ \A p \in Req : req[p].conn # c
    BY <1>1, NoConnApart DEF PoolInv, OneOwner, ParkingOpen, EntryOpen, RequestsHold
  <1>12. \A b \in L : conn[b].h2 /\ b \in Conns
    BY <1>3, NoConnApart DEF PoolInv, EntryOpen
  <1>13. RequestsHold'
    <2>1. ASSUME NEW p \in Req, p # r, req[p].conn # NoConn
          PROVE  conn'[req[p].conn] = conn[req[p].conn]
      BY <1>3, <1>5, <1>11, <2>1, HttpPoolTypes DEF Request
    <2>2. conn'[c].open
      BY <1>2, <1>5
    <2>3. ASSUME NEW p \in Req, req'[p].conn # NoConn
          PROVE  conn'[req'[p].conn].open
      BY <1>7, <1>8, <2>1, <2>2, <2>3 DEF PoolInv, RequestsHold
    <2>4. ASSUME NEW p \in Req, req'[p].pc = "gate"
          PROVE  ~conn'[req'[p].conn].h2
      BY <1>7, <1>8, <2>1, <2>4 DEF PoolInv, RequestsHold, Holding
    <2>5. \A p \in Req : req'[p].pc \in Holding <=> req'[p].conn # NoConn
      BY <1>7, <1>8, NoConnApart DEF PoolInv, RequestsHold, Holding
    <2> QED BY <2>3, <2>4, <2>5 DEF RequestsHold
  <1>14. ParkingOpen'
    BY <1>0, <1>5, <1>11, <1>12 DEF PoolInv, ParkingOpen
  <1>15. EntryOpen'
    <2>1. CASE isH2
      BY <1>1, <1>2, <1>5, <2>1 DEF EntryOpen
    <2>2. CASE ~isH2
      BY <1>1, <1>3, <1>5, <1>11, <2>2, HttpPoolTypes DEF PoolInv, EntryOpen
    <2> QED BY <2>1, <2>2
  <1>16. ToSet(idle) \subseteq Conns
    BY HttpPoolTypes DEF ToSet
  <1>17. OneOwner'
    <2>1. \A b \in ToSet(idle) : conn'[b].open /\ ~conn'[b].h2
      BY <1>5, <1>11, <1>12, <1>16 DEF PoolInv, OneOwner
    <2>2. ASSUME NEW b \in Conns, b \notin L
          PROVE  conn'[b].open /\ ~conn'[b].h2 =>
                 /\ \A p, s \in Req : req'[p].conn = b /\ req'[s].conn = b => p = s
                 /\ (\E p \in Req : req'[p].conn = b) => b \notin ToSet(idle) /\ parking[b].pc = "none"
                 /\ parking[b].pc # "none" => b \notin ToSet(idle)
      <3>1. CASE b = c
        BY <1>7, <1>8, <1>11, <3>1
      <3>2. CASE b # c
        <4>1. \A p \in Req : req'[p].conn = b => req[p].conn = b
          BY <1>7, <1>8, <3>2
        <4> QED BY <1>5, <2>2, <3>2, <4>1 DEF PoolInv, OneOwner
      <3> QED BY <3>1, <3>2
    <2>3. ASSUME NEW b \in L
          PROVE  /\ \A p \in Req : req'[p].conn # b
                 /\ b \notin ToSet(idle) /\ parking[b].pc = "none"
      BY <1>3, <1>7, <1>8, <1>12, <2>3 DEF PoolInv, OneOwner, ParkingOpen
    <2> QED BY <1>0, <2>1, <2>2, <2>3 DEF PoolInv, OneOwner
  <1> QED BY <1>10, <1>13, <1>14, <1>15, <1>17 DEF PoolInv

(* on_success: the request's connection goes to the task that parks it.    *)
LEMMA AnsweredInv ==
    ASSUME PoolInv, Steady, NEW r \in Req, NEW out \in Outcome, NEW keep \in BOOLEAN,
           Answered(r, out, keep)
    PROVE  PoolInv'
  <1> DEFINE c == req[r].conn
             q == [NoRequest EXCEPT !.pc = "done", !.out = out]
             p == [pc |-> "drain", keep |-> keep, gen |-> poolGen]
  <1>0. req[r].pc = "send" /\ req' = [req EXCEPT ![r] = q] /\ UNCHANGED <<idle, poolGen>>
    BY DEF Answered, Ends
  <1>1. c \in Conns /\ c # NoConn /\ conn[c].open /\ req \in [Req -> Request]
    BY <1>0, HttpPoolTypes, NoConnApart DEF Request, PoolInv, RequestsHold, Holding
  <1>2. q \in Request /\ q.pc = "done" /\ q.conn = NoConn /\ q.pc \notin Holding
    BY RequestEnds
  <1> HIDE DEF q
  <1>3. CASE LetGo(r, FALSE, TRUE) /\ UNCHANGED parking
    <2>1. FALSE \in BOOLEAN /\ TRUE \in BOOLEAN
      OBVIOUS
    <2> QED BY <1>0, <1>1, <1>2, <1>3, <2>1, LetGoInv
  <1>4. CASE /\ ~conn[c].h2 /\ conn' = [conn EXCEPT ![c].used = TRUE]
             /\ parking' = [parking EXCEPT ![c] = p] /\ UNCHANGED <<h2, inUse>>
    <2>1. p \in Parking /\ p.pc = "drain"
      <3>1. p \in Parking
        BY HttpPoolTypes, Zenon DEF Parking
      <3> QED BY <3>1
    <2>2. [conn[c] EXCEPT !.used = TRUE] \in Connection
      BY <1>1, HttpPoolTypes, Zenon DEF Connection
    <2>3. /\ [conn[c] EXCEPT !.used = TRUE].open = conn[c].open
          /\ [conn[c] EXCEPT !.used = TRUE].h2 = conn[c].h2
      BY <1>1, HttpPoolTypes DEF Connection
    <2>4. /\ conn' \in [Conns -> Connection]
          /\ \A b \in Conns : conn'[b].open = conn[b].open /\ conn'[b].h2 = conn[b].h2
      BY <1>1, <1>4, <2>2, <2>3, HttpPoolTypes
    <2> HIDE DEF p
    <2>5. parking' \in [Conns -> Parking]
          /\ \A b \in Conns : parking'[b].pc = IF b = c THEN "drain" ELSE parking[b].pc
      BY <1>1, <1>4, <2>1, HttpPoolTypes
    <2>6. req' \in [Req -> Request] /\ \A s \in Req : req'[s] = IF s = r THEN q ELSE req[s]
      BY <1>0, <1>1, <1>2
    <2>7. PoolTypeOK'
      BY <1>0, <1>4, <2>4, <2>5, <2>6 DEF PoolInv, PoolTypeOK, Steady
    <2>8. RequestsHold'
      <3>1. ASSUME NEW s \in Req, s # r, req[s].conn # NoConn
            PROVE  /\ conn'[req[s].conn].open = conn[req[s].conn].open
                   /\ conn'[req[s].conn].h2 = conn[req[s].conn].h2
        BY <2>4, <3>1, HttpPoolTypes DEF Request
      <3>2. ASSUME NEW s \in Req, s # r
            PROVE  /\ req[s].pc \in Holding <=> req[s].conn # NoConn
                   /\ req[s].conn # NoConn => conn'[req[s].conn].open
                   /\ req[s].pc = "gate" => ~conn'[req[s].conn].h2
        BY <3>1, <3>2 DEF PoolInv, RequestsHold, Holding
      <3> QED BY <1>2, <2>6, <3>2 DEF RequestsHold
    <2>9. ParkingOpen' /\ EntryOpen'
      BY <1>1, <1>4, <2>4, <2>5, HttpPoolTypes DEF PoolInv, ParkingOpen, EntryOpen
    <2>10. OneOwner'
      <3>1. c \notin ToSet(idle) /\ \A s \in Req : req'[s].conn # c
        BY <1>1, <1>2, <1>4, <2>6, NoConnApart DEF PoolInv, OneOwner
      <3>2. \A b \in Conns, s \in Req : req'[s].conn = b => req[s].conn = b
        BY <1>2, <2>6, NoConnApart
      <3>3. \A b \in ToSet(idle) : b \in Conns
        BY HttpPoolTypes DEF ToSet
      <3> QED BY <1>0, <2>4, <2>5, <3>1, <3>2, <3>3 DEF PoolInv, OneOwner
    <2> QED BY <2>7, <2>8, <2>9, <2>10 DEF PoolInv
  <1> QED BY <1>3, <1>4 DEF Answered

(* The request ends, or starts over, without its connection.               *)
LEMMA SendEndsInv ==
    ASSUME PoolInv, Steady, NEW r \in Req,
           \/ Unsent(r)
           \/ \E out \in Outcome : Sent(r, out)
           \/ Abandon(r)
    PROVE  PoolInv'
  <1>0. req \in [Req -> Request] /\ req[r] \in Request
    BY HttpPoolTypes
  <1>1. \E q \in Request : q.conn = NoConn /\ q.pc \notin Holding /\ req' = [req EXCEPT ![r] = q]
    <2>1. ASSUME NEW out \in Outcome, Ends(r, out)
          PROVE  \E q \in Request :
                    q.conn = NoConn /\ q.pc \notin Holding /\ req' = [req EXCEPT ![r] = q]
      <3> DEFINE q == [NoRequest EXCEPT !.pc = "done", !.out = out]
      <3>1. q \in Request /\ q.conn = NoConn /\ q.pc \notin Holding
        BY <2>1, RequestEnds
      <3>2. req' = [req EXCEPT ![r] = q]
        BY <2>1 DEF Ends
      <3> HIDE DEF q
      <3> QED BY <3>1, <3>2
    <2>2. "failed" \in Outcome
      BY DEF Outcome
    <2>3. CASE req' = [req EXCEPT ![r].pc = "checkout", ![r].conn = NoConn, ![r].reuse = FALSE]
      <3> DEFINE q == [req[r] EXCEPT !.pc = "checkout", !.conn = NoConn, !.reuse = FALSE]
      <3>1. q \in Request
        <4>1. NoConn \in Conns \cup {NoConn}
          OBVIOUS
        <4> QED BY <1>0, <4>1, Zenon DEF Request
      <3>2. q.conn = NoConn /\ q.pc \notin Holding
        BY <1>0 DEF Request, Holding
      <3>3. req' = [req EXCEPT ![r] = q]
        BY <1>0, <2>3
      <3> HIDE DEF q
      <3> QED BY <3>1, <3>2, <3>3
    <2> QED BY <2>1, <2>2, <2>3 DEF Unsent, Sent, Abandon, Ends
  <1>2. PICK q \in Request : q.conn = NoConn /\ q.pc \notin Holding /\ req' = [req EXCEPT ![r] = q]
    BY <1>1
  <1>3. CASE req[r].conn = NoConn /\ UNCHANGED connPoolVars
    BY <1>2, <1>3, OnlyRequest
  <1>4. CASE req[r].conn # NoConn /\ UNCHANGED <<idle, poolGen, parking>>
             /\ (LetGo(r, TRUE, TRUE) \/ LetGo(r, FALSE, FALSE))
    <2>1. PICK e \in BOOLEAN, n \in BOOLEAN : LetGo(r, e, n)
      BY <1>4, Zenon
    <2> QED BY <1>2, <1>4, <2>1, LetGoInv
  <1>5. req[r].pc = "send" => req[r].conn # NoConn
    BY DEF PoolInv, RequestsHold, Holding
  <1>6. \/ req[r].conn = NoConn /\ UNCHANGED connPoolVars
        \/ /\ req[r].conn # NoConn /\ UNCHANGED <<idle, poolGen, parking>>
           /\ LetGo(r, TRUE, TRUE) \/ LetGo(r, FALSE, FALSE)
    <2>1. CASE Unsent(r) \/ \E out \in Outcome : Sent(r, out)
      BY <1>5, <2>1, Zenon DEF Unsent, Sent
    <2>2. CASE Abandon(r)
      BY <2>2, Zenon DEF Abandon
    <2> QED BY <2>1, <2>2
  <1> QED BY <1>3, <1>4, <1>6

(* The steps of a request that leave the pool alone.                       *)
LEMMA RequestMovesInv ==
    ASSUME PoolInv, Steady, NEW r \in Req,
           TakeNone(r) \/ Dial(r) \/ ConnectFails(r)
    PROVE  PoolInv'
  <1>0. req \in [Req -> Request] /\ req[r] \in Request /\ UNCHANGED connPoolVars
        /\ req[r].pc \notin Holding
    BY HttpPoolTypes DEF TakeNone, Dial, ConnectFails, Holding
  <1>1. ASSUME NEW out \in Outcome, Ends(r, out) PROVE PoolInv'
    <2> DEFINE q == [NoRequest EXCEPT !.pc = "done", !.out = out]
    <2>1. q \in Request /\ q.conn = NoConn /\ q.pc \notin Holding
      BY <1>1, RequestEnds
    <2>2. req' = [req EXCEPT ![r] = q]
      BY <1>1 DEF Ends
    <2> HIDE DEF q
    <2> QED BY <1>0, <2>1, <2>2, OnlyRequest
  <1>2. CASE Goes(r, "dial")
    <2>1. req' = [req EXCEPT ![r] = [req[r] EXCEPT !.pc = "dial"]]
      BY <1>2 DEF Goes
    <2> QED BY <1>0, <2>1, RequestAt, OnlyRequest
  <1>3. CASE req' = [req EXCEPT ![r].pc = "connect", ![r].pin = FALSE]
    <2> DEFINE q == [req[r] EXCEPT !.pc = "connect", !.pin = FALSE]
    <2>1. q \in Request
      BY <1>0, Zenon DEF Request
    <2>2. q.conn = NoConn /\ q.pc \notin Holding
      BY <1>0 DEF Request, Holding, PoolInv, RequestsHold
    <2>3. req' = [req EXCEPT ![r] = q]
      BY <1>0, <1>3
    <2> HIDE DEF q
    <2> QED BY <1>0, <2>1, <2>2, <2>3, OnlyRequest
  <1>4. "lookup" \in Outcome /\ "failed" \in Outcome
    BY DEF Outcome
  <1> QED BY <1>1, <1>2, <1>3, <1>4 DEF TakeNone, Dial, ConnectFails

LEMMA StartRequestInv ==
    ASSUME PoolInv, Steady, NEW r \in Req, NEW pin \in BOOLEAN, StartRequest(r, pin),
           UNCHANGED connPoolVars
    PROVE  PoolInv'
  <1> DEFINE q == [NoRequest EXCEPT !.pc = "checkout", !.reuse = ~pin, !.pin = pin]
  <1>1. q \in Request
    BY RecordTypes, Zenon DEF Request
  <1>2. q.conn = NoConn /\ q.pc \notin Holding
    BY RecordTypes DEF Request, Holding
  <1>3. req' = [req EXCEPT ![r] = q]
    BY DEF StartRequest
  <1> HIDE DEF q
  <1> QED BY <1>1, <1>2, <1>3, OnlyRequest

(* The parking task: the connection is closed, or goes to the queue.       *)
LEMMA ParkingInv ==
    ASSUME PoolInv, Steady, NEW c \in Conns, ParkingStep(c) PROVE PoolInv'
  <1>0. parking[c].pc # "none" /\ UNCHANGED <<h2, poolGen, req>>
    BY DEF ParkingStep, Drained, CheckGeneration, Park
  <1>1. /\ conn[c].open /\ ~conn[c].h2 /\ c \notin ToSet(idle) /\ h2 # c /\ IsInjective(idle)
        /\ \A q \in Req : req[q].conn # c
    BY <1>0, NoConnApart DEF PoolInv, OneOwner, ParkingOpen, EntryOpen
  <1>2. \A p \in Req : /\ req'[p].conn \in ({req[p].conn} \ {c}) \cup {NoConn}
                       /\ req'[p].pc \in Holding <=> req'[p].conn # NoConn
                       /\ req'[p].pc = "gate" => req[p].pc = "gate"
    BY <1>0, <1>1 DEF PoolInv, RequestsHold
  <1>3. CASE /\ Drop(c) /\ parking' = [parking EXCEPT ![c] = NoParking] /\ UNCHANGED idle
    <2>1. /\ conn' \in [Conns -> Connection] /\ inUse' \subseteq Conns
          /\ \A b \in Conns \ {c} : conn'[b] = conn[b]
      BY <1>3, DroppedType, HttpPoolTypes DEF Drop
    <2>2. /\ parking' \in [Conns -> Parking]
          /\ \A b \in Conns : parking'[b].pc # "none" => parking[b].pc # "none" /\ b \notin {c}
      BY <1>3, HttpPoolTypes, RecordTypes
    <2>3. PoolTypeOK'
      BY <1>0, <1>3, <2>1, <2>2 DEF PoolInv, PoolTypeOK, Steady
    <2>4. h2' \in {h2, NoConn} \ {c} /\ {c} \in SUBSET Conns
      BY <1>0, <1>1
    <2>5. IsInjective(idle') /\ ToSet(idle') \subseteq ToSet(idle) \ {c}
      BY <1>1, <1>3
    <2>6. \A b \in Conns \ {c} : conn'[b].open = conn[b].open /\ conn'[b].h2 = conn[b].h2
      BY <2>1
    <2> QED BY <1>2, <2>2, <2>3, <2>4, <2>5, <2>6, Releases
  <1>4. ASSUME NEW pc \in {"check", "push"}, UNCHANGED <<conn, inUse, idle>>,
               parking' = [parking EXCEPT ![c].pc = pc]
        PROVE  PoolInv'
    <2>1. [parking[c] EXCEPT !.pc = pc] \in Parking /\ [parking[c] EXCEPT !.pc = pc].pc = pc
      BY <1>4, HttpPoolTypes DEF Parking
    <2>2. parking' = [parking EXCEPT ![c] = [parking[c] EXCEPT !.pc = pc]]
      BY <1>4
    <2>3. /\ parking' \in [Conns -> Parking]
          /\ \A b \in Conns : parking'[b].pc # "none" => parking[b].pc # "none"
      BY <1>0, <2>1, <2>2, HttpPoolTypes
    <2>4. PoolTypeOK'
      BY <1>0, <1>4, <2>3 DEF PoolInv, PoolTypeOK, Steady
    <2>5. \A p \in Req : /\ req'[p].conn \in ({req[p].conn} \ {}) \cup {NoConn}
                         /\ req'[p].pc \in Holding <=> req'[p].conn # NoConn
                         /\ req'[p].pc = "gate" => req[p].pc = "gate"
      BY <1>2
    <2> QED BY <1>0, <1>1, <1>4, <2>3, <2>4, <2>5, Releases
  <1>5. CASE /\ idle' = Append(idle, c) /\ UNCHANGED <<conn, inUse>>
             /\ parking' = [parking EXCEPT ![c] = NoParking]
    <2>1. /\ idle' \in Seq(Conns) /\ IsInjective(idle') /\ ToSet(idle') = ToSet(idle) \cup {c}
      BY <1>1, <1>5, QueueAppend, HttpPoolTypes
    <2>2. /\ parking' \in [Conns -> Parking]
          /\ \A b \in Conns : parking'[b].pc = IF b = c THEN "none" ELSE parking[b].pc
      BY <1>5, HttpPoolTypes, RecordTypes
    <2>3. PoolTypeOK'
      BY <1>0, <1>5, <2>1, <2>2 DEF PoolInv, PoolTypeOK, Steady
    <2>4. ParkingOpen' /\ EntryOpen' /\ RequestsHold'
      BY <1>0, <1>5, <2>2 DEF PoolInv, ParkingOpen, EntryOpen, RequestsHold
    <2>5. OneOwner'
      BY <1>0, <1>1, <1>5, <2>1, <2>2 DEF PoolInv, OneOwner
    <2> QED BY <2>3, <2>4, <2>5 DEF PoolInv
  <1> QED BY <1>3, <1>4, <1>5 DEF ParkingStep, Drained, CheckGeneration, Park

(* The reaper and destroy(): what the queue and the entry lose is closed,  *)
(* unless a request has the entry's.  A connection that dies stays with    *)
(* its owner.                                                              *)
LEMMA QueueLosesInv ==
    ASSUME PoolInv, Steady, NEW gone, gone \subseteq ToSet(idle),
           idle' \in Seq(Conns), IsInjective(idle'), ToSet(idle') \subseteq ToSet(idle) \ gone,
           conn' = Dropped(gone), inUse' = inUse \ gone, UNCHANGED <<h2, poolGen, parking, req>>
    PROVE  PoolInv'
  <1>1. ToSet(idle) \subseteq Conns /\ gone \in SUBSET Conns
    BY HttpPoolTypes DEF ToSet
  <1>2. ASSUME NEW b \in gone
        PROVE  /\ b # h2 /\ parking[b].pc = "none" /\ \A q \in Req : req[q].conn # b
    BY <1>1, <1>2, NoConnApart DEF PoolInv, OneOwner, EntryOpen
  <1>3. h2' \in {h2, NoConn} \ gone
    BY <1>2
  <1>4. \A b \in Conns : parking'[b].pc # "none" => parking[b].pc # "none" /\ b \notin gone
    BY <1>2
  <1>5. \A p \in Req : /\ req'[p].conn \in ({req[p].conn} \ gone) \cup {NoConn}
                       /\ req'[p].pc \in Holding <=> req'[p].conn # NoConn
                       /\ req'[p].pc = "gate" => req[p].pc = "gate"
    BY <1>2 DEF PoolInv, RequestsHold
  <1>6. conn' \in [Conns -> Connection] /\ \A b \in Conns \ gone : conn'[b] = conn[b]
    BY DroppedType
  <1>7. PoolTypeOK'
    BY <1>6 DEF PoolInv, PoolTypeOK, Steady
  <1>8. \A b \in Conns \ gone : conn'[b].open = conn[b].open /\ conn'[b].h2 = conn[b].h2
    BY <1>6
  <1> QED BY <1>1, <1>3, <1>4, <1>5, <1>7, <1>8, Releases

LEMMA ReapIdleInv == ASSUME PoolInv, Steady, ReapIdle PROVE PoolInv'
  <1>1. PICK gone :
           /\ gone \subseteq ToSet(idle)
           /\ \E kept \in InOrder({i \in DOMAIN idle : idle[i] \notin gone}) :
                 idle' = [k \in DOMAIN kept |-> idle[kept[k]]]
           /\ conn' = Dropped(gone) /\ inUse' = inUse \ gone
    <2>1. PICK n \in 0 .. Len(idle) :
             LET gone == ToSet(SubSeq(idle, 1, n)) \cup {c \in ToSet(idle) : Dead(c)} IN
             /\ \E kept \in InOrder({i \in DOMAIN idle : idle[i] \notin gone}) :
                   idle' = [k \in DOMAIN kept |-> idle[kept[k]]]
             /\ conn' = Dropped(gone) /\ inUse' = inUse \ gone
      BY DEF ReapIdle
    <2>2. ToSet(SubSeq(idle, 1, n)) \subseteq ToSet(idle)
      <3>1. idle \in Seq(Conns) /\ n \in 0 .. Len(idle) /\ Len(idle) \in Nat
        BY HttpPoolTypes
      <3>2. DOMAIN SubSeq(idle, 1, n) = 1 .. n /\ \A i \in 1 .. n : SubSeq(idle, 1, n)[i] = idle[i]
        BY <3>1
      <3>3. \A i \in 1 .. n : i \in DOMAIN idle
        BY <3>1
      <3> QED BY <3>2, <3>3 DEF ToSet
    <2> DEFINE gone == ToSet(SubSeq(idle, 1, n)) \cup {c \in ToSet(idle) : Dead(c)}
    <2>3. gone \subseteq ToSet(idle)
      BY <2>2
    <2> QED BY <2>1, <2>3
  <1>2. ToSet(idle) \subseteq Conns /\ idle \in Seq(Conns) /\ IsInjective(idle)
    BY HttpPoolTypes DEF ToSet, PoolInv, OneOwner
  <1>3. idle' \in Seq(Conns) /\ IsInjective(idle') /\ ToSet(idle') \subseteq ToSet(idle) \ gone
    <2> DEFINE K == {i \in DOMAIN idle : idle[i] \notin gone}
    <2>1. PICK kept \in InOrder(K) : idle' = [k \in DOMAIN kept |-> idle[kept[k]]]
      BY <1>1
    <2>2. K \in SUBSET DOMAIN idle /\ {idle[i] : i \in K} \subseteq ToSet(idle) \ gone
      BY DEF ToSet
    <2> HIDE DEF K
    <2>3. /\ idle' \in Seq(Conns) /\ IsInjective(idle')
          /\ ToSet(idle') \subseteq {idle[i] : i \in K}
      BY <1>2, <2>1, <2>2, QueueKept
    <2> QED BY <2>2, <2>3
  <1>4. UNCHANGED <<h2, poolGen, parking, req>>
    BY DEF ReapIdle
  <1> QED BY <1>1, <1>3, <1>4, QueueLosesInv

LEMMA RemoveH2Inv == ASSUME PoolInv, Steady, RemoveH2 PROVE PoolInv'
  <1> DEFINE lost == {c \in {h2} \ {NoConn} : \A q \in Req : req[q].conn # c}
  <1>0. /\ h2' = NoConn /\ conn' = Dropped(lost) /\ inUse' = inUse \ lost
        /\ UNCHANGED <<idle, poolGen, parking, req>>
    BY DEF RemoveH2
  <1>1. /\ lost \in SUBSET Conns /\ \A p \in Req : req[p].conn \notin lost
        /\ \A b \in lost : conn[b].open /\ conn[b].h2
    BY HttpPoolTypes DEF PoolInv, EntryOpen
  <1> HIDE DEF lost
  <1>2. ToSet(idle') \subseteq ToSet(idle) \ lost /\ IsInjective(idle')
    BY <1>0, <1>1 DEF PoolInv, OneOwner
  <1>3. \A b \in Conns : parking'[b].pc # "none" => parking[b].pc # "none" /\ b \notin lost
    BY <1>0, <1>1 DEF PoolInv, ParkingOpen
  <1>4. \A p \in Req : /\ req'[p].conn \in ({req[p].conn} \ lost) \cup {NoConn}
                       /\ req'[p].pc \in Holding <=> req'[p].conn # NoConn
                       /\ req'[p].pc = "gate" => req[p].pc = "gate"
    BY <1>0, <1>1 DEF PoolInv, RequestsHold
  <1>5. conn' \in [Conns -> Connection] /\ \A b \in Conns \ lost : conn'[b] = conn[b]
    BY <1>0, DroppedType
  <1>6. PoolTypeOK'
    BY <1>0, <1>5 DEF PoolInv, PoolTypeOK, Steady
  <1>7. \A b \in Conns \ lost : conn'[b].open = conn[b].open /\ conn'[b].h2 = conn[b].h2
    BY <1>5
  <1>8. h2' \in {h2, NoConn} \ lost
    BY <1>0, <1>1, NoConnApart
  <1> QED BY <1>1, <1>2, <1>3, <1>4, <1>6, <1>7, <1>8, Releases

LEMMA DestroyInv == ASSUME PoolInv, hooked' = hooked, DestroyPool PROVE PoolInv'
  <1>0. Steady
    BY DEF DestroyPool, NextGeneration, ClearIdle, ClearH2, Steady, Clearing
  <1>1. CASE NextGeneration
    <2>1. poolGen' \in 0 .. MaxDestroys
      BY <1>1, HttpPoolTypes, HttpPoolAssumption DEF NextGeneration
    <2>2. inUse' \subseteq Conns /\ UNCHANGED <<conn, idle, h2, parking, req>>
      BY <1>1, HttpPoolTypes DEF NextGeneration
    <2>3. PoolTypeOK'
      BY <1>0, <2>1, <2>2 DEF PoolInv, PoolTypeOK, Steady
    <2> QED BY <2>2, <2>3 DEF PoolInv, RequestsHold, ParkingOpen, EntryOpen, OneOwner
  <1>2. CASE ClearIdle
    <2>1. idle' \in Seq(Conns) /\ IsInjective(idle') /\ ToSet(idle') \subseteq ToSet(idle) \ ToSet(idle)
      BY <1>2 DEF ClearIdle, IsInjective, ToSet
    <2>2. /\ conn' = Dropped(ToSet(idle)) /\ inUse' = inUse \ ToSet(idle)
          /\ UNCHANGED <<h2, poolGen, parking, req>>
      BY <1>2 DEF ClearIdle
    <2> QED BY <1>0, <2>1, <2>2, QueueLosesInv
  <1>3. CASE ClearH2
    BY <1>0, <1>3, RemoveH2Inv DEF ClearH2
  <1> QED BY <1>1, <1>2, <1>3 DEF DestroyPool

LEMMA DiesInv == ASSUME PoolInv, Steady, NEW c \in Conns, Dies(c) PROVE PoolInv'
  <1>0. UNCHANGED <<idle, h2, poolGen, parking, req, inUse>>
    BY DEF Dies
  <1>1. conn' = [conn EXCEPT ![c] = [conn[c] EXCEPT !.dead = TRUE]]
    BY Zenon DEF Dies
  <1>2. [conn[c] EXCEPT !.dead = TRUE] \in Connection
    BY HttpPoolTypes, Zenon DEF Connection
  <1>3. /\ [conn[c] EXCEPT !.dead = TRUE].open = conn[c].open
        /\ [conn[c] EXCEPT !.dead = TRUE].h2 = conn[c].h2
    BY HttpPoolTypes DEF Connection
  <1>4. /\ conn' \in [Conns -> Connection]
        /\ \A b \in Conns \ {} : conn'[b].open = conn[b].open /\ conn'[b].h2 = conn[b].h2
    BY <1>1, <1>2, <1>3, HttpPoolTypes
  <1>5. PoolTypeOK'
    BY <1>0, <1>4 DEF PoolInv, PoolTypeOK, Steady
  <1>6. \A p \in Req : /\ req'[p].conn \in ({req[p].conn} \ {}) \cup {NoConn}
                       /\ req'[p].pc \in Holding <=> req'[p].conn # NoConn
                       /\ req'[p].pc = "gate" => req[p].pc = "gate"
    BY <1>0 DEF PoolInv, RequestsHold
  <1>7. IsInjective(idle')
    BY <1>0 DEF PoolInv, OneOwner
  <1>8. /\ \A b \in Conns : parking'[b].pc # "none" => parking[b].pc # "none" /\ b \notin {}
        /\ h2' \in {h2, NoConn} \ {} /\ ToSet(idle') \subseteq ToSet(idle) \ {}
        /\ {} \in SUBSET Conns
    BY <1>0
  <1> QED BY <1>4, <1>5, <1>6, <1>7, <1>8, Releases

(* Nothing changes.                                                        *)
LEMMA PoolStutters == ASSUME PoolInv, UNCHANGED httpPoolVars PROVE PoolInv'
  BY DEF httpPoolVars, connPoolVars, PoolInv, PoolTypeOK, RequestsHold, ParkingOpen, EntryOpen,
     OneOwner

LEMMA PoolTasksInv == ASSUME PoolInv, hooked' = hooked, PoolTasks PROVE PoolInv'
  <1>1. CASE DestroyPool
    BY <1>1, DestroyInv
  <1>2. CASE UNCHANGED clearing
    <2>1. Steady
      BY <1>2, Steadily
    <2>2. CASE ReapH2
      BY <2>1, <2>2, RemoveH2Inv DEF ReapH2
    <2> QED BY <1>1, <2>1, <2>2, ParkingInv, DiesInv, ReapIdleInv DEF PoolTasks
  <1> QED BY <1>1, <1>2 DEF PoolTasks

LEMMA GetsConnInv ==
    ASSUME PoolInv, Steady, NEW r \in Req, CheckoutStep(r) \/ ConnectStep(r)
    PROVE  PoolInv'
  BY CheckoutInv, TakeIdleInv, PassGateInv, RequestMovesInv, ConnectedInv
     DEF CheckoutStep, ConnectStep

(* One step of the pool under requests of any kind.                        *)
LEMMA PoolNextInv == PoolInv /\ [PoolNext]_httpPoolVars => PoolInv'
  <1> SUFFICES ASSUME PoolInv, PoolNext PROVE PoolInv'
    BY PoolStutters
  <1>0. hooked' = hooked /\ hooked \in BOOLEAN
    BY HttpPoolTypes DEF PoolNext
  <1>1. CASE PoolTasks
    BY <1>0, <1>1, PoolTasksInv
  <1>2. ASSUME NEW r \in Req, OneRequest(r), UNCHANGED clearing PROVE PoolInv'
    <2>0. Steady
      BY <1>0, <1>2, Steadily
    <2>1. "ok" \in Outcome /\ "failed" \in Outcome
      BY DEF Outcome
    <2>2. CASE CheckoutStep(r) \/ ConnectStep(r)
      BY <1>0, <2>0, <2>2, GetsConnInv
    <2>3. CASE Unsent(r) \/ Sent(r, "failed") \/ Abandon(r)
      BY <1>0, <2>0, <2>1, <2>3, SendEndsInv
    <2>4. CASE StartRequest(r, hooked) /\ UNCHANGED connPoolVars
      BY <1>0, <2>0, <2>4, StartRequestInv
    <2>5. CASE \E keep \in BOOLEAN : Answered(r, "ok", keep)
      BY <1>0, <2>0, <2>1, <2>5, AnsweredInv
    <2> QED BY <1>2, <2>2, <2>3, <2>4, <2>5 DEF OneRequest
  <1> QED BY <1>1, <1>2 DEF PoolNext

(***************************************************************************)
(* Pool::request, on_success and the reaper: an HTTP/1 connection has one  *)
(* owner, a request, its parking task or one place in the queue, for every *)
(* set of requests and every number of connections and destroys.           *)
(***************************************************************************)
THEOREM PoolOneOwner == PoolSpec => []OneOwner
  <1>1. PoolInv => OneOwner
    BY DEF PoolInv
  <1> QED BY <1>1, PoolInitInv, PoolNextInv, PTL DEF PoolSpec

-----------------------------------------------------------------------------
(* Fetches.  What the server may have read of a hop is a resend after a    *)
(* stale connection, which stale records, and the send under way once it   *)
(* has an outcome.                                                         *)

(* The outcomes of a send that a server may have read.                     *)
OnceRead == {"ok", "redirect", "seeOther", "stale", "failed"}

SendRead(s, q) ==
    \/ s.pc = "released"
    \/ s.pc = "sending" /\ q.pc = "done" /\ q.out \in OnceRead

Allowed(s, q) == (IF s.stale THEN 1 ELSE 0) + (IF SendRead(s, q) THEN 1 ELSE 0)

WireCounted == \A f \in Fetch : wire[f] <= Allowed(fetch[f], req[f])

(* A resend is of a request the server may read twice.                     *)
StaleMayRepeat ==
    \A f \in Fetch : fetch[f].stale => fetch[f].idempotent /\ fetch[f].body = "replayable"

(* A request is under way for a fetch that sends, a fetch that was not     *)
(* started has not resent, and one that follows a redirect has another hop.*)
SendingOnly ==
    \A f \in Fetch : /\ fetch[f].pc # "sending" => req[f].pc \in {"out", "done"}
                     /\ fetch[f].pc = "new" => ~fetch[f].stale
                     /\ fetch[f].pc = "released" => fetch[f].hops < MaxRedirects

FetchInv ==
    /\ PoolInv
    /\ FetchTypeOK
    /\ WireCounted
    /\ StaleMayRepeat
    /\ SendingOnly

LEMMA FetchTypes ==
    ASSUME FetchInv
    PROVE  /\ PoolInv /\ fetch \in [Fetch -> LoopState] /\ cancels \subseteq Fetch
           /\ wire \in [Fetch -> Nat] /\ req \in [Req -> Request]
           /\ Fetch \subseteq Req /\ hooked \in BOOLEAN
  BY HttpPoolTypes, HttpFetchAssumption DEF FetchInv, FetchTypeOK

LEMMA FreshType ==
    /\ Fresh \in LoopState /\ Fresh.pc = "new" /\ ~Fresh.stale
    /\ LET s == [Fresh EXCEPT !.pc = "done"]
       IN  s \in LoopState /\ s.pc = "done" /\ ~s.stale
  <1>1. 0 \in 0 .. MaxH2Retries /\ 0 \in 0 .. MaxRedirects /\ NoConn \in Conns \cup {NoConn}
    BY HttpFetchAssumption
  <1>2. Fresh \in LoopState
    BY <1>1, Zenon DEF Fresh, LoopState
  <1>3. Fresh.pc = "new" /\ ~Fresh.stale
    BY DEF Fresh
  <1>4. [Fresh EXCEPT !.pc = "done"] \in LoopState
    BY <1>2 DEF LoopState
  <1>5. [Fresh EXCEPT !.pc = "done"].pc = "done" /\ ~[Fresh EXCEPT !.pc = "done"].stale
    BY <1>2, <1>3 DEF LoopState
  <1> QED BY <1>2, <1>3, <1>4, <1>5

LEMMA FetchInitInv == FetchInit => FetchInv
  <1> SUFFICES ASSUME FetchInit PROVE FetchInv
    OBVIOUS
  <1>1. PoolInv
    BY PoolInitInv DEF FetchInit
  <1>2. /\ fetch = [f \in Fetch |-> Fresh] /\ wire = [f \in Fetch |-> 0] /\ cancels = {}
        /\ req = [r \in Req |-> NoRequest]
    BY DEF FetchInit, PoolInit
  <1>3. FetchTypeOK
    BY <1>1, <1>2, FreshType DEF FetchTypeOK, PoolInv
  <1>4. \A f \in Fetch : fetch[f] = Fresh /\ wire[f] = 0 /\ req[f] = NoRequest
    BY <1>2, HttpFetchAssumption
  <1> QED BY <1>1, <1>3, <1>4, FreshType, RecordTypes
          DEF FetchInv, WireCounted, Allowed, SendRead, StaleMayRepeat, SendingOnly

(* A step of one fetch.                                                    *)
LEMMA FetchLoopStep ==
    ASSUME FetchInv, PoolInv', NEW f \in Fetch, NEW s \in LoopState, Set(f, s),
           \A g \in Fetch : g # f => req'[g] = req[g] /\ wire'[g] = wire[g],
           wire' \in [Fetch -> Nat], cancels' \subseteq Fetch,
           s.pc # "new", s.pc = "released" => s.hops < MaxRedirects,
           s.stale => s.idempotent /\ s.body = "replayable",
           s.pc # "sending" => req'[f].pc \in {"out", "done"},
           wire'[f] <= Allowed(s, req'[f])
    PROVE  FetchInv'
  <1>1. /\ fetch' \in [Fetch -> LoopState] /\ \A g \in Fetch : fetch'[g] = IF g = f THEN s ELSE fetch[g]
    BY FetchTypes DEF Set
  <1>2. FetchTypeOK'
    BY <1>1 DEF FetchTypeOK, PoolInv
  <1>3. WireCounted'
    BY <1>1 DEF FetchInv, WireCounted
  <1>4. StaleMayRepeat' /\ SendingOnly'
    BY <1>1 DEF FetchInv, StaleMayRepeat, SendingOnly
  <1> QED BY <1>2, <1>3, <1>4 DEF FetchInv

(* A loop's state keeps its type when the parts that are not BOOLEAN       *)
(* change; wire ends at 0 or counts one more.                              *)
LEMMA FinishInv ==
    ASSUME FetchInv, PoolInv', NEW f \in Fetch, Finish(f), req'[f].pc \in {"out", "done"},
           \A g \in Fetch : g # f => req'[g] = req[g]
    PROVE  FetchInv'
  <1> DEFINE s == [Fresh EXCEPT !.pc = "done"]
  <1>1. s \in LoopState /\ s.pc = "done" /\ ~s.stale
    BY FreshType
  <1>2. /\ Set(f, s) /\ wire' = [wire EXCEPT ![f] = 0] /\ cancels' = cancels \ {f}
    BY DEF Finish
  <1> HIDE DEF s
  <1>3. /\ wire' \in [Fetch -> Nat] /\ wire'[f] = 0 /\ cancels' \subseteq Fetch
        /\ \A g \in Fetch : g # f => wire'[g] = wire[g]
    BY <1>2, FetchTypes
  <1>4. 0 <= Allowed(s, req'[f])
    BY <1>1 DEF Allowed, SendRead
  <1> QED BY <1>1, <1>2, <1>3, <1>4, FetchLoopStep

(* The pool moves and no fetch does.                                       *)
LEMMA FetchTasksInv == ASSUME FetchInv, FetchTasks PROVE FetchInv'
  <1>1. hooked' = hooked /\ UNCHANGED fetchVars /\ PoolTasks
    BY DEF FetchTasks
  <1>2. PoolInv'
    BY <1>1, FetchTypes, PoolTasksInv
  <1>3. req' = req
    BY <1>1 DEF PoolTasks, ParkingStep, Drained, CheckGeneration, Park, Dies, ReapIdle,
       ReapH2, RemoveH2, DestroyPool, NextGeneration, ClearIdle, ClearH2
  <1>4. FetchTypeOK'
    BY <1>1, <1>2 DEF FetchInv, FetchTypeOK, PoolInv, fetchVars
  <1> QED BY <1>1, <1>2, <1>3, <1>4
          DEF FetchInv, WireCounted, StaleMayRepeat, SendingOnly, fetchVars

(* A send under way goes on to its connection, or starts over.             *)
LEMMA SendGoesOnInv ==
    ASSUME FetchInv, NEW f \in Fetch, GetsConn(f) \/ FetchUnsent(f)
    PROVE  FetchInv'
  <1>0. /\ f \in Req /\ PoolInv /\ Steady /\ UNCHANGED fetchVars
        /\ req \in [Req -> Request]
    BY FetchTypes, Steadily DEF GetsConn, FetchUnsent
  <1>1. PoolInv'
    BY <1>0, GetsConnInv, SendEndsInv DEF GetsConn, FetchUnsent
  <1>2. /\ req[f].pc \notin {"out", "done"}
        /\ \E q : req' = [req EXCEPT ![f] = q]
    <2>1. CASE CheckoutStep(f)
      BY <1>0, <2>1 DEF CheckoutStep, Checkout, TakeIdle, TakeNone, PassGate, Dial, Goes, Gets, Ends
    <2>2. CASE ConnectStep(f)
      BY <1>0, <2>2 DEF ConnectStep, ConnectFails, Connected, Gets, Ends
    <2>3. CASE Unsent(f)
      BY <1>0, <2>3 DEF Unsent, Ends
    <2> QED BY <2>1, <2>2, <2>3 DEF GetsConn, FetchUnsent
  <1>3. fetch[f].pc = "sending"
    BY <1>2 DEF FetchInv, SendingOnly
  <1>4. /\ fetch[f] \in LoopState /\ Set(f, fetch[f]) /\ wire' = wire /\ cancels' = cancels
    BY <1>0, FetchTypes DEF fetchVars, Set
  <1>5. \A g \in Fetch : g # f => req'[g] = req[g]
    BY <1>0, <1>2, FetchTypes
  <1>6. wire[f] <= Allowed(fetch[f], req'[f])
    <2>1. wire[f] <= Allowed(fetch[f], req[f])
      BY DEF FetchInv, WireCounted
    <2>2. wire[f] <= IF fetch[f].stale THEN 1 ELSE 0
      BY <1>2, <1>3, <2>1 DEF Allowed, SendRead
    <2>3. wire[f] \in Nat
      BY FetchTypes
    <2> QED BY <2>2, <2>3 DEF Allowed
  <1>7. fetch[f].stale => fetch[f].idempotent /\ fetch[f].body = "replayable"
    BY DEF FetchInv, StaleMayRepeat
  <1> QED BY <1>1, <1>3, <1>4, <1>5, <1>6, <1>7, FetchTypes, FetchLoopStep

(* A send has an outcome: the server may have read it, unless it refused.  *)
LEMMA OutcomeInv ==
    ASSUME FetchInv, PoolInv', NEW f \in Fetch, req[f].pc = "send", NEW out \in Outcome,
           Ends(f, out), NEW s \in LoopState, Set(f, s),
           s.pc = fetch[f].pc, s.stale = fetch[f].stale,
           s.idempotent = fetch[f].idempotent, s.body = fetch[f].body, cancels' = cancels,
           wire' = wire \/ (OnWire(f) /\ out \in OnceRead)
    PROVE  FetchInv'
  <1> DEFINE q == [NoRequest EXCEPT !.pc = "done", !.out = out]
  <1>1. q.pc = "done" /\ q.out = out
    BY RecordTypes DEF Request
  <1>2. req' = [req EXCEPT ![f] = q]
    BY DEF Ends
  <1> HIDE DEF q
  <1>3. req'[f] = q /\ \A g \in Fetch : g # f => req'[g] = req[g]
    BY <1>2, FetchTypes
  <1>4. fetch[f].pc = "sending"
    BY DEF FetchInv, SendingOnly
  <1>5. /\ wire' \in [Fetch -> Nat] /\ \A g \in Fetch : g # f => wire'[g] = wire[g]
        /\ wire'[f] = wire[f] \/ (wire'[f] = wire[f] + 1 /\ out \in OnceRead)
    BY FetchTypes DEF OnWire
  <1>6. wire[f] \in Nat /\ wire[f] <= IF fetch[f].stale THEN 1 ELSE 0
    <2>1. wire[f] <= Allowed(fetch[f], req[f])
      BY DEF FetchInv, WireCounted
    <2>2. ~SendRead(fetch[f], req[f])
      BY <1>4 DEF SendRead
    <2> QED BY <2>1, <2>2, FetchTypes DEF Allowed
  <1>7. out \in OnceRead => SendRead(s, q)
    BY <1>1, <1>4 DEF SendRead
  <1>8. wire'[f] <= Allowed(s, q)
    <2>1. CASE wire'[f] = wire[f]
      BY <1>6, <2>1 DEF Allowed
    <2>2. CASE wire'[f] = wire[f] + 1 /\ out \in OnceRead
      BY <1>6, <1>7, <2>2 DEF Allowed
    <2> QED BY <1>5, <2>1, <2>2
  <1>9. s.stale => s.idempotent /\ s.body = "replayable"
    BY DEF FetchInv, StaleMayRepeat
  <1> QED BY <1>3, <1>4, <1>5, <1>8, <1>9, FetchTypes, FetchLoopStep

LEMMA FetchAnsweredInv ==
    ASSUME FetchInv, NEW f \in Fetch, NEW out \in {"ok", "redirect", "seeOther"},
           NEW keep \in BOOLEAN, FetchAnswered(f, out, keep)
    PROVE  FetchInv'
  <1> DEFINE n == IF out = "ok" \/ conn[req[f].conn].h2 THEN NoConn ELSE req[f].conn
             s == [fetch[f] EXCEPT !.on = n]
  <1>0. f \in Req /\ PoolInv /\ Steady /\ out \in Outcome /\ out \in OnceRead
    BY FetchTypes, Steadily DEF FetchAnswered, Outcome, OnceRead
  <1>1. PoolInv' /\ req[f].pc = "send" /\ Ends(f, out)
    BY <1>0, AnsweredInv DEF FetchAnswered, Answered
  <1>2. n \in Conns \cup {NoConn}
    BY <1>0, FetchTypes DEF Request
  <1>3. Set(f, s) /\ OnWire(f) /\ cancels' = cancels
    BY DEF FetchAnswered
  <1> HIDE DEF n
  <1>4. /\ s \in LoopState /\ s.pc = fetch[f].pc /\ s.stale = fetch[f].stale
        /\ s.idempotent = fetch[f].idempotent /\ s.body = fetch[f].body
    BY <1>2, FetchTypes DEF LoopState
  <1> HIDE DEF s
  <1> QED BY <1>0, <1>1, <1>3, <1>4, OutcomeInv

LEMMA FetchSentInv ==
    ASSUME FetchInv, NEW f \in Fetch, NEW out \in {"refused", "stale", "failed"},
           FetchSent(f, out)
    PROVE  FetchInv'
  <1>0. f \in Req /\ PoolInv /\ Steady /\ out \in Outcome
    BY FetchTypes, Steadily DEF FetchSent, Outcome
  <1>1. PoolInv' /\ req[f].pc = "send" /\ Ends(f, out)
    BY <1>0, SendEndsInv DEF FetchSent, Sent
  <1>2. wire' = wire \/ (OnWire(f) /\ out \in OnceRead)
    BY DEF FetchSent, OnceRead
  <1>3. Set(f, fetch[f]) /\ cancels' = cancels /\ fetch[f] \in LoopState
    BY FetchTypes DEF FetchSent, Set
  <1> QED BY <1>0, <1>1, <1>2, <1>3, OutcomeInv

(* Steps of the loop that leave the pool and the wire alone.               *)
LEMMA LoopOnlyInv ==
    ASSUME FetchInv, NEW f \in Fetch, fetch[f].pc # "sending", fetch[f].pc # "released",
           UNCHANGED <<httpPoolVars, cancels, wire>>, NEW s \in LoopState, Set(f, s),
           s.pc \in {"hop", "send", "parked"},
           \/ ~fetch[f].stale /\ ~s.stale
           \/ /\ s.stale = fetch[f].stale /\ s.idempotent = fetch[f].idempotent
              /\ s.body = fetch[f].body
    PROVE  FetchInv'
  <1>1. PoolInv' /\ req' = req
    BY FetchTypes, PoolStutters DEF httpPoolVars
  <1>2. req[f].pc \in {"out", "done"}
    BY DEF FetchInv, SendingOnly
  <1>3. wire[f] <= Allowed(s, req[f])
    <2>1. wire[f] <= Allowed(fetch[f], req[f])
      BY DEF FetchInv, WireCounted
    <2> QED BY <2>1 DEF Allowed, SendRead
  <1>4. s.stale => s.idempotent /\ s.body = "replayable"
    BY DEF FetchInv, StaleMayRepeat
  <1> QED BY <1>1, <1>2, <1>3, <1>4, FetchTypes, FetchLoopStep

LEMMA HopInv ==
    ASSUME FetchInv, NEW f \in Fetch,
           \/ ParkForLookup(f) \/ Hop(f) \/ HookAnswers(f)
           \/ \E i \in BOOLEAN, b \in {"replayable", "stream"} : StartFetch(f, i, b)
    PROVE  FetchInv'
  <1>0. fetch[f] \in LoopState /\ UNCHANGED <<httpPoolVars, cancels, wire>>
    BY FetchTypes DEF ParkForLookup, Hop, HookAnswers, StartFetch
  <1>1. ASSUME NEW pc \in {"parked", "send"}, Set(f, [fetch[f] EXCEPT !.pc = pc]),
               fetch[f].pc = "hop"
        PROVE  FetchInv'
    <2> DEFINE s == [fetch[f] EXCEPT !.pc = pc]
    <2>1. /\ s \in LoopState /\ s.pc = pc /\ s.stale = fetch[f].stale
          /\ s.idempotent = fetch[f].idempotent /\ s.body = fetch[f].body
      BY <1>0, <1>1 DEF LoopState
    <2>2. Set(f, s)
      BY <1>1
    <2> HIDE DEF s
    <2> QED BY <1>0, <1>1, <2>1, <2>2, LoopOnlyInv
  <1>2. CASE HookAnswers(f)
    <2> DEFINE s == [fetch[f] EXCEPT !.pc = "hop", !.answer = TRUE]
    <2>1. Set(f, s) /\ fetch[f].pc = "parked"
      BY <1>2 DEF HookAnswers, Resumed
    <2>2. s \in LoopState
      BY <1>0, Zenon DEF LoopState
    <2>3. /\ s.pc = "hop" /\ s.stale = fetch[f].stale
          /\ s.idempotent = fetch[f].idempotent /\ s.body = fetch[f].body
      BY <1>0 DEF LoopState
    <2> HIDE DEF s
    <2> QED BY <1>0, <2>1, <2>2, <2>3, LoopOnlyInv
  <1>3. ASSUME NEW i \in BOOLEAN, NEW b \in {"replayable", "stream"}, StartFetch(f, i, b)
        PROVE  FetchInv'
    <2> DEFINE s == [fetch[f] EXCEPT !.pc = "hop", !.idempotent = i, !.body = b]
    <2>1. Set(f, s) /\ fetch[f].pc = "new"
      BY <1>3 DEF StartFetch
    <2>2. b \in {"replayable", "stream", "spent"}
      BY <1>3
    <2>3. s \in LoopState
      BY <1>0, <1>3, <2>2, Zenon DEF LoopState
    <2>4. s.pc = "hop" /\ s.stale = fetch[f].stale
      BY <1>0 DEF LoopState
    <2>5. ~fetch[f].stale
      BY <2>1 DEF FetchInv, SendingOnly
    <2> HIDE DEF s
    <2> QED BY <1>0, <2>1, <2>3, <2>4, <2>5, LoopOnlyInv
  <1> QED BY <1>1, <1>2, <1>3 DEF ParkForLookup, Hop

(* A send starts.                                                          *)
LEMMA SendHopInv == ASSUME FetchInv, NEW f \in Fetch, SendHop(f) PROVE FetchInv'
  <1> DEFINE b == IF fetch[f].body = "stream" THEN "spent" ELSE fetch[f].body
             s == [fetch[f] EXCEPT !.pc = "sending", !.answer = FALSE, !.unsent = FALSE, !.body = b]
             a == fetch[f].answer
  <1>0. /\ f \in Req /\ PoolInv /\ Steady /\ fetch[f] \in LoopState
        /\ UNCHANGED connPoolVars /\ UNCHANGED <<cancels, wire>> /\ fetch[f].pc = "send"
        /\ StartRequest(f, a)
    BY FetchTypes, Steadily DEF SendHop
  <1>1. a \in BOOLEAN
    BY <1>0, Zenon DEF LoopState
  <1>2. Set(f, s)
    BY <1>0 DEF SendHop, LoopState
  <1>3. b \in {"replayable", "stream", "spent"}
    BY <1>0 DEF LoopState
  <1>4. fetch[f].stale => fetch[f].idempotent /\ fetch[f].body = "replayable" /\ b = "replayable"
    BY DEF FetchInv, StaleMayRepeat
  <1> HIDE DEF a, b
  <1>5. PoolInv'
    BY <1>0, <1>1, StartRequestInv
  <1>6. s \in LoopState
    BY <1>0, <1>3, Zenon DEF LoopState
  <1>7. /\ s.pc = "sending" /\ s.stale = fetch[f].stale
        /\ s.idempotent = fetch[f].idempotent /\ s.body = b
    BY <1>0 DEF LoopState
  <1> HIDE DEF s
  <1>8. \A g \in Fetch : g # f => req'[g] = req[g]
    BY <1>0, FetchTypes DEF StartRequest
  <1>9. wire[f] <= Allowed(s, req'[f])
    <2>1. wire[f] <= Allowed(fetch[f], req[f]) /\ wire[f] \in Nat
      BY FetchTypes DEF FetchInv, WireCounted
    <2>2. ~SendRead(fetch[f], req[f])
      BY <1>0 DEF SendRead
    <2> QED BY <1>7, <2>1, <2>2 DEF Allowed
  <1> QED BY <1>0, <1>2, <1>4, <1>5, <1>6, <1>7, <1>8, <1>9, FetchTypes, FetchLoopStep

(* The loop takes an outcome: the pool's request is over.                  *)
LEMMA TakesResultPool ==
    ASSUME FetchInv, NEW f \in Fetch, TakesResult(f)
    PROVE  /\ PoolInv' /\ req'[f].pc = "out"
           /\ \A g \in Fetch : g # f => req'[g] = req[g]
  <1>1. f \in Req /\ PoolInv /\ req \in [Req -> Request] /\ Fetch \subseteq Req
    BY FetchTypes
  <1>2. req' = [req EXCEPT ![f] = NoRequest] /\ Steady /\ UNCHANGED connPoolVars
    BY <1>1, Steadily DEF TakesResult
  <1>3. NoRequest \in Request /\ NoRequest.conn = NoConn /\ NoRequest.pc \notin Holding
    BY RecordTypes DEF Holding
  <1>4. PoolInv'
    BY <1>1, <1>2, <1>3, OnlyRequest
  <1> QED BY <1>1, <1>2, <1>4, RecordTypes

LEMMA TakesResultInv ==
    ASSUME FetchInv, NEW f \in Fetch, NeedsLookup(f) \/ RetryH2(f) \/ ResendStale(f) \/ Follows(f)
    PROVE  FetchInv'
  <1>0. /\ fetch[f] \in LoopState /\ TakesResult(f) /\ UNCHANGED <<cancels, wire>>
        /\ fetch[f].pc = "sending" /\ req[f].pc = "done"
    BY FetchTypes DEF NeedsLookup, RetryH2, ResendStale, Follows, Has
  <1>1. /\ PoolInv' /\ req'[f].pc = "out" /\ \A g \in Fetch : g # f => req'[g] = req[g]
    BY <1>0, TakesResultPool
  <1>2. wire[f] <= Allowed(fetch[f], req[f]) /\ wire[f] \in Nat
    BY FetchTypes DEF FetchInv, WireCounted
  <1>3. fetch[f].stale => fetch[f].idempotent /\ fetch[f].body = "replayable"
    BY DEF FetchInv, StaleMayRepeat
  <1>4. ASSUME NEW s \in LoopState, Set(f, s), s.pc \in {"parked", "send"},
               req[f].out \in {"lookup", "refused"}, s.stale = fetch[f].stale,
               s.idempotent = fetch[f].idempotent, s.body = fetch[f].body
        PROVE  FetchInv'
    <2>1. ~SendRead(fetch[f], req[f])
      BY <1>0, <1>4 DEF SendRead, OnceRead
    <2>2. wire[f] <= Allowed(s, req'[f])
      BY <1>2, <1>4, <2>1 DEF Allowed
    <2> QED BY <1>0, <1>1, <1>3, <1>4, <2>2, FetchTypes, FetchLoopStep
  <1>5. CASE NeedsLookup(f)
    <2> DEFINE s == [fetch[f] EXCEPT !.pc = "parked", !.unsent = TRUE]
    <2>1. Set(f, s) /\ req[f].out = "lookup"
      BY <1>5 DEF NeedsLookup, Has
    <2>2. s \in LoopState
      BY <1>0, Zenon DEF LoopState
    <2>3. /\ s.pc = "parked" /\ s.stale = fetch[f].stale
          /\ s.idempotent = fetch[f].idempotent /\ s.body = fetch[f].body
      BY <1>0 DEF LoopState
    <2> HIDE DEF s
    <2> QED BY <1>4, <2>1, <2>2, <2>3
  <1>6. CASE RetryH2(f)
    <2> DEFINE s == [fetch[f] EXCEPT !.pc = "send", !.h2 = fetch[f].h2 + 1]
    <2>1. Set(f, s) /\ req[f].out = "refused" /\ fetch[f].h2 < MaxH2Retries
      BY <1>0, <1>6 DEF RetryH2, Has, MayRetryH2, LoopState
    <2>2. fetch[f].h2 + 1 \in 0 .. MaxH2Retries
      BY <1>0, <2>1, HttpFetchAssumption DEF LoopState
    <2>3. s \in LoopState
      BY <1>0, <2>2 DEF LoopState
    <2>4. /\ s.pc = "send" /\ s.stale = fetch[f].stale
          /\ s.idempotent = fetch[f].idempotent /\ s.body = fetch[f].body
      BY <1>0 DEF LoopState
    <2> HIDE DEF s
    <2> QED BY <1>4, <2>1, <2>3, <2>4
  <1>7. CASE ResendStale(f)
    <2> DEFINE s == [fetch[f] EXCEPT !.pc = "send", !.stale = TRUE]
    <2>1. /\ Set(f, s) /\ ~fetch[f].stale /\ fetch[f].idempotent
          /\ fetch[f].body = "replayable"
      BY <1>7 DEF ResendStale, MayResend, Replayable
    <2>2. s \in LoopState
      BY <1>0, Zenon DEF LoopState
    <2>3. /\ s.pc = "send" /\ s.idempotent = fetch[f].idempotent /\ s.body = fetch[f].body
      BY <1>0 DEF LoopState
    <2>4. s.stale
      BY <1>0, Zenon DEF LoopState
    <2> HIDE DEF s
    <2>5. wire[f] <= 1
      BY <1>2, <2>1 DEF Allowed
    <2>6. wire[f] <= Allowed(s, req'[f])
      BY <1>2, <2>4, <2>5 DEF Allowed
    <2> QED BY <1>0, <1>1, <2>1, <2>2, <2>3, <2>6, FetchTypes, FetchLoopStep
  <1>8. CASE Follows(f)
    <2> DEFINE i == fetch[f].idempotent \/ Has(f, "seeOther")
               s == [fetch[f] EXCEPT !.pc = "released", !.body = "replayable", !.idempotent = i]
    <2>1. Set(f, s)
      BY <1>0, <1>8, Zenon DEF Follows, LoopState
    <2>2. i \in BOOLEAN /\ (fetch[f].idempotent => i)
      BY Zenon
    <2> HIDE DEF i
    <2>3. s \in LoopState
      BY <1>0, <2>2, Zenon DEF LoopState
    <2>4. /\ s.pc = "released" /\ s.stale = fetch[f].stale /\ s.idempotent = i
          /\ s.body = "replayable" /\ s.hops = fetch[f].hops
      BY <1>0 DEF LoopState
    <2> HIDE DEF s
    <2>5. wire[f] <= Allowed(s, req'[f])
      BY <1>2, <2>4 DEF Allowed, SendRead
    <2>6. fetch[f].hops < MaxRedirects
      BY <1>8 DEF Follows
    <2> QED BY <1>0, <1>1, <1>3, <2>1, <2>2, <2>3, <2>4, <2>5, <2>6, FetchTypes, FetchLoopStep
  <1> QED BY <1>5, <1>6, <1>7, <1>8

(* The next hop begins with nothing on the wire.                           *)
LEMMA ReleasedInv == ASSUME FetchInv, NEW f \in Fetch, Released(f) PROVE FetchInv'
  <1> DEFINE n == fetch[f].hops + 1
             s == [fetch[f] EXCEPT !.pc = "hop", !.hops = n, !.stale = FALSE, !.h2 = 0,
                                   !.on = NoConn]
  <1>0. /\ wire' = [wire EXCEPT ![f] = 0] /\ UNCHANGED <<httpPoolVars, cancels>>
        /\ fetch[f].pc = "released" /\ fetch[f] \in LoopState
    BY FetchTypes DEF Released
  <1>1. Set(f, s)
    BY <1>0 DEF Released, LoopState
  <1>2. n \in 0 .. MaxRedirects /\ 0 \in 0 .. MaxH2Retries /\ NoConn \in Conns \cup {NoConn}
    <2>1. fetch[f].hops < MaxRedirects
      BY <1>0 DEF FetchInv, SendingOnly
    <2> QED BY <1>0, <2>1, HttpFetchAssumption DEF LoopState
  <1> HIDE DEF n
  <1>3. s \in LoopState
    BY <1>0, <1>2, Zenon DEF LoopState
  <1>4. s.pc = "hop" /\ ~s.stale
    BY <1>0 DEF LoopState
  <1> HIDE DEF s
  <1>5. PoolInv' /\ req' = req
    BY <1>0, FetchTypes, PoolStutters DEF httpPoolVars
  <1>6. req[f].pc \in {"out", "done"}
    BY <1>0 DEF FetchInv, SendingOnly
  <1>7. /\ wire' \in [Fetch -> Nat] /\ wire'[f] = 0 /\ cancels' \subseteq Fetch
        /\ \A g \in Fetch : g # f => wire'[g] = wire[g]
    BY <1>0, FetchTypes
  <1>8. 0 <= Allowed(s, req'[f])
    BY <1>4 DEF Allowed, SendRead
  <1> QED BY <1>1, <1>3, <1>4, <1>5, <1>6, <1>7, <1>8, FetchLoopStep

(* A fetch ends: with an outcome, without the hook's answer, or before its *)
(* send has one.                                                           *)
LEMMA FetchEndsInv ==
    ASSUME FetchInv, NEW f \in Fetch,
           Responds(f) \/ HookFails(f) \/ Cancelled(f) \/ HeadersTimeout(f)
    PROVE  FetchInv'
  <1>0. Finish(f) /\ f \in Req /\ PoolInv /\ req \in [Req -> Request] /\ Fetch \subseteq Req
    BY FetchTypes DEF Responds, HookFails, Cancelled, HeadersTimeout
  <1>1. CASE Responds(f)
    BY <1>0, <1>1, TakesResultPool, FinishInv DEF Responds
  <1>2. ASSUME fetch[f].pc # "sending", UNCHANGED httpPoolVars
        PROVE  FetchInv'
    <2>1. PoolInv' /\ req' = req
      BY <1>0, <1>2, PoolStutters DEF httpPoolVars
    <2>2. req[f].pc \in {"out", "done"}
      BY <1>2 DEF FetchInv, SendingOnly
    <2> QED BY <1>0, <2>1, <2>2, FinishInv
  <1>3. ASSUME Abandon(f), Steady
        PROVE  FetchInv'
    <2> DEFINE q == [NoRequest EXCEPT !.pc = "done", !.out = "failed"]
    <2>1. PoolInv'
      BY <1>0, <1>3, SendEndsInv
    <2>2. req' = [req EXCEPT ![f] = q]
      BY <1>3 DEF Abandon, Ends
    <2>3. q.pc = "done"
      BY RecordTypes DEF Request
    <2> HIDE DEF q
    <2>4. req'[f].pc = "done" /\ \A g \in Fetch : g # f => req'[g] = req[g]
      BY <1>0, <2>2, <2>3
    <2> QED BY <1>0, <2>1, <2>4, FinishInv
  <1>4. CASE HookFails(f)
    BY <1>2, <1>4 DEF HookFails
  <1>5. CASE Cancelled(f)
    BY <1>0, <1>2, <1>3, <1>5, Steadily DEF Cancelled, httpPoolVars
  <1>6. CASE HeadersTimeout(f)
    BY <1>0, <1>3, <1>6, Steadily DEF HeadersTimeout
  <1> QED BY <1>1, <1>4, <1>5, <1>6

LEMMA FetchNextInv == FetchInv /\ [FetchNext]_httpVars => FetchInv'
  <1> SUFFICES ASSUME FetchInv, [FetchNext]_httpVars PROVE FetchInv'
    OBVIOUS
  <1>1. ASSUME UNCHANGED <<httpPoolVars, fetch, wire>>, cancels' \subseteq Fetch
        PROVE  FetchInv'
    <2>1. PoolInv' /\ req' = req
      BY <1>1, FetchTypes, PoolStutters DEF httpPoolVars
    <2>2. FetchTypeOK'
      BY <1>1, <2>1 DEF FetchInv, FetchTypeOK, PoolInv
    <2> QED BY <1>1, <2>1, <2>2 DEF FetchInv, WireCounted, StaleMayRepeat, SendingOnly
  <1>2. CASE UNCHANGED httpVars
    BY <1>1, <1>2, FetchTypes DEF httpVars, fetchVars
  <1>3. CASE FetchTasks
    BY <1>3, FetchTasksInv
  <1>4. ASSUME NEW f \in Fetch, OneFetch(f)
        PROVE  FetchInv'
    <2>1. CASE CancelFetch(f)
      BY <1>1, <1>4, <2>1, FetchTypes DEF CancelFetch
    <2>2. CASE \E i \in BOOLEAN, b \in {"replayable", "stream"} : StartFetch(f, i, b)
      BY <1>4, <2>2, HopInv
    <2>3. CASE FetchStep(f)
      BY <1>4, <2>3, HopInv, SendHopInv, TakesResultInv, ReleasedInv, FetchEndsInv
         DEF FetchStep
    <2>4. CASE HookStep(f)
      BY <1>4, <2>4, HopInv, FetchEndsInv DEF HookStep
    <2>5. CASE GetsConn(f)
      BY <1>4, <2>5, SendGoesOnInv
    <2>6. CASE SendEnds(f)
      BY <1>4, <2>6, SendGoesOnInv, FetchAnsweredInv, FetchSentInv, FetchEndsInv DEF SendEnds
    <2> QED BY <1>4, <2>1, <2>2, <2>3, <2>4, <2>5, <2>6 DEF OneFetch, FetchGoesOn
  <1> QED BY <1>2, <1>3, <1>4 DEF FetchNext

(* The pool's and the fetches' states have their types.                    *)
THEOREM FetchTypeCorrect == FetchSpec => []FetchTypeOK
  <1>1. FetchInv => FetchTypeOK
    BY DEF FetchInv
  <1> QED BY <1>1, FetchInitInv, FetchNextInv, PTL DEF FetchSpec

(***************************************************************************)
(* Under fetches too, a connection that is not HTTP/2 has one owner: the   *)
(* loop's resends, cancels, timeouts and redirects put none into two       *)
(* hands (send.rs over http_client/mod.rs).                                *)
(***************************************************************************)
THEOREM FetchOneOwner == FetchSpec => []OneOwner
  <1>1. FetchInv => OneOwner
    BY DEF FetchInv, PoolInv
  <1> QED BY <1>1, FetchInitInv, FetchNextInv, PTL DEF FetchSpec

(***************************************************************************)
(* A request the server may act on twice is never sent twice: the loop in  *)
(* send.rs resends after a stale connection only what is idempotent and    *)
(* can be replayed, and once in a hop, through every park of its hook.     *)
(***************************************************************************)
THEOREM FetchNeverSentTwice == FetchSpec => []NeverSentTwice
  <1>1. ASSUME FetchInv PROVE NeverSentTwice
    <2>1. SUFFICES ASSUME NEW f \in Fetch
                   PROVE  wire[f] <= IF fetch[f].idempotent /\ Replayable(f) THEN 2 ELSE 1
      BY DEF NeverSentTwice
    <2>2. wire[f] \in Nat /\ wire[f] <= Allowed(fetch[f], req[f])
      BY <1>1, FetchTypes DEF FetchInv, WireCounted
    <2>3. fetch[f].stale => fetch[f].idempotent /\ Replayable(f)
      BY <1>1 DEF FetchInv, StaleMayRepeat, Replayable
    <2> QED BY <2>2, <2>3 DEF Allowed
  <1> QED BY <1>1, FetchInitInv, FetchNextInv, PTL DEF FetchSpec
=============================================================================
