------------------------------ MODULE HttpPool ------------------------------
(***************************************************************************)
(* The HTTP client's connection pool: crates/oam_core/src/http_client/     *)
(* pool.rs, for one origin.                                                *)
(*                                                                         *)
(* A request (Pool::request) takes a pooled connection or opens one and    *)
(* sends on it; an HTTP/1 connection that answered is parked by a task of  *)
(* its own once the response is drained, an HTTP/2 one stays in its entry  *)
(* and carries every request.  Requests, those tasks, the reaper, the peer *)
(* and destroy() run side by side; the locks make each step atomic and     *)
(* nothing holds two.                                                      *)
(*                                                                         *)
(* Time is left out: a parked connection may be fresh or not (FRESH_GATE)  *)
(* and past the idle timeout or not, and its origin may be one that closes *)
(* early (SETTLE, DISTRUST) and the connection still settling or not.      *)
(* Each is a choice where the code looks at the clock.                     *)
(***************************************************************************)
EXTENDS Integers, Sequences, SequencesExt, Orderings

CONSTANTS
    MaxConns,    \* bound on the connections that are open at a time
    Req,         \* requests
    MaxDestroys  \* bound on the calls of destroy()

ASSUME HttpPoolAssumption ==
    MaxConns \in Nat /\ MaxDestroys \in Nat

Conns == 1 .. MaxConns
NoConn == 0

VARIABLES
    hooked,      \* the pool has a lookup hook (connect.lookup)
    conn,        \* connection -> what is known of it
    idle,        \* PoolInner::idle, oldest first
    h2,          \* PoolInner::h2: the entry's connection, or NoConn
    poolGen,     \* PoolInner::generation
    clearing,    \* the map a running destroy() has to clear next
    parking,     \* connection -> the task on_success spawned for it
    req,         \* request -> its way through Pool::request
    inUse        \* history: connections in use when a destroy() began

connPoolVars == <<conn, idle, h2, poolGen, parking, inUse>>
httpPoolVars == <<hooked, clearing, connPoolVars, req>>

(* used: an earlier request was counted on it.                             *)
Connection == [open : BOOLEAN, h2 : BOOLEAN, used : BOOLEAN, dead : BOOLEAN]
Closed == [open |-> FALSE, h2 |-> FALSE, used |-> FALSE, dead |-> FALSE]
Parked == [open |-> TRUE, h2 |-> FALSE, used |-> TRUE, dead |-> FALSE]

Clearing == {"none", "idle", "h2"}

(* The parking task waits for the response to drain, then compares the     *)
(* generation, then parks.                                                 *)
Parking == [pc : {"none", "drain", "check", "push"}, keep : BOOLEAN, gen : 0 .. MaxDestroys]
NoParking == [pc |-> "none", keep |-> FALSE, gen |-> 0]

(* reuse and pin: allow_reuse and Dial::pin.  out: the result once pc is   *)
(* done.                                                                   *)
Outcome == {"none", "ok", "redirect", "seeOther", "lookup", "refused", "stale", "failed"}
Request == [pc : {"out", "checkout", "take", "gate", "dial", "connect", "send", "done"},
            conn : Conns \cup {NoConn}, reuse : BOOLEAN, pin : BOOLEAN, out : Outcome]
NoRequest == [pc |-> "out", conn |-> NoConn, reuse |-> FALSE, pin |-> FALSE,
              out |-> "none"]

(* A new pool, or one in which an earlier request left its connection.     *)
PoolInit ==
    /\ hooked \in BOOLEAN
    /\ \/ conn = [c \in Conns |-> Closed] /\ idle = << >>
       \/ /\ 1 \in Conns
          /\ conn = [c \in Conns |-> IF c = 1 THEN Parked ELSE Closed]
          /\ idle = <<1>>
    /\ h2 = NoConn
    /\ poolGen = 0 /\ clearing = "none"
    /\ parking = [c \in Conns |-> NoParking]
    /\ req = [r \in Req |-> NoRequest]
    /\ inUse = {}

-----------------------------------------------------------------------------
(* The idle queue.                                                         *)

Dead(c) == conn[c].dead

(* A sender dropped: the connection is closed.                             *)
Dropped(cs) == [c \in Conns |-> IF c \in cs THEN Closed ELSE conn[c]]
Drop(c) == conn' = Dropped({c}) /\ inUse' = inUse \ {c}

(* has_idle may say so when one is alive.                                  *)
HasIdle ==
    \/ h2 # NoConn /\ ~Dead(h2)
    \/ \E c \in ToSet(idle) : ~Dead(c)

-----------------------------------------------------------------------------
(* Pool::request.                                                          *)

Goes(r, pc) == req' = [req EXCEPT ![r].pc = pc]
Gets(r, c) == req' = [req EXCEPT ![r].pc = "send", ![r].conn = c]
Ends(r, out) == req' = [req EXCEPT ![r] = [NoRequest EXCEPT !.pc = "done", !.out = out]]

(* A hook's answer opens a connection: no reuse.                           *)
StartRequest(r, pin) ==
    req' = [req EXCEPT ![r] = [NoRequest EXCEPT !.pc = "checkout", !.reuse = ~pin, !.pin = pin]]

(* checkout and reuse_h2: a live entry is shared, a dead one removed.      *)
Checkout(r) ==
    /\ req[r].pc = "checkout"
    /\ IF ~req[r].reuse THEN Goes(r, "dial") /\ UNCHANGED connPoolVars
       ELSE IF h2 # NoConn /\ ~Dead(h2) THEN Gets(r, h2) /\ UNCHANGED connPoolVars
       ELSE /\ Goes(r, "take")
            /\ h2' = NoConn
            /\ IF h2 = NoConn \/ \E q \in Req : req[q].conn = h2 THEN UNCHANGED <<conn, inUse>>
               ELSE Drop(h2)
            /\ UNCHANGED <<idle, poolGen, parking>>

(* reuse_h1, one turn of its loop: the front entry is popped first, dead   *)
(* and expired ones dropped.  A fresh one waits at the gate, off the       *)
(* queue; a settling one of a marked origin is left where it is.           *)
\* A bug: an entry is only taken off after the wait.
PopNot == idle
Pop == Tail(idle)

TakeIdle(r) ==
    LET c == Head(idle) IN
    /\ req[r].pc = "take" /\ idle # << >>
    /\ \/ /\ Dead(c)
          /\ idle' = Tail(idle)
          /\ Drop(c)
          /\ UNCHANGED req
       \/ /\ ~Dead(c)
          /\ idle' = Pop
          /\ Gets(r, c) \/ req' = [req EXCEPT ![r].pc = "gate", ![r].conn = c]
          /\ UNCHANGED <<conn, inUse>>
    /\ UNCHANGED <<h2, poolGen, parking>>

TakeNone(r) ==
    /\ req[r].pc = "take"
    /\ idle # << >> => ~Dead(Head(idle))
    /\ Goes(r, "dial")
    /\ UNCHANGED connPoolVars

(* The gate's wait is over: a close that landed meanwhile drops the entry. *)
PassGate(r) ==
    LET c == req[r].conn IN
    /\ req[r].pc = "gate"
    /\ IF Dead(c)
       THEN req' = [req EXCEPT ![r].pc = "take", ![r].conn = NoConn] /\ Drop(c)
       ELSE Gets(r, c) /\ UNCHANGED <<conn, inUse>>
    /\ UNCHANGED <<idle, h2, poolGen, parking>>

(* A hooked pool opens one only with the hook's answer, spent on the dial. *)
Dial(r) ==
    /\ req[r].pc = "dial"
    /\ IF hooked /\ ~req[r].pin THEN Ends(r, "lookup")
       ELSE req' = [req EXCEPT ![r].pc = "connect", ![r].pin = FALSE]
    /\ UNCHANGED connPoolVars

(* connect: an HTTP/2 connection is the origin's entry from then on, and   *)
(* the one it replaces lives on with its requests.                         *)
Connected(r, isH2) ==
    /\ req[r].pc = "connect"
    /\ \E c \in Conns :
          /\ ~conn[c].open /\ \A b \in 1 .. c - 1 : conn[b].open
          /\ Gets(r, c)
          /\ LET lost == {b \in Conns \ {c} : isH2 /\ b = h2 /\ \A q \in Req : req[q].conn # b}
             IN /\ conn' = [Dropped(lost) EXCEPT ![c] = [Closed EXCEPT !.open = TRUE, !.h2 = isH2]]
                /\ inUse' = inUse \ lost
          /\ h2' = IF isH2 THEN c ELSE h2
    /\ UNCHANGED <<idle, poolGen, parking>>

ConnectFails(r) ==
    /\ req[r].pc = "connect"
    /\ Ends(r, "failed")
    /\ UNCHANGED connPoolVars

(* A request is done with its connection: an HTTP/1 one is dropped, an     *)
(* HTTP/2 one stays while it is in its entry or has other requests.        *)
(* on_failure evicts it when it is closed.  counted: the send came to an   *)
(* end and the connection's uses were counted (count_one).                 *)
LetGo(r, evicts, counted) ==
    LET c == req[r].conn
        others == \E q \in Req \ {r} : req[q].conn = c
        evicted == evicts /\ conn[c].dead /\ h2 = c
    IN
    /\ h2' = IF evicted THEN NoConn ELSE h2
    /\ IF others \/ (h2 = c /\ ~evicted)
       THEN conn' = [conn EXCEPT ![c].used = @ \/ counted] /\ UNCHANGED inUse
       ELSE Drop(c)

(* on_success: the generation is read as the answer arrives.  keep: the    *)
(* request, the answer or the hop it leads to does not close it.           *)
Answered(r, out, keep) ==
    LET c == req[r].conn IN
    /\ req[r].pc = "send"
    /\ Ends(r, out)
    /\ IF conn[c].h2 THEN LetGo(r, FALSE, TRUE) /\ UNCHANGED parking
       ELSE /\ conn' = [conn EXCEPT ![c].used = TRUE]
            /\ parking' = [parking EXCEPT ![c] = [pc |-> "drain", keep |-> keep, gen |-> poolGen]]
            /\ UNCHANGED <<h2, inUse>>
    /\ UNCHANGED <<idle, poolGen>>

(* The connection hands the request back unsent: once, for a pooled one,   *)
(* another is dialled.                                                     *)
Unsent(r) ==
    LET c == req[r].conn IN
    /\ req[r].pc = "send" /\ conn[c].dead
    /\ LetGo(r, TRUE, TRUE)
    /\ IF conn[c].used /\ req[r].reuse
       THEN req' = [req EXCEPT ![r].pc = "checkout", ![r].conn = NoConn, ![r].reuse = FALSE]
       ELSE Ends(r, "failed")
    /\ UNCHANGED <<idle, poolGen, parking>>

(* The request was on the wire and failed: refused by an HTTP/2 peer, on a *)
(* pooled HTTP/1 connection that closed with no byte of an answer (stale), *)
(* or otherwise.                                                           *)
Sent(r, out) ==
    LET c == req[r].conn IN
    /\ req[r].pc = "send"
    /\ out = "refused" => conn[c].h2
    /\ out = "stale" => conn[c].dead /\ conn[c].used /\ ~conn[c].h2
    /\ LetGo(r, TRUE, TRUE)
    /\ Ends(r, out)
    /\ UNCHANGED <<idle, poolGen, parking>>

(* The send is dropped, by a cancel or a headers timeout.                  *)
Abandon(r) ==
    /\ IF req[r].conn = NoConn THEN UNCHANGED connPoolVars
       ELSE LetGo(r, FALSE, FALSE) /\ UNCHANGED <<idle, poolGen, parking>>
    /\ req' = [req EXCEPT ![r] = [NoRequest EXCEPT !.pc = "done", !.out = "failed"]]

-----------------------------------------------------------------------------
(* The task that parks a connection.                                       *)

(* The response is drained, or the connection ends: it died, the body was  *)
(* dropped half read, or it is not to be kept.                             *)
Drained(c) ==
    /\ parking[c].pc = "drain"
    /\ \/ /\ parking[c].keep /\ ~Dead(c)
          /\ parking' = [parking EXCEPT ![c].pc = "check"]
          /\ UNCHANGED <<conn, inUse>>
       \/ parking' = [parking EXCEPT ![c] = NoParking] /\ Drop(c)
    /\ UNCHANGED <<idle, h2, poolGen, req>>

CheckGeneration(c) ==
    /\ parking[c].pc = "check"
    /\ IF parking[c].gen = poolGen
       THEN parking' = [parking EXCEPT ![c].pc = "push"] /\ UNCHANGED <<conn, inUse>>
       ELSE parking' = [parking EXCEPT ![c] = NoParking] /\ Drop(c)
    /\ UNCHANGED <<idle, h2, poolGen, req>>

(* park; a marked origin has one connection settle at a time, and the      *)
(* others are dropped.                                                     *)
Park(c) ==
    /\ parking[c].pc = "push"
    /\ parking' = [parking EXCEPT ![c] = NoParking]
    /\ \/ idle' = Append(idle, c) /\ UNCHANGED <<conn, inUse>>
       \/ idle # << >> /\ ~Dead(Last(idle)) /\ Drop(c) /\ UNCHANGED idle
    /\ UNCHANGED <<h2, poolGen, req>>

-----------------------------------------------------------------------------
(* The reaper, the peer and JS.                                            *)

(* clear_expired: first the queue loses the dead entries, and the oldest   *)
(* when their time is up; then, under the other lock, a dead HTTP/2 entry  *)
(* goes.  A pass that finds nothing is no step.                            *)
ReapIdle ==
    /\ \E n \in 0 .. Len(idle) :
          LET gone == ToSet(SubSeq(idle, 1, n)) \cup {c \in ToSet(idle) : Dead(c)} IN
          /\ gone # {}
          /\ \E kept \in InOrder({i \in DOMAIN idle : idle[i] \notin gone}) :
                idle' = [k \in DOMAIN kept |-> idle[kept[k]]]
          /\ conn' = Dropped(gone)
          /\ inUse' = inUse \ gone
    /\ UNCHANGED <<h2, poolGen, parking, req>>

(* The entry is removed; its connection is closed unless a request has it. *)
RemoveH2 ==
    LET lost == {c \in {h2} \ {NoConn} : \A q \in Req : req[q].conn # c} IN
    /\ h2' = NoConn
    /\ conn' = Dropped(lost)
    /\ inUse' = inUse \ lost
    /\ UNCHANGED <<idle, poolGen, parking, req>>

ReapH2 == h2 # NoConn /\ Dead(h2) /\ RemoveH2

(* The peer closes a connection, or JS does.                               *)
Dies(c) ==
    /\ conn[c].open /\ ~Dead(c)
    /\ conn' = [conn EXCEPT ![c].dead = TRUE]
    /\ UNCHANGED <<idle, h2, poolGen, parking, req, inUse>>

(* destroy: the generation moves on, then each map is cleared under its    *)
(* own lock.                                                               *)
NextGeneration ==
    /\ clearing = "none" /\ poolGen < MaxDestroys
    /\ poolGen' = poolGen + 1 /\ clearing' = "idle"
    /\ inUse' = inUse \cup {c \in Conns : \/ \E r \in Req : req[r].conn = c
                                         \/ parking[c].pc # "none"}
    /\ UNCHANGED <<conn, idle, h2, parking, req>>

ClearIdle ==
    /\ clearing = "idle" /\ clearing' = "h2"
    /\ idle' = << >>
    /\ conn' = Dropped(ToSet(idle))
    /\ inUse' = inUse \ ToSet(idle)
    /\ UNCHANGED <<h2, poolGen, parking, req>>

ClearH2 == clearing = "h2" /\ clearing' = "none" /\ RemoveH2

DestroyPool == NextGeneration \/ ClearIdle \/ ClearH2

-----------------------------------------------------------------------------
CheckoutStep(r) == \/ Checkout(r) \/ TakeIdle(r) \/ TakeNone(r)
                   \/ PassGate(r) \/ Dial(r)
ConnectStep(r) == ConnectFails(r) \/ \E isH2 \in BOOLEAN : Connected(r, isH2)
ParkingStep(c) == Drained(c) \/ CheckGeneration(c) \/ Park(c)

PoolTasks ==
    \/ /\ ReapIdle \/ ReapH2 \/ \E c \in Conns : ParkingStep(c) \/ Dies(c)
       /\ UNCHANGED clearing
    \/ DestroyPool

(* A request of any kind, whose caller tells an answer from a failure.     *)
OneRequest(r) ==
    \/ CheckoutStep(r) \/ ConnectStep(r) \/ Unsent(r)
    \/ req[r].pc = "out" /\ StartRequest(r, hooked) /\ UNCHANGED connPoolVars
    \/ \E keep \in BOOLEAN : Answered(r, "ok", keep)
    \/ Sent(r, "failed")
    \/ req[r].pc \notin {"out", "done"} /\ Abandon(r)

PoolNext ==
    /\ PoolTasks \/ \E r \in Req : OneRequest(r) /\ UNCHANGED clearing
    /\ UNCHANGED hooked

PoolSpec == PoolInit /\ [][PoolNext]_httpPoolVars

-----------------------------------------------------------------------------
PoolTypeOK ==
    /\ hooked \in BOOLEAN
    /\ conn \in [Conns -> Connection]
    /\ idle \in Seq(Conns) /\ h2 \in Conns \cup {NoConn}
    /\ poolGen \in 0 .. MaxDestroys /\ clearing \in Clearing
    /\ parking \in [Conns -> Parking]
    /\ req \in [Req -> Request]
    /\ inUse \subseteq Conns

(***************************************************************************)
(* An HTTP/1 connection has one owner: a request, the task that parks it   *)
(* or one place in the queue.  Two requests never write on it at once,     *)
(* however a checkout's wait at the freshness gate, a park, the reaper and *)
(* a destroy() interleave.                                                 *)
(***************************************************************************)
OneOwner ==
    /\ IsInjective(idle)
    /\ \A c \in Conns : conn[c].open /\ ~conn[c].h2 =>
          /\ \A r, q \in Req : req[r].conn = c /\ req[q].conn = c => r = q
          /\ (\E r \in Req : req[r].conn = c) => c \notin ToSet(idle) /\ parking[c].pc = "none"
          /\ parking[c].pc # "none" => c \notin ToSet(idle)
    /\ \A c \in ToSet(idle) : conn[c].open /\ ~conn[c].h2

(***************************************************************************)
(* "Any in-flight request keeps its own sender and finishes, but on an     *)
(* older generation, so its connection is not re-parked" (Pool::destroy):  *)
(* a connection in use as a destroy() begins is not in the pool once it is *)
(* over.                                                                   *)
(***************************************************************************)
NeverReparked == clearing = "none" => inUse \cap ToSet(idle) = {}
=============================================================================
