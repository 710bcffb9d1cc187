------------------------------ MODULE HttpConn ------------------------------
(***************************************************************************)
(* One HTTP/1 connection of a server: ConnWatch, the bookkeeping that      *)
(* holds a connection to node's header and request timeouts                *)
(* (crates/oam_core/src/http_conn.rs), and serve_http1, the task that      *)
(* drives it (crates/oam_core/src/http_server.rs).                         *)
(*                                                                         *)
(* Reads, heads, responses and the select loop are steps of the            *)
(* connection's own task.  The pump of a request's body is a task of its   *)
(* own, so a message may be reported complete when the next is already     *)
(* being received.  The timeout check and what JS does to the socket come  *)
(* from other threads.  hyper, which parses and writes, is external: it    *)
(* serves one exchange at a time and may hold the first bytes of the next  *)
(* head in its buffer.  The socket's inactivity timeout, upgrades and      *)
(* HTTP/2 are left out.                                                    *)
(***************************************************************************)
EXTENDS Integers

CONSTANTS
    MaxRequests  \* bound on the requests of the connection

ASSUME HttpConnAssumption == MaxRequests \in Nat

VARIABLES
    phase,       \* ConnWatch::phase
    age,         \* of the message: 1 past headersTimeout, 2 past requestTimeout
    expired,     \* the check found this message due
    expiring,    \* expire_connections is between the check and the close
    reason,      \* ConnWatch::close
    resumed,     \* ConnWatch::resumed
    connTask,    \* serve_http1: where the select loop is
    woken,       \* the Notified inside dispatched() was woken
    down,        \* server.close() was called
    jsDriven,    \* TimeoutSettings::js_driven
    hyper,       \* hyper's side of the connection
    unread       \* generations whose MessageDone lives: the body is not all in

connWatchVars == <<phase, age, expired>>
connVars == <<connWatchVars, expiring, reason, resumed, connTask, woken, down, jsDriven,
              hyper, unread>>

Generation == 0 .. MaxRequests + 1

Phase == [active : BOOLEAN, begun : BOOLEAN, headers : BOOLEAN, generation : Generation,
          inFlight : 0 .. 1]

(* served: the heads parsed so far.  body: the request's body is coming    *)
(* in; head: bytes of the next head are in the buffer.  ahead, a history:  *)
(* they came before the end of the request before them was reported, and   *)
(* none since.                                                             *)
Hyper == [served : 0 .. MaxRequests, body : BOOLEAN, head : BOOLEAN,
          ahead : BOOLEAN, exchange : BOOLEAN]

(* CloseReason, weakest first.                                             *)
NotClosing == 0
EndGently == 1
Destroy == 2
RequestTimeout == 3
Reset == 4

(* announced: JS runs the 'connection' listeners.  waiting and graceful    *)
(* are shutdown_waiting and shutting_down; over is the end of the loop.    *)
Task == {"announced", "serving", "waiting", "graceful", "over"}

ConnInit ==
    /\ phase = [active |-> TRUE, begun |-> FALSE, headers |-> FALSE, generation |-> 0,
                inFlight |-> 0]
    /\ age = 0 /\ expired = FALSE /\ expiring = FALSE
    /\ reason = NotClosing /\ resumed = FALSE
    /\ jsDriven \in BOOLEAN
    /\ connTask = "announced"
    /\ woken = FALSE /\ down = FALSE
    /\ hyper = [served |-> 0, body |-> FALSE, head |-> FALSE, ahead |-> FALSE,
                exchange |-> FALSE]
    /\ unread = {}

-----------------------------------------------------------------------------
(* Before hyper.                                                           *)

(* resume_conn: the listeners have run.                                    *)
Resume ==
    /\ connTask = "announced" /\ ~resumed
    /\ resumed' = TRUE
    /\ UNCHANGED <<connWatchVars, expiring, reason, connTask, woken, down, jsDriven, hyper,
                   unread>>

(* announce_connection: served from now unless a listener closed it.       *)
Announced ==
    /\ connTask = "announced" /\ resumed
    /\ resumed' = FALSE
    /\ IF reason = NotClosing
       THEN /\ connTask' = "serving"
            /\ phase' = [phase EXCEPT !.begun = FALSE, !.headers = FALSE]
            /\ age' = 0
       ELSE connTask' = "over" /\ UNCHANGED <<phase, age>>
    /\ UNCHANGED <<expired, expiring, reason, woken, down, jsDriven, hyper, unread>>

-----------------------------------------------------------------------------
(* hyper, which the select loop polls before its other branches.           *)

Polled == connTask \in {"serving", "waiting", "graceful"}

(* What note_read and headers_complete do for a message that begins.       *)
BeginsMessage(p, headers) ==
    [p EXCEPT !.begun = TRUE, !.active = TRUE, !.generation = @ + 1, !.headers = headers]
FreshClock == age' = 0 /\ expired' = FALSE

(* dispatch_notify.notify_waiters: dispatched() is polled while waiting.   *)
NotifyDispatch == woken' = (connTask = "waiting")

(* Bytes arrive: note_read.  They are the body's, its end, the next head's *)
(* or the end and the next head in one read.                               *)
NoteRead ==
    IF phase.begun THEN UNCHANGED connWatchVars
    ELSE phase' = BeginsMessage(phase, FALSE) /\ FreshClock

Read ==
    /\ Polled
    /\ \E body, head \in BOOLEAN :
          /\ body => hyper.body /\ ~head
          /\ head => hyper.served < MaxRequests
          /\ head \/ hyper.body
          /\ hyper' = [hyper EXCEPT !.body = body, !.head = @ \/ head,
                                   !.ahead = IF head THEN phase.generation \in unread ELSE @]
    /\ NoteRead
    /\ UNCHANGED <<expiring, reason, resumed, connTask, woken, down, jsDriven, unread>>

(* headers_complete: a head that no read announced begins its message.     *)
HeadBegins == ~phase.begun \/ phase.headers

\* A bug: a waiting close is not told of the dispatch.
HeadNotifyNot == UNCHANGED woken
HeadNotify == NotifyDispatch

(* handle_request, once hyper has a whole head; a graceful shutdown takes  *)
(* no new one.                                                             *)
HeadersComplete(body) ==
    LET p == IF HeadBegins THEN BeginsMessage(phase, TRUE)
             ELSE [phase EXCEPT !.headers = TRUE]
    IN
    /\ connTask \in {"serving", "waiting"}
    /\ hyper.head /\ ~hyper.body /\ ~hyper.exchange
    /\ hyper' = [served |-> hyper.served + 1, body |-> body, head |-> FALSE,
                 ahead |-> FALSE, exchange |-> TRUE]
    /\ phase' = [p EXCEPT !.inFlight = 1]
    /\ IF HeadBegins THEN FreshClock ELSE UNCHANGED <<age, expired>>
    /\ unread' = unread \cup {p.generation}
    /\ HeadNotify
    /\ UNCHANGED <<expiring, reason, resumed, connTask, down, jsDriven>>

(* message_complete, from the pump: at the body's end as the task reads    *)
(* it, which is after hyper read it, or when the body will not be read.    *)
\* A bug: the message completed is taken for the one being received.
CompletesAny(g) == TRUE
Completes(g) == phase.generation = g

MessageComplete(g) ==
    /\ g \in unread
    /\ unread' = unread \ {g}
    /\ phase' = IF Completes(g) THEN [phase EXCEPT !.active = FALSE, !.begun = FALSE] ELSE phase
    /\ NotifyDispatch
    /\ UNCHANGED <<age, expired, expiring, reason, resumed, connTask, down, jsDriven, hyper>>

(* JS answered, the response is written and ResponseDone dropped:          *)
(* response_finished, with no other in flight.                             *)
ResponseFinished ==
    /\ Polled /\ hyper.exchange
    /\ hyper' = [hyper EXCEPT !.exchange = FALSE]
    /\ phase' = [phase EXCEPT !.inFlight = 0]
    /\ UNCHANGED <<age, expired, expiring, reason, resumed, connTask, woken, down, jsDriven,
                   unread>>

(* hyper is done: the peer went, or a graceful shutdown found no exchange. *)
HyperDone ==
    /\ Polled
    /\ connTask' = "over"
    /\ UNCHANGED <<connWatchVars, expiring, reason, resumed, woken, down, jsDriven, hyper,
                   unread>>

-----------------------------------------------------------------------------
(* Other threads.                                                          *)

Tick ==
    /\ connTask # "over" /\ age < 2
    /\ age' = age + 1
    /\ UNCHANGED <<phase, expired, expiring, reason, resumed, connTask, woken, down, jsDriven,
                   hyper, unread>>

(* expire: a message past its time, once.  JS stops its check at close();  *)
(* the last tick of check_connections races with it.                       *)
Due == phase.active /\ (age = 2 \/ (age = 1 /\ ~phase.headers))

Expire ==
    /\ connTask # "over" /\ Due /\ ~expiring /\ ~(jsDriven /\ down)
    /\ phase' = [phase EXCEPT !.active = FALSE]
    /\ expired' = TRUE /\ expiring' = TRUE
    /\ UNCHANGED <<age, reason, resumed, connTask, woken, down, jsDriven, hyper, unread>>

(* close: a stronger reason takes over.                                    *)
Close(r) == reason' = IF r > reason THEN r ELSE reason

ExpireCloses ==
    /\ expiring
    /\ expiring' = FALSE
    /\ Close(RequestTimeout)
    /\ UNCHANGED <<connWatchVars, resumed, connTask, woken, down, jsDriven, hyper, unread>>

(* socket.end(), destroy() and resetAndDestroy().                          *)
SocketCloses(r) ==
    /\ connTask # "over" /\ reason < r
    /\ Close(r)
    /\ UNCHANGED <<connWatchVars, expiring, resumed, connTask, woken, down, jsDriven, hyper, unread>>

ServerClose ==
    /\ ~down /\ ~(jsDriven /\ expiring)
    /\ down' = TRUE
    /\ UNCHANGED <<connWatchVars, expiring, reason, resumed, connTask, woken, jsDriven, hyper,
                   unread>>

-----------------------------------------------------------------------------
(* The select loop.                                                        *)

AwaitingDispatch == phase.active /\ phase.inFlight = 0

(* shutdown.changed: node's close() leaves a connection that receives a    *)
(* request alone until it is dispatched.                                   *)
Shutdown ==
    /\ connTask = "serving" /\ down
    /\ connTask' = IF jsDriven /\ AwaitingDispatch THEN "waiting" ELSE "graceful"
    /\ UNCHANGED <<connWatchVars, expiring, reason, resumed, woken, down, jsDriven, hyper,
                   unread>>

(* dispatched() looks again; next_flush, or another branch that was ready, *)
(* makes it anew.                                                          *)
Dispatched ==
    /\ connTask = "waiting" /\ woken
    /\ woken' = FALSE
    /\ connTask' = IF AwaitingDispatch THEN connTask ELSE "graceful"
    /\ UNCHANGED <<connWatchVars, expiring, reason, resumed, down, jsDriven, hyper, unread>>

NextFlush ==
    /\ connTask = "waiting" /\ ~woken
    /\ woken' = TRUE
    /\ UNCHANGED <<connWatchVars, expiring, reason, resumed, connTask, down, jsDriven, hyper, unread>>

(* closed(): socket.end() is a graceful shutdown.                          *)
ClosedGently ==
    /\ connTask \in {"serving", "waiting"} /\ reason = EndGently
    /\ connTask' = "graceful" /\ woken' = FALSE
    /\ UNCHANGED <<connWatchVars, expiring, reason, resumed, down, jsDriven, hyper, unread>>

(* Any stronger reason ends the loop; what finish_close then writes is     *)
(* left out.                                                               *)
ClosedHard ==
    /\ connTask \in {"serving", "waiting", "graceful"} /\ reason > EndGently
    /\ connTask' = "over" /\ woken' = FALSE
    /\ UNCHANGED <<connWatchVars, expiring, reason, resumed, down, jsDriven, hyper, unread>>

-----------------------------------------------------------------------------
LoopStep == Shutdown \/ Dispatched \/ ClosedGently \/ ClosedHard

ConnNext ==
    \/ Resume \/ Announced
    \/ Read \/ \E body \in BOOLEAN : HeadersComplete(body)
    \/ \E g \in unread : MessageComplete(g)
    \/ ResponseFinished \/ HyperDone
    \/ Tick \/ Expire \/ ExpireCloses
    \/ \E r \in {EndGently, Destroy, Reset} : SocketCloses(r)
    \/ ServerClose \/ NextFlush
    \/ LoopStep

ConnSpec == ConnInit /\ [][ConnNext]_connVars

-----------------------------------------------------------------------------
ConnTypeOK ==
    /\ phase \in Phase /\ age \in 0 .. 2
    /\ expired \in BOOLEAN /\ expiring \in BOOLEAN /\ resumed \in BOOLEAN
    /\ woken \in BOOLEAN /\ down \in BOOLEAN /\ jsDriven \in BOOLEAN
    /\ reason \in NotClosing .. Reset
    /\ connTask \in Task
    /\ hyper \in Hyper
    /\ unread \subseteq Generation

(***************************************************************************)
(* What is received stays under headersTimeout and requestTimeout until    *)
(* one of them closes the connection: the wait for the first request, a    *)
(* request whose body is not all in ("the end of a body read late cannot   *)
(* mark the request after it as all in", Phase, http_conn.rs), and the     *)
(* bytes of a next head.  The one exception is a head of which all that is *)
(* there came before the end of the request before it was reported.        *)
(***************************************************************************)
StaysUnderCheck ==
    hyper.served = 0 \/ phase.generation \in unread \/ (hyper.head /\ ~hyper.ahead)
       => phase.active \/ expired

(***************************************************************************)
(* close() is not held for ever by a connection it waits for: once the     *)
(* request it waited for was dispatched, is all in or was found overdue,   *)
(* the loop goes on to shut the connection down, or a next request has     *)
(* begun.                                                                  *)
(***************************************************************************)
CloseGoesOn ==
    (connTask = "waiting" /\ ~AwaitingDispatch) ~> (connTask # "waiting" \/ AwaitingDispatch)

(***************************************************************************)
(* "From the accept or a request's first byte until its body is all in"    *)
(* (Phase::active): a request of which a first byte is there is under the  *)
(* check.                                                                  *)
(***************************************************************************)
FirstByteUnderCheck == hyper.head => phase.active \/ expired
=============================================================================
