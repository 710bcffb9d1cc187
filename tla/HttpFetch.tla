----------------------------- MODULE HttpFetch -----------------------------
(***************************************************************************)
(* fetch over the pool: the request loop of                                *)
(* crates/oam_core/src/http_client/send.rs with its resends, redirects and *)
(* cancels, and the parks in which JS runs the fetch's lookup hook.  Each  *)
(* fetch is one of the pool's requests.  Of the others there is only what  *)
(* they leave: a connection parked when the fetch starts, and one that     *)
(* goes from the queue under it, which the reaper does.                    *)
(*                                                                         *)
(* A fetch is parked by its op's result and resumed by another op: what    *)
(* the loop knows is in its state and must survive.  A hop's URL, headers  *)
(* and status are left out; an answer is final, a redirect that keeps the  *)
(* method or one that makes it a GET.                                      *)
(***************************************************************************)
EXTENDS HttpPool

CONSTANTS
    Fetch,         \* the requests that are fetches
    MaxRedirects,  \* MAX_REDIRECTS
    MaxH2Retries   \* MAX_H2_RETRIES

ASSUME HttpFetchAssumption ==
    Fetch \subseteq Req /\ MaxRedirects \in Nat /\ MaxH2Retries \in Nat

VARIABLES
    fetch,       \* fetch -> LoopState
    cancels,     \* fetches whose FetchCancel holds a permit
    wire         \* history: fetch -> times the server may have read this hop

fetchVars == <<fetch, cancels, wire>>
httpVars == <<httpPoolVars, fetchVars>>

(* body: one that can be sent again, a stream, or a stream that was taken. *)
(* answer: the hook's answer waits to be dialled; unsent: the request a    *)
(* send handed back; on: the connection a redirect came on.                *)
LoopState ==
    [pc : {"new", "hop", "send", "sending", "parked", "released", "done"},
     idempotent : BOOLEAN, body : {"replayable", "stream", "spent"},
     answer : BOOLEAN, unsent : BOOLEAN, stale : BOOLEAN, h2 : 0 .. MaxH2Retries,
     hops : 0 .. MaxRedirects, on : Conns \cup {NoConn}]

Fresh == [pc |-> "new", idempotent |-> TRUE, body |-> "replayable", answer |-> FALSE,
          unsent |-> FALSE, stale |-> FALSE, h2 |-> 0, hops |-> 0, on |-> NoConn]

FetchInit ==
    /\ PoolInit
    /\ fetch = [f \in Fetch |-> Fresh]
    /\ cancels = {}
    /\ wire = [f \in Fetch |-> 0]

Set(f, s) == fetch' = [fetch EXCEPT ![f] = s]

(* A head or an error for JS: the loop's state is dropped.                 *)
Finish(f) ==
    /\ Set(f, [Fresh EXCEPT !.pc = "done"])
    /\ wire' = [wire EXCEPT ![f] = 0]
    /\ cancels' = cancels \ {f}

Replayable(f) == fetch[f].body = "replayable"

StartFetch(f, idempotent, body) ==
    /\ fetch[f].pc = "new"
    /\ Set(f, [fetch[f] EXCEPT !.pc = "hop", !.idempotent = idempotent, !.body = body])
    /\ UNCHANGED <<httpPoolVars, cancels, wire>>

-----------------------------------------------------------------------------
(* The hop and its hook.                                                   *)

(* lookup_needed: nothing to dial with and nothing idle that would do; one *)
(* that is settling, at a marked origin, does not.                         *)
LooksUp(f) == hooked /\ ~fetch[f].unsent /\ ~fetch[f].answer

ParkForLookup(f) ==
    /\ fetch[f].pc = "hop" /\ LooksUp(f)
    /\ Set(f, [fetch[f] EXCEPT !.pc = "parked"])
    /\ UNCHANGED <<httpPoolVars, cancels, wire>>

Hop(f) ==
    /\ fetch[f].pc = "hop" /\ (LooksUp(f) => HasIdle)
    /\ Set(f, [fetch[f] EXCEPT !.pc = "send"])
    /\ UNCHANGED <<httpPoolVars, cancels, wire>>

(* resume_with_answer: the fetch goes on where it was.                     *)
\* A bug: a fetch that is resumed counts its resends anew.
ResumedAnew(f) == [fetch[f] EXCEPT !.pc = "hop", !.answer = TRUE, !.stale = FALSE, !.h2 = 0]
Resumed(f) == [fetch[f] EXCEPT !.pc = "hop", !.answer = TRUE]

HookAnswers(f) ==
    /\ fetch[f].pc = "parked"
    /\ Set(f, Resumed(f))
    /\ UNCHANGED <<httpPoolVars, cancels, wire>>

(* fetch_abandon, or an answer that is malformed.                          *)
HookFails(f) ==
    /\ fetch[f].pc = "parked"
    /\ Finish(f)
    /\ UNCHANGED httpPoolVars

(* BodySource::build and send_following: the request that was handed back, *)
(* or a new one, and with it the stream.                                   *)
SendHop(f) ==
    /\ fetch[f].pc = "send"
    /\ fetch[f].unsent \/ fetch[f].body # "spent"
    /\ Set(f, [fetch[f] EXCEPT !.pc = "sending", !.answer = FALSE, !.unsent = FALSE,
                               !.body = IF @ = "stream" THEN "spent" ELSE @])
    /\ StartRequest(f, fetch[f].answer)
    /\ UNCHANGED <<hooked, clearing, connPoolVars, cancels, wire>>

-----------------------------------------------------------------------------
(* What becomes of a send.  The server may have read a request that was    *)
(* answered or was on the wire; an HTTP/2 peer that refuses one has not.   *)

OnWire(f) == wire' = [wire EXCEPT ![f] = @ + 1]

(* A redirect that keeps a method which is not idempotent retires its      *)
(* connection (retires_for_the_hop).                                       *)
FetchAnswered(f, out, keep) ==
    /\ keep => out # "redirect" \/ fetch[f].idempotent
    /\ Answered(f, out, keep)
    /\ Set(f, [fetch[f] EXCEPT !.on = IF out = "ok" \/ conn[req[f].conn].h2 THEN NoConn
                                     ELSE req[f].conn])
    /\ OnWire(f)
    /\ UNCHANGED <<hooked, clearing, cancels>>

FetchUnsent(f) == Unsent(f) /\ UNCHANGED <<hooked, clearing, fetchVars>>

FetchSent(f, out) ==
    /\ Sent(f, out)
    /\ IF out = "refused" THEN UNCHANGED wire ELSE OnWire(f)
    /\ UNCHANGED <<hooked, clearing, fetch, cancels>>

Has(f, out) == fetch[f].pc = "sending" /\ req[f].pc = "done" /\ req[f].out = out

(* The loop takes what the send returned.                                  *)
TakesResult(f) == req' = [req EXCEPT ![f] = NoRequest] /\ UNCHANGED <<hooked, clearing, connPoolVars>>

(* The pool needs the hook: park with the request it handed back.          *)
NeedsLookup(f) ==
    /\ Has(f, "lookup")
    /\ Set(f, [fetch[f] EXCEPT !.pc = "parked", !.unsent = TRUE])
    /\ TakesResult(f)
    /\ UNCHANGED <<cancels, wire>>

(* A request a peer did not process goes out again, a few times in a hop.  *)
\* A bug: as often as it is refused.
MayRetryH2Always(f) == Replayable(f)
MayRetryH2(f) == fetch[f].h2 < MaxH2Retries /\ Replayable(f)

(* A request a pooled connection died under goes out again once, if the    *)
(* server may read it twice.                                               *)
\* A bug: whatever its method.
MayResendAny(f) == ~fetch[f].stale /\ Replayable(f)
MayResend(f) == ~fetch[f].stale /\ Replayable(f) /\ fetch[f].idempotent

RetryH2(f) ==
    /\ Has(f, "refused") /\ MayRetryH2(f)
    /\ Set(f, [fetch[f] EXCEPT !.pc = "send", !.h2 = @ + 1])
    /\ TakesResult(f)
    /\ UNCHANGED <<cancels, wire>>

ResendStale(f) ==
    /\ Has(f, "stale") /\ MayResend(f)
    /\ Set(f, [fetch[f] EXCEPT !.pc = "send", !.stale = TRUE])
    /\ TakesResult(f)
    /\ UNCHANGED <<cancels, wire>>

(* An answer, an error that is final, or a redirect that is not followed.  *)
Responds(f) ==
    /\ \/ \E out \in {"ok", "redirect", "seeOther", "failed"} : Has(f, out)
       \/ Has(f, "refused") /\ ~MayRetryH2(f)
       \/ Has(f, "stale") /\ ~MayResend(f)
    /\ Finish(f)
    /\ TakesResult(f)

(* redirect::next: a GET drops the body; a stream that was read goes out   *)
(* empty (UndiciIterable), or the redirect is not followed.                *)
Follows(f) ==
    /\ Has(f, "redirect") \/ Has(f, "seeOther")
    /\ fetch[f].hops < MaxRedirects
    /\ Set(f, [fetch[f] EXCEPT !.pc = "released", !.body = "replayable",
                               !.idempotent = @ \/ Has(f, "seeOther")])
    /\ TakesResult(f)
    /\ UNCHANGED <<cancels, wire>>

(* Released::settled: the connection is parked or closed, and the next hop *)
(* begins with new allowances.                                             *)
Released(f) ==
    /\ fetch[f].pc = "released"
    /\ fetch[f].on # NoConn => parking[fetch[f].on].pc = "none"
    /\ Set(f, [fetch[f] EXCEPT !.pc = "hop", !.hops = @ + 1, !.stale = FALSE, !.h2 = 0,
                               !.on = NoConn])
    /\ wire' = [wire EXCEPT ![f] = 0]
    /\ UNCHANGED <<httpPoolVars, cancels>>

-----------------------------------------------------------------------------
(* fetch_cancel finds the fetch until it has a head or failed; the permit  *)
(* waits for the next send.                                                *)
CancelFetch(f) ==
    /\ fetch[f].pc \notin {"new", "done"}
    /\ cancels' = cancels \cup {f}
    /\ UNCHANGED <<httpPoolVars, fetch, wire>>

Cancelled(f) ==
    /\ f \in cancels
    /\ Finish(f)
    /\ \/ fetch[f].pc = "sending" /\ Abandon(f)
       \/ /\ fetch[f].pc = "released" /\ fetch[f].on # NoConn
          /\ UNCHANGED <<connPoolVars, req>>
    /\ UNCHANGED <<hooked, clearing>>

(* headers_deadline: a connection has the request and the head is late.    *)
HeadersTimeout(f) ==
    /\ fetch[f].pc = "sending" /\ req[f].pc = "send"
    /\ Abandon(f)
    /\ Finish(f)
    /\ UNCHANGED <<hooked, clearing>>

-----------------------------------------------------------------------------
FetchStep(f) ==
    \/ ParkForLookup(f) \/ Hop(f) \/ SendHop(f)
    \/ NeedsLookup(f) \/ RetryH2(f) \/ ResendStale(f) \/ Responds(f) \/ Follows(f)
    \/ Released(f) \/ Cancelled(f)
HookStep(f) == HookAnswers(f) \/ HookFails(f)
GetsConn(f) == (CheckoutStep(f) \/ ConnectStep(f)) /\ UNCHANGED <<hooked, clearing, fetchVars>>
SendEnds(f) ==
    \/ FetchUnsent(f)
    \/ \E out \in {"ok", "redirect", "seeOther"}, keep \in BOOLEAN : FetchAnswered(f, out, keep)
    \/ \E out \in {"refused", "stale", "failed"} : FetchSent(f, out)
    \/ HeadersTimeout(f)
FetchTasks == PoolTasks /\ UNCHANGED <<hooked, fetchVars>>

(* A fetch that was started goes on, given that the hook and the peer do.  *)
FetchGoesOn(f) == FetchStep(f) \/ HookStep(f) \/ GetsConn(f) \/ SendEnds(f)

OneFetch(f) ==
    \/ \E idempotent \in BOOLEAN, body \in {"replayable", "stream"} :
          StartFetch(f, idempotent, body)
    \/ FetchGoesOn(f)
    \/ CancelFetch(f)
FetchNext == FetchTasks \/ \E f \in Fetch : OneFetch(f)

FetchSpec == FetchInit /\ [][FetchNext]_httpVars

-----------------------------------------------------------------------------
FetchTypeOK ==
    /\ PoolTypeOK
    /\ fetch \in [Fetch -> LoopState]
    /\ cancels \subseteq Fetch
    /\ wire \in [Fetch -> Nat]

(***************************************************************************)
(* A request the server may act on twice is never sent twice: one whose    *)
(* method is not idempotent, or whose body is a stream, goes on the wire   *)
(* at most once in a hop, and any other at most twice ("Once per hop"),    *)
(* whatever connections die under it and however often the hook parks it.  *)
(***************************************************************************)
NeverSentTwice ==
    \A f \in Fetch : wire[f] <= IF fetch[f].idempotent /\ Replayable(f) THEN 2 ELSE 1

(***************************************************************************)
(* A fetch ends: no origin can keep it resending, parking or redirecting   *)
(* without end ("an origin that answered every connection with GOAWAY then *)
(* had a hooked fetch open connections without end", LoopState::resends),  *)
(* given a hook that answers and a peer that answers, closes or is timed   *)
(* out.                                                                    *)
(***************************************************************************)
FetchSettles == \A f \in Fetch : fetch[f].pc # "new" ~> fetch[f].pc = "done"
=============================================================================
