------------------------------ MODULE AsyncOps ------------------------------
(***************************************************************************)
(* What the asynchronous ops of one isolate promise JavaScript and the     *)
(* event loop, with no counter, no reverse index and no pruning: an op     *)
(* that was issued is waited for until its one completion is taken, a      *)
(* handle's ops keep the process alive exactly while the handle is ref'd,  *)
(* and the loop goes on exactly while such an op is waited for.  OpRuntime *)
(* implements it, and so does the whole loop (EventLoop).                  *)
(***************************************************************************)
EXTENDS Integers, Sequences

CONSTANTS
    Handle,      \* the sockets, servers and pipes JavaScript may unref
    Wakes        \* what arrives that is no op's completion: signals, V8's tasks

VARIABLES
    issued,      \* how many ops there have been
    ops,         \* the ops a promise or a callback waits for
    refd,        \* those of them that keep the process alive
    filed,       \* <<op, handle>>: the op works on the handle
    unrefd,      \* the handles that are unref'd
    working,     \* the ops that are not finished
    arrived,     \* completions and wakes to take, first in first out
    alive        \* the loop has a reason to wait

vars == <<issued, ops, refd, filed, unrefd, working, arrived, alive>>

OpsOf(h) == {i \in ops : <<i, h>> \in filed}

KeepsAlive == refd # {}

Init ==
    /\ issued = 0
    /\ ops = {} /\ refd = {} /\ filed = {} /\ unrefd = {} /\ working = {}
    /\ arrived = << >>
    /\ alive = FALSE

-----------------------------------------------------------------------------
(* JavaScript's calls.                                                     *)
Issue(i, counts) ==
    /\ issued' = i /\ i = issued + 1
    /\ ops' = ops \cup {i}
    /\ refd' = IF counts THEN refd \cup {i} ELSE refd
    /\ working' = working \cup {i}
    /\ UNCHANGED <<unrefd, arrived>>

IssueAlone(counts) == Issue(issued + 1, counts) /\ UNCHANGED filed
IssueOn(h) ==
    /\ Issue(issued + 1, h \notin unrefd)
    /\ filed' = filed \cup {<<issued + 1, h>>}

(* ref() and unref() are about the ops under way too.                      *)
Ref(h) ==
    /\ unrefd' = unrefd \ {h}
    /\ refd' = refd \cup OpsOf(h)
    /\ UNCHANGED <<issued, ops, filed, working, arrived>>
Unref(h) ==
    /\ unrefd' = unrefd \cup {h}
    /\ refd' = refd \ OpsOf(h)
    /\ UNCHANGED <<issued, ops, filed, working, arrived>>

(* The ops of a handle that is closed stay as they are.                    *)
Close(h) ==
    /\ unrefd' = unrefd \ {h}
    /\ filed' = {p \in filed : p[2] # h}
    /\ UNCHANGED <<issued, ops, refd, working, arrived>>

-----------------------------------------------------------------------------
(* What happens outside, and the loop taking it.                           *)
Finish(i) ==
    /\ working' = working \ {i}
    /\ arrived' = Append(arrived, i)
    /\ UNCHANGED <<issued, ops, refd, filed, unrefd>>

Wake(w) ==
    /\ arrived' = Append(arrived, w)
    /\ UNCHANGED <<issued, ops, refd, filed, unrefd, working>>

(* A completion settles an op that is still waited for.                    *)
Take ==
    /\ arrived # << >> /\ arrived' = Tail(arrived)
    /\ LET i == Head(arrived) IN
       /\ i \in ops \/ i \in Wakes
       /\ ops' = ops \ {i} /\ refd' = refd \ {i}
       /\ filed' = {p \in filed : p[1] # i}
    /\ UNCHANGED <<issued, unrefd, working>>

-----------------------------------------------------------------------------
Step ==
    \/ \E counts \in BOOLEAN : IssueAlone(counts)
    \/ \E h \in Handle : IssueOn(h) \/ Ref(h) \/ Unref(h) \/ Close(h)
    \/ \E i \in working : Finish(i)
    \/ \E w \in Wakes : Wake(w)
    \/ Take

Next == Step /\ alive' = KeepsAlive'

Spec == Init /\ [][Next]_vars
=============================================================================
