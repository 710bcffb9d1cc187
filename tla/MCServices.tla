----------------------------- MODULE MCServices -----------------------------
(***************************************************************************)
(* The parts of the runtime around the event loop, checked side by side.   *)
(* They share no state, so a behaviour of the whole is one of each part;   *)
(* part says which one moves, and the others stay where they start.        *)
(***************************************************************************)
EXTENDS Workers, StdinGate, Signals, CodeCache, HttpConn, HttpFetch,
        TsDaemon

VARIABLE part    \* the part that moves

vars == <<part, workerVars, stdinVars, sigVars, cacheVars, connVars, httpVars, tsVars>>

(* The parts' own choices are made by the part that moves.                 *)
Init ==
    /\ part \in {"workers", "stdin", "signals", "cache", "server", "pool", "fetch",
                "spawns", "checks"}
    /\ WorkersInit /\ StdinInit /\ SignalsInit /\ CacheInit /\ ConnInit /\ FetchInit
    /\ TsInit
    /\ part # "signals" => ~stops
    /\ part # "cache" => seed = [p \in Process |-> FALSE]
    /\ part # "server" => ~jsDriven
    /\ part \notin {"pool", "fetch"} => ~hooked /\ idle = << >>
    /\ part # "spawns" => ~outdated

Workers(A) ==
    /\ part = "workers" /\ A
    /\ UNCHANGED <<part, stdinVars, sigVars, cacheVars, connVars, httpVars, tsVars>>
Stdin(A) ==
    /\ part = "stdin" /\ A
    /\ UNCHANGED <<part, workerVars, sigVars, cacheVars, connVars, httpVars, tsVars>>
Signals(A) ==
    /\ part = "signals" /\ A
    /\ UNCHANGED <<part, workerVars, stdinVars, cacheVars, connVars, httpVars, tsVars>>
Cache(A) ==
    /\ part = "cache" /\ A
    /\ UNCHANGED <<part, workerVars, stdinVars, sigVars, connVars, httpVars, tsVars>>
Server(A) ==
    /\ part = "server" /\ A
    /\ UNCHANGED <<part, workerVars, stdinVars, sigVars, cacheVars, httpVars, tsVars>>
HttpClient(p, A) ==
    /\ part = p /\ A
    /\ UNCHANGED <<part, workerVars, stdinVars, sigVars, cacheVars, connVars, tsVars>>

(* A destroy() meets requests of any kind halfway; of a fetch it finds     *)
(* the state before or after it.                                           *)
FetchClient(A) == HttpClient("fetch", A /\ (clearing # "none" => clearing' # clearing))

(* Daemons are started in turn, by clients that hand over no check; or one *)
(* has checks to do while files are edited.                                *)
Daemons(A) ==
    /\ part \in {"spawns", "checks"} /\ A
    /\ part = "spawns" => UNCHANGED <<tree, checks>>
    /\ part = "checks" => \A d \in Daemon \ {1} : daemon'[d] = "none"
    /\ UNCHANGED <<part, workerVars, stdinVars, sigVars, cacheVars, connVars, httpVars>>

(* The pool is checked under requests of any kind, then under fetches.     *)
Next ==
    \/ Workers(WorkersNext)
    \/ Stdin(StdinNext)
    \/ Signals(SignalsNext)
    \/ Cache(CacheNext)
    \/ Server(ConnNext)
    \/ HttpClient("pool", PoolNext /\ UNCHANGED fetchVars)
    \/ FetchClient(FetchNext)
    \/ Daemons(TsNext)

(* The threads and tasks of the runtime itself that can go on do.  Nothing *)
(* makes a script end, so no worker's thread is fair, only the parent's    *)
(* receive and the loop it returns to.                                     *)
Fairness ==
    /\ \A w \in Worker : WF_workerVars(Workers(RecvStep(w)))
    /\ WF_stdinVars(Stdin(ReaderStep)) /\ WF_stdinVars(Stdin(SwitchStep))
    /\ WF_sigVars(Signals(DefaultTask))
    /\ \A i \in Listener : WF_sigVars(Signals(CountWatcher(i)))
    /\ WF_connVars(Server(LoopStep)) /\ WF_connVars(Server(ExpireCloses))
    /\ \A f \in Fetch : WF_httpVars(FetchClient(FetchGoesOn(f)))
    /\ \A c \in Conns :
          WF_httpVars(FetchClient(ParkingStep(c) /\ UNCHANGED <<hooked, clearing, fetchVars>>))
    /\ WF_httpVars(FetchClient((ClearIdle \/ ClearH2) /\ UNCHANGED <<hooked, fetchVars>>))

Spec == Init /\ [][Next]_vars /\ Fairness

(* The type invariant of the part that moves.                              *)
ServicesTypeOK ==
    /\ part = "workers" => WorkersTypeOK
    /\ part = "stdin" => StdinTypeOK
    /\ part = "signals" => SignalsTypeOK
    /\ part = "cache" => CacheTypeOK
    /\ part = "server" => ConnTypeOK
    /\ part \in {"pool", "fetch"} => FetchTypeOK
    /\ part \in {"spawns", "checks"} => TsTypeOK
=============================================================================
