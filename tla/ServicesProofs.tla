--------------------------- MODULE ServicesProofs ---------------------------
(***************************************************************************)
(* Proofs about the composition MCServices checks: a behaviour of the      *)
(* whole is a behaviour of each part, of the HTTP client's pool under      *)
(* requests of any kind or of the pool under fetches.  What the proofs     *)
(* about the parts show then holds of the composition, for every value of  *)
(* all the constants.                                                      *)
(***************************************************************************)
EXTENDS MCServices, WorkersProofs, HostProofs, HttpFetchProofs, TLAPS

(* Whichever part moves, each part sees a step of its own or none.         *)
LEMMA PartsMove ==
    ASSUME [Next]_vars
    PROVE  /\ part' = part
           /\ [WorkersNext]_workerVars /\ [StdinNext]_stdinVars /\ [SignalsNext]_sigVars
           /\ [CacheNext]_cacheVars /\ [ConnNext]_connVars /\ [TsNext]_tsVars
           /\ part = "pool" => [PoolNext]_httpPoolVars /\ UNCHANGED fetchVars
           /\ part # "pool" => [FetchNext]_httpVars
  <1>1. CASE Workers(WorkersNext)
    BY <1>1 DEF Workers, httpVars
  <1>2. CASE Stdin(StdinNext)
    BY <1>2 DEF Stdin, httpVars
  <1>3. CASE Signals(SignalsNext)
    BY <1>3 DEF Signals, httpVars
  <1>4. CASE Cache(CacheNext)
    BY <1>4 DEF Cache, httpVars
  <1>5. CASE Server(ConnNext)
    BY <1>5 DEF Server, httpVars
  <1>6. CASE HttpClient("pool", PoolNext /\ UNCHANGED fetchVars)
    BY <1>6 DEF HttpClient
  <1>7. CASE FetchClient(FetchNext)
    BY <1>7 DEF FetchClient, HttpClient
  <1>8. CASE Daemons(TsNext)
    BY <1>8 DEF Daemons, httpVars
  <1>9. CASE UNCHANGED vars
    BY <1>9 DEF vars, httpVars
  <1> QED BY <1>1, <1>2, <1>3, <1>4, <1>5, <1>6, <1>7, <1>8, <1>9 DEF Next

(***************************************************************************)
(* The parts around the event loop share no state: run side by side, each  *)
(* behaves as it does alone, with the HTTP client's pool either under      *)
(* requests of any kind or under fetches.                                  *)
(***************************************************************************)
THEOREM ServicesAreParts ==
    Spec => /\ WorkersSpec /\ StdinSpec /\ SignalsSpec /\ CacheSpec /\ ConnSpec /\ TsSpec
            /\ part = "pool" => PoolSpec
            /\ part # "pool" => FetchSpec
  <1>1. Init => /\ WorkersInit /\ StdinInit /\ SignalsInit /\ CacheInit /\ ConnInit /\ TsInit
                /\ FetchInit /\ PoolInit
    BY DEF Init, FetchInit
  <1>2. [Next]_vars => /\ [WorkersNext]_workerVars /\ [StdinNext]_stdinVars
                       /\ [SignalsNext]_sigVars /\ [CacheNext]_cacheVars
                       /\ [ConnNext]_connVars /\ [TsNext]_tsVars
    BY PartsMove
  <1>3. (part = "pool") /\ [Next]_vars => (part = "pool")' /\ [PoolNext]_httpPoolVars
    BY PartsMove
  <1>4. part # "pool" /\ [Next]_vars => (part # "pool")' /\ [FetchNext]_httpVars
    BY PartsMove
  <1> QED BY <1>1, <1>2, <1>3, <1>4, PTL
          DEF Spec, WorkersSpec, StdinSpec, SignalsSpec, CacheSpec, ConnSpec, TsSpec, PoolSpec,
              FetchSpec

(* Under requests of any kind no fetch is started.                         *)
NoFetch ==
    /\ fetch = [f \in Fetch |-> Fresh] /\ cancels = {} /\ wire = [f \in Fetch |-> 0]

PoolAlone == part = "pool" /\ PoolInv /\ NoFetch

LEMMA PoolAloneHolds == Spec => (part = "pool" => []PoolAlone)
  <1>1. Init /\ part = "pool" => PoolAlone
    BY PoolInitInv DEF Init, FetchInit, PoolAlone, NoFetch
  <1>2. PoolAlone /\ [Next]_vars => PoolAlone'
    <2> SUFFICES ASSUME PoolAlone, [Next]_vars PROVE PoolAlone'
      OBVIOUS
    <2>1. part' = part /\ [PoolNext]_httpPoolVars /\ UNCHANGED fetchVars
      BY PartsMove DEF PoolAlone
    <2> QED BY <2>1, PoolNextInv DEF PoolAlone, NoFetch, fetchVars
  <1> QED BY <1>1, <1>2, PTL DEF Spec

LEMMA PoolAloneTypes == PoolAlone => FetchTypeOK /\ OneOwner /\ NeverSentTwice
  <1> SUFFICES ASSUME PoolAlone PROVE FetchTypeOK /\ OneOwner /\ NeverSentTwice
    OBVIOUS
  <1>1. FetchTypeOK
    BY FreshType DEF PoolAlone, PoolInv, NoFetch, FetchTypeOK
  <1>2. OneOwner
    BY DEF PoolAlone, PoolInv
  <1>3. NeverSentTwice
    BY DEF PoolAlone, NoFetch, NeverSentTwice
  <1> QED BY <1>1, <1>2, <1>3

LEMMA PoolOrFetches == part = "pool" \/ part # "pool"
  OBVIOUS

(* The state of the part that moves has its types, for every value of the  *)
(* constants of every part.                                                *)
THEOREM ServicesTypeCorrect == Spec => []ServicesTypeOK
  <1>1. WorkersTypeOK /\ StdinTypeOK /\ SignalsTypeOK /\ CacheTypeOK /\ ConnTypeOK
           /\ FetchTypeOK /\ TsTypeOK => ServicesTypeOK
    BY DEF ServicesTypeOK
  <1>2. Spec => []FetchTypeOK
    BY ServicesAreParts, PoolAloneHolds, PoolAloneTypes, PoolOrFetches, FetchTypeCorrect, PTL
  <1> QED BY <1>1, <1>2, ServicesAreParts, WorkersTypeCorrect, StdinTypeCorrect,
             SignalsTypeCorrect, CacheTypeCorrect, ConnTypeCorrect, TsTypeCorrect, PTL

(* Every safety invariant of the composition's run, for every value of the *)
(* constants: what each part keeps alone it keeps beside the others.       *)
THEOREM ServicesSafe ==
    Spec => [](/\ PoolNeverGrows /\ EndIsReal
               /\ DeliveredUnderMode
               /\ NoDeathUnderListener
               /\ NeverTorn
               /\ StaysUnderCheck
               /\ OneOwner /\ NeverSentTwice
               /\ RootEditsSeen /\ OldDaemonGone)
  <1>1. Spec => []OneOwner
    BY ServicesAreParts, PoolAloneHolds, PoolAloneTypes, PoolOrFetches, FetchOneOwner, PTL
  <1>2. Spec => []NeverSentTwice
    BY ServicesAreParts, PoolAloneHolds, PoolAloneTypes, PoolOrFetches, FetchNeverSentTwice, PTL
  <1> QED BY <1>1, <1>2, ServicesAreParts, WorkersPoolNeverGrows, WorkersEndIsReal,
             StdinDeliversUnderMode, SignalsNoDeathUnderListener, CacheNeverTorn,
             ConnStaysUnderCheck, TsRootEditsSeen, TsOldDaemonGone, PTL
=============================================================================
