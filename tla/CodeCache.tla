----------------------------- MODULE CodeCache -----------------------------
(***************************************************************************)
(* The compiled-code cache on disk, for one key:                           *)
(* crates/oam_engine/src/code_cache.rs.                                    *)
(*                                                                         *)
(* Processes that share a cache directory load, store and sweep at the     *)
(* same time, and any of them may be killed between two system calls: what *)
(* it left is on disk for the next one, which may get its process id.  The *)
(* isolates of a process store under one counter.  A binary that `oam      *)
(* compile` built brings a blob of its own, the seed, which V8 may reject. *)
(* Time is abstract: a file nobody wrote for long enough is old, and a     *)
(* file may become old between any two steps of a slow process.            *)
(***************************************************************************)
EXTENDS Integers, FiniteSets

CONSTANTS
    Processes,   \* how many processes run at one time
    Isolates,    \* the isolates of each
    Killable,    \* the processes that may be killed
    MaxStores,   \* bound on the stores of a process, from 0; CTR
    MaxCrashes,  \* bound on the processes that are killed
    MaxAged      \* bound on the files that become old

ASSUME CodeCacheAssumption ==
    /\ Processes \in Nat /\ Killable \subseteq 1 .. Processes
    /\ MaxStores \in Nat /\ MaxCrashes \in Nat /\ MaxAged \in Nat

(* A process is its id, which the one started after it is killed gets too. *)
Process == 1 .. Processes

VARIABLES
    ctr,         \* process -> CTR
    seed,        \* process -> it still has a seed for the key
    swept,       \* process -> its sweep: not asked for, not due, under way
    store,       \* process -> isolate -> the store it is in
    file,        \* path -> what is on disk
    stamped,     \* the stamp is younger than SWEEP_INTERVAL
    sweep,       \* process -> the path its sweep found old, or none
    torn,        \* history: a load got a blob that was not written to its end
    crashes,     \* processes killed so far
    aged         \* files that became old so far

processVars == <<ctr, seed, swept, store, sweep>>
cacheVars == <<processVars, file, stamped, torn, crashes, aged>>

(* Paths: .<pid>.<n>.tmp, and the key's .v8c and .seedrej.                 *)
Tmp == Process \X (0 .. MaxStores)
Blob == <<0, 0>>
SeedRej == <<0, 1>>
NoPath == <<0, 2>>
Path == Tmp \cup {Blob, SeedRej}

(* A file: how much of it was written, and whether it is old.              *)
File == [has : {"absent", "part", "whole"}, old : BOOLEAN]
Written(c) == [has |-> c, old |-> FALSE]
Absent == Written("absent")

(* A store: not under way, its temporary file open, or written.            *)
NoStore == [pc |-> "idle", tmp |-> NoPath]
Store == [pc : {"idle", "open", "written"}, tmp : Tmp \cup {NoPath}]

CacheInit ==
    /\ ctr = [p \in Process |-> 0]
    /\ seed \in [Process -> BOOLEAN]
    /\ swept = [p \in Process |-> "no"]
    /\ store = [p \in Process |-> [i \in Isolates |-> NoStore]]
    /\ sweep = [p \in Process |-> NoPath]
    /\ file = [x \in Path |-> Absent]
    /\ stamped = FALSE
    /\ torn = FALSE
    /\ crashes = 0 /\ aged = 0

-----------------------------------------------------------------------------
(* load: the seed, unless its rejection was recorded and the disk has the  *)
(* refreshed blob; without a seed, the disk.  V8 takes or rejects a seed;  *)
(* a rejection is recorded, on disk and for this process.  The first load  *)
(* of a process starts its sweep, if one is due (maybe_sweep), and the     *)
(* sweep stamps the root first.                                            *)
FromDisk(p) == ~seed[p] \/ (file[SeedRej].has = "whole" /\ file[Blob].has # "absent")

StartsSweep(p) ==
    IF swept[p] # "no" THEN UNCHANGED <<swept, stamped>>
    ELSE /\ swept' = [swept EXCEPT ![p] = IF stamped THEN "skips" ELSE "walks"]
         /\ stamped' = TRUE

Load(p) ==
    /\ StartsSweep(p)
    /\ \/ /\ FromDisk(p)
          /\ torn' = (torn \/ file[Blob].has = "part")
          /\ UNCHANGED <<seed, file>>
       \/ /\ ~FromDisk(p)
          /\ \/ UNCHANGED <<seed, file>>
             \/ /\ seed' = [seed EXCEPT ![p] = FALSE]
                /\ file' = [file EXCEPT ![SeedRej] = Written("whole")]
          /\ UNCHANGED torn
    /\ UNCHANGED <<ctr, store, sweep, crashes, aged>>

(* store, a system call a step: the temporary file is opened (and an older *)
(* one of its name emptied), written, renamed.                             *)
\* A bug: the name has no process id, so two processes share it.
TmpNameByCtr(p) == <<1, ctr[p]>>
TmpName(p) == <<p, ctr[p]>>

OpenTmp(p, i) ==
    /\ store[p][i].pc = "idle" /\ ctr[p] <= MaxStores
    /\ ctr' = [ctr EXCEPT ![p] = @ + 1]
    /\ store' = [store EXCEPT ![p][i] = [pc |-> "open", tmp |-> TmpName(p)]]
    /\ file' = [file EXCEPT ![TmpName(p)] = Written("part")]
    /\ UNCHANGED <<seed, swept, sweep, stamped, torn, crashes, aged>>

(* The file may have been swept away while it was open.                    *)
WriteTmp(p, i) ==
    LET s == store[p][i] IN
    /\ s.pc = "open"
    /\ \/ /\ store' = [store EXCEPT ![p][i].pc = "written"]
          /\ file' = IF file[s.tmp].has = "absent" THEN file
                     ELSE [file EXCEPT ![s.tmp] = Written("whole")]
       \/ /\ store' = [store EXCEPT ![p][i] = NoStore]       \* ENOSPC
          /\ file' = [file EXCEPT ![s.tmp] = Absent]
    /\ UNCHANGED <<ctr, seed, swept, sweep, stamped, torn, crashes, aged>>

Rename(p, i) ==
    LET s == store[p][i] IN
    /\ s.pc = "written"
    /\ \/ /\ file[s.tmp].has # "absent"
          /\ file' = [file EXCEPT ![Blob] = file[s.tmp], ![s.tmp] = Absent]
       \/ file' = [file EXCEPT ![s.tmp] = Absent]
    /\ store' = [store EXCEPT ![p][i] = NoStore]
    /\ UNCHANGED <<ctr, seed, swept, sweep, stamped, torn, crashes, aged>>

(* sweep looks at a file's age, then removes what has its path by then.    *)
SweepFinds(p, x) ==
    /\ swept[p] = "walks" /\ sweep[p] = NoPath
    /\ file[x].has # "absent" /\ file[x].old
    /\ sweep' = [sweep EXCEPT ![p] = x]
    /\ UNCHANGED <<ctr, seed, swept, store, file, stamped, torn, crashes, aged>>

SweepRemoves(p) ==
    /\ sweep[p] # NoPath
    /\ file' = [file EXCEPT ![sweep[p]] = Absent]
    /\ sweep' = [sweep EXCEPT ![p] = NoPath]
    /\ UNCHANGED <<ctr, seed, swept, store, stamped, torn, crashes, aged>>

(* Time passes, for a file or for the stamp.                               *)
AgeStamp ==
    /\ aged < MaxAged /\ stamped
    /\ stamped' = FALSE
    /\ aged' = aged + 1
    /\ UNCHANGED <<processVars, file, torn, crashes>>

Age(x) ==
    /\ aged < MaxAged /\ file[x].has # "absent" /\ ~file[x].old
    /\ file' = [file EXCEPT ![x].old = TRUE]
    /\ aged' = aged + 1
    /\ UNCHANGED <<processVars, stamped, torn, crashes>>

(* A process is killed, and another one starts with its id.                *)
Crash(p) ==
    /\ crashes < MaxCrashes
    /\ crashes' = crashes + 1
    /\ ctr' = [ctr EXCEPT ![p] = 0]
    /\ \E s \in BOOLEAN : seed' = [seed EXCEPT ![p] = s]
    /\ swept' = [swept EXCEPT ![p] = "no"]
    /\ store' = [store EXCEPT ![p] = [i \in Isolates |-> NoStore]]
    /\ sweep' = [sweep EXCEPT ![p] = NoPath]
    /\ UNCHANGED <<file, stamped, torn, aged>>

CacheNext ==
    \/ \E p \in Process :
          \/ Load(p) \/ SweepRemoves(p) \/ (p \in Killable /\ Crash(p))
          \/ \E i \in Isolates : OpenTmp(p, i) \/ WriteTmp(p, i) \/ Rename(p, i)
          \/ \E x \in Path : SweepFinds(p, x)
    \/ \E x \in Path : Age(x)
    \/ AgeStamp

CacheSpec == CacheInit /\ [][CacheNext]_cacheVars

-----------------------------------------------------------------------------
CacheTypeOK ==
    /\ ctr \in [Process -> 0 .. MaxStores + 1]
    /\ seed \in [Process -> BOOLEAN] /\ swept \in [Process -> {"no", "skips", "walks"}]
    /\ store \in [Process -> [Isolates -> Store]]
    /\ sweep \in [Process -> Path \cup {NoPath}]
    /\ file \in [Path -> File] /\ stamped \in BOOLEAN
    /\ torn \in BOOLEAN
    /\ crashes \in 0 .. MaxCrashes /\ aged \in 0 .. MaxAged

(***************************************************************************)
(* "a concurrent reader never observes a torn blob" (store): whatever      *)
(* processes store, sweep and die, and whoever inherits their names, a     *)
(* load gets a blob that was written to its end, or none.                  *)
(***************************************************************************)
NeverTorn == ~torn
=============================================================================
