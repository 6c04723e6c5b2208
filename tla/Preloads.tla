------------------------------- MODULE Preloads -------------------------------
(***************************************************************************)
(* Preloading the files of a page (yazi-core tasks/prework.rs,             *)
(* yazi-scheduler preload/, loaded.rs, hook.rs), on top of Scheduler.      *)
(*                                                                         *)
(* Two tables keep the work from being repeated.  `loaded` has, for the    *)
(* signature of a file, a bit for each preloader that was started on it;   *)
(* the bits are those of one revision of the configuration.  `loading` has *)
(* the last preload task of each file, of whatever preloader and           *)
(* signature: a new one cancels it.  A bit is cleared by the preload that  *)
(* did not complete, and by the hook of one that was canceled.             *)
(*                                                                         *)
(* A page is preloaded file by file; the code holds the lock of `loaded`   *)
(* for the whole page, so it has fewer interleavings than this.  Both      *)
(* tables are LRU caches (4096 and 256 entries): evictions are left out.   *)
(* What a preloader leaves on disk is `cached`, its doing and not ours.    *)
(*                                                                         *)
(* Bounds: a file changes MaxVersion times, the configuration MaxRev times.*)
(***************************************************************************)
EXTENDS Scheduler

CONSTANTS Files, Preloaders, MaxVersion, MaxRev

ASSUME PreloadKinds  == Kinds = {"Preload"} /\ Mixes = [Tasks -> Kinds]
ASSUME VersionBounds == MaxVersion \in Nat /\ MaxRev \in Nat

VARIABLES
  version,   \* what distinguishes the signatures of a file over time
  rev,       \* the revision of the configured preloaders
  job,       \* job[t]: what t preloads
  loaded,    \* Preload::loaded
  loading,   \* Preload::loading
  cached     \* jobs a preloader has completed

tables  == <<version, rev, job, loaded, loading, cached>>
allvars == <<vars, tables>>

Sigs  == Files \X (0..MaxVersion)
Jobs  == [sig: Sigs, by: Preloaders, rev: 0..MaxRev]
NoJob == [sig |-> <<>>]
NoTask == "none"

PreloadsTypeOK ==
  /\ version \in [Files -> 0..MaxVersion]
  /\ rev     \in 0..MaxRev
  /\ job     \in [Tasks -> Jobs \cup {NoJob}]
  /\ loaded  \in [Sigs -> [rev: 0..MaxRev, marks: SUBSET Preloaders]]
  /\ loading \in [Files -> Tasks \cup {NoTask}]
  /\ cached  \subseteq Jobs

PreloadsInit ==
  /\ Init
  /\ version = [f \in Files |-> 0]
  /\ rev     = 0
  /\ job     = [t \in Tasks |-> NoJob]
  /\ loaded  = [s \in Sigs |-> [rev |-> 0, marks |-> {}]]
  /\ loading = [f \in Files |-> NoTask]
  /\ cached  = {}

FileOf(j) == j.sig[1]

Intact(t) == t \in listed /\ status[t] # "Canceled"

Marked(j) == loaded[j.sig].rev = j.rev /\ j.by \in loaded[j.sig].marks

(* A mark of another revision drops the marks of the old one. *)
Mark(j) ==
  loaded' = [loaded EXCEPT ![j.sig] =
    [rev |-> j.rev, marks |-> {j.by} \cup IF @.rev = j.rev THEN @.marks ELSE {}]]

Clear(j) ==
  loaded' = [loaded EXCEPT ![j.sig].marks = IF loaded[j.sig].rev = j.rev THEN @ \ {j.by} ELSE @]

-----------------------------------------------------------------------------
(* A slip: the last preload is remembered per signature. *)
PreloadPagedBySig(t, f, p) ==
  LET j == [sig |-> <<f, version[f]>>, by |-> p, rev |-> rev] IN
  /\ ~Marked(j)
  /\ Mark(j)
  /\ job' = [job EXCEPT ![t] = j]
  /\ loading' = [loading EXCEPT ![f] = t]
  /\ IF loading[f] \in Tasks /\ Intact(loading[f]) /\ job[loading[f]].sig = j.sig
     THEN Supersede(t, loading[f])
     ELSE Add(t, "Preload", "preload")
  /\ UNCHANGED <<version, rev, cached>>

(* Preloader p matches file f on the page. *)
PreloadPaged(t, f, p) ==
  LET j == [sig |-> <<f, version[f]>>, by |-> p, rev |-> rev] IN
  /\ ~Marked(j)
  /\ Mark(j)
  /\ job' = [job EXCEPT ![t] = j]
  /\ loading' = [loading EXCEPT ![f] = t]
  /\ IF loading[f] \in Tasks /\ Intact(loading[f])
     THEN Supersede(t, loading[f])
     ELSE Add(t, "Preload", "preload")
  /\ UNCHANGED <<version, rev, cached>>

(* The preloader completes, does not complete, or raises an error, which   *)
(* leaves the mark until the user cancels the failed task.                 *)
RunPreload(t) ==
  /\ Finish(t)
  /\ \/ Emit(t, "Succ") /\ cached' = cached \cup {job[t]} /\ UNCHANGED loaded
     \/ Emit(t, "Succ") /\ Clear(job[t]) /\ UNCHANGED cached
     \/ Emit(t, "Fail") /\ UNCHANGED <<loaded, cached>>
  /\ UNCHANGED <<version, rev, job, loading>>

(* A slip: what the hook found intact does not matter. *)
HookPreloadKeeping(t) ==
  /\ HookFinish(t)
  /\ UNCHANGED tables

HookPreload(t) ==
  /\ HookFinish(t)
  /\ IF hooking[t] = "stale" THEN Clear(job[t]) ELSE UNCHANGED loaded
  /\ UNCHANGED <<version, rev, job, loading, cached>>

(* The file changes on disk, or the user reloads the list of preloaders.   *)
ChangeFile(f) ==
  /\ version[f] < MaxVersion
  /\ version' = [version EXCEPT ![f] = @ + 1]
  /\ UNCHANGED <<vars, rev, job, loaded, loading, cached>>

Reindex ==
  /\ rev < MaxRev
  /\ rev' = rev + 1
  /\ UNCHANGED <<vars, version, job, loaded, loading, cached>>

(* The rest is the scheduler's alone.  A preload has a scope of its own,   *)
(* which nobody but the preloader gets to see.                             *)
Background(t) ==
  \/ UserCancel(t)
  \/ InWorker(t) /\ ScopeCancel(t)
  \/ Receive(t) \/ WorkerCancel(t) \/ Drop(t)
  \/ OpLoop(t) \/ HookReceive(t) \/ HookCheck(t)

PreloadsNext ==
  \/ Reindex
  \/ \E f \in Files : ChangeFile(f)
  \/ \E t \in Tasks :
       \/ \E f \in Files, p \in Preloaders : PreloadPaged(t, f, p)
       \/ RunPreload(t) \/ HookPreload(t)
       \/ (Background(t) /\ UNCHANGED tables)

HookWorkerStep(t) == HookPreload(t) \/ ((HookReceive(t) \/ HookCheck(t)) /\ UNCHANGED tables)

(* As in Scheduler: workers, operation loop and hook workers are polled.   *)
PreloadsFairness ==
  \A t \in Tasks :
    /\ WF_allvars(Receive(t) /\ UNCHANGED tables)
    /\ WF_allvars(RunPreload(t))
    /\ WF_allvars((WorkerCancel(t) \/ Drop(t)) /\ UNCHANGED tables)
    /\ WF_allvars(OpLoop(t) /\ UNCHANGED tables)
    /\ WF_allvars(HookWorkerStep(t))

PreloadsSpec     == PreloadsInit /\ [][PreloadsNext]_allvars
PreloadsFairSpec == PreloadsSpec /\ PreloadsFairness

-----------------------------------------------------------------------------
(* No two preloads of one file are intact at a time, though it changes, has *)
(* more than one preloader, or lost its mark to the hook of an older       *)
(* preload.  One that was superseded may run until its worker notices.     *)
OnePreloadPerFile ==
  \A t, u \in Tasks :
    Intact(t) /\ Intact(u) /\ t # u => FileOf(job[t]) # FileOf(job[u])

(* A task that a second forced cancel removed before its hook could run.   *)
ForcedOut(t) ==
  kind[t] # "None" /\ t \notin listed /\ status[t] = "Canceled" /\ prog[t].cleaned = "Pending"

(* A mark keeps a preloader from being started again, so it must mean that *)
(* the preload is complete, or that a task still in the list answers for   *)
(* it: one that is yet to run or to be cleaned up, or a failed one that    *)
(* the user can cancel.  A task that was forced out leaves its mark behind *)
(* for nothing.                                                            *)
MarkIsAnswered ==
  \A j \in Jobs :
    Marked(j) =>
      \/ j \in cached
      \/ \E t \in Tasks : job[t] = j /\ (t \in listed \/ ForcedOut(t))

(* A marked file is cached in the end, or loses its mark and may be tried  *)
(* again, or its preload failed, or was forced out.                        *)
MarksResolve ==
  \A j \in Jobs :
    Marked(j) ~>
      \/ j \in cached
      \/ ~Marked(j)
      \/ \E t \in Tasks : job[t] = j /\ (status[t] = "Failed" \/ ForcedOut(t))
=============================================================================
