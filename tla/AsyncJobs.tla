----------------------------- MODULE AsyncJobs -----------------------------
(***************************************************************************)
(* The registry of asynchronous jobs (internal/controller/job/jobs.go) and *)
(* the code of the reconciler that calls it                                *)
(* (internal/controller/anyapplication_controller.go).                     *)
(*                                                                         *)
(* A registry entry maps an application to the JobWorker running for it.   *)
(* Every JobWorker has a goroutine of its own; the reconciler is ONE more  *)
(* goroutine, since the controller runs one reconcile at a time.  The map  *)
(* operations (Load, Store, Delete, LoadAndDelete), the compare-and-swap   *)
(* on `stopped' and the call of a cancel function are atomic steps;        *)
(* anything may happen between two of them.                                *)
(***************************************************************************)
EXTENDS Naturals

CONSTANTS Apps,      \* application ids (name, namespace)
          JobTypes,  \* the AsyncJobTypes a pass can ask for
          Workers,   \* the JobWorker objects Execute may allocate
          None       \* an absent map entry, an absent job

ASSUME NoneAssumption ==
  None \notin Apps /\ None \notin JobTypes /\ None \notin Workers

VARIABLES
  registry,   \* jobs.jobs: application -> worker or None
  jobId,      \* worker -> JobId of its job (None: not allocated yet)
  wpc,        \* worker -> where its goroutine is in JobWorker.Run and Stop
  stopped,    \* worker -> JobWorker.stopped
  armed,      \* worker -> Run has assigned JobWorker.cancelFunc
  cancelled,  \* worker -> its context has been cancelled
  shutdown,   \* the parent context of all jobs has been cancelled
  caller,     \* the reconcile goroutine
  evicted,    \* history: workers deregistered by the cleanup of another one
  missed      \* history: workers whose Stop found no cancel function

vars == <<registry, jobId, wpc, stopped, armed, cancelled, shutdown, caller,
          evicted, missed>>

JobIds == [app : Apps, type : JobTypes]

WorkerPc == {"free", "spawned", "running", "returned",
             "cancel", "load", "delete", "done"}

CallerPc == {"idle", "inspect", "take", "cas", "cancel", "cleanup",
             "recheck", "execute"}

IdleCaller == [pc |-> "idle", app |-> None, want |-> None, victim |-> None]

TypeOK ==
  /\ registry \in [Apps -> Workers \cup {None}]
  /\ jobId \in [Workers -> JobIds \cup {None}]
  /\ wpc \in [Workers -> WorkerPc]
  /\ stopped \in [Workers -> BOOLEAN]
  /\ armed \in [Workers -> BOOLEAN]
  /\ cancelled \in [Workers -> BOOLEAN]
  /\ shutdown \in BOOLEAN
  /\ caller \in [pc : CallerPc, app : Apps \cup {None},
                 want : JobTypes \cup {None}, victim : Workers \cup {None}]
  /\ evicted \in SUBSET Workers
  /\ missed \in SUBSET Workers

Init ==
  /\ registry = [a \in Apps |-> None]
  /\ jobId = [w \in Workers |-> None]
  /\ wpc = [w \in Workers |-> "free"]
  /\ stopped = [w \in Workers |-> FALSE]
  /\ armed = [w \in Workers |-> FALSE]
  /\ cancelled = [w \in Workers |-> FALSE]
  /\ shutdown = FALSE
  /\ caller = IdleCaller
  /\ evicted = {}
  /\ missed = {}

AppOf(w) == jobId[w].app

Current(a) == registry[a]

\* Mutant: the closure never finds its own job.
SameJobNever(entry, w) == entry # None /\ entry # w /\ jobId[entry] = jobId[w]

\* The test of the cleanup closure on the entry Load returned: it compares
\* JobIds, not worker objects.
SameJob(entry, w) == entry # None /\ jobId[entry] = jobId[w]

-----------------------------------------------------------------------------
(***************************************************************************)
(* The reconcile goroutine: the two loops over JobsToAdd in Reconcile, and *)
(* the Stop of resourceCleanup.                                            *)
(***************************************************************************)

\* A pass over application a wants a job of type t.
ReconcileBegin(a, t) ==
  /\ caller.pc = "idle"
  /\ caller' = [pc |-> "inspect", app |-> a, want |-> t, victim |-> None]
  /\ UNCHANGED <<registry, jobId, wpc, stopped, armed, cancelled, shutdown,
                 evicted, missed>>

\* A pass over an application being deleted stops its job, wanting none.
CleanupBegin(a) ==
  /\ caller.pc = "idle"
  /\ caller' = [pc |-> "take", app |-> a, want |-> None, victim |-> None]
  /\ UNCHANGED <<registry, jobId, wpc, stopped, armed, cancelled, shutdown,
                 evicted, missed>>

\* Mutant: types are compared the wrong way round.
DifferentJobSwapped ==
  Current(caller.app) # None /\ jobId[Current(caller.app)].type = caller.want

DifferentJobIsRunning ==
  /\ Current(caller.app) # None
  /\ jobId[Current(caller.app)].type # caller.want

\* First loop: GetCurrent; a different job is to be stopped.
Inspect ==
  /\ caller.pc = "inspect"
  /\ caller' = [caller EXCEPT
                  !.pc = IF DifferentJobIsRunning THEN "take" ELSE "recheck"]
  /\ UNCHANGED <<registry, jobId, wpc, stopped, armed, cancelled, shutdown,
                 evicted, missed>>

\* Mutant: resourceCleanup falls through to the loops.
AfterStopFallsThrough == [caller EXCEPT !.pc = "recheck", !.victim = None]

\* Where the pass goes on when jobs.Stop returns.
AfterStop ==
  IF caller.want = None THEN IdleCaller
  ELSE [caller EXCEPT !.pc = "recheck", !.victim = None]

\* jobs.Stop: LoadAndDelete.  The entry may be gone by now.
StopTake ==
  /\ caller.pc = "take"
  /\ registry' = [registry EXCEPT ![caller.app] = None]
  /\ caller' = IF Current(caller.app) = None THEN AfterStop
               ELSE [caller EXCEPT !.pc = "cas", !.victim = Current(caller.app)]
  /\ UNCHANGED <<jobId, wpc, stopped, armed, cancelled, shutdown, evicted, missed>>

\* JobWorker.Stop on the victim: the compare-and-swap on `stopped'.
StopCas ==
  /\ caller.pc = "cas"
  /\ stopped' = [stopped EXCEPT ![caller.victim] = TRUE]
  /\ caller' = IF stopped[caller.victim] THEN AfterStop
               ELSE [caller EXCEPT !.pc = "cancel"]
  /\ UNCHANGED <<registry, jobId, wpc, armed, cancelled, shutdown, evicted, missed>>

\* JobWorker.Stop reads cancelFunc, which Run assigns without synchronisation:
\* once assigned it may be seen ...
StopCancel ==
  /\ caller.pc = "cancel"
  /\ armed[caller.victim]
  /\ cancelled' = [cancelled EXCEPT ![caller.victim] = TRUE]
  /\ caller' = [caller EXCEPT !.pc = "cleanup"]
  /\ UNCHANGED <<registry, jobId, wpc, stopped, armed, shutdown, evicted, missed>>

\* ... or not; before, it is nil.  Nothing is cancelled then.
StopMiss ==
  /\ caller.pc = "cancel"
  /\ missed' = missed \cup {caller.victim}
  /\ caller' = [caller EXCEPT !.pc = "cleanup"]
  /\ UNCHANGED <<registry, jobId, wpc, stopped, armed, cancelled, shutdown, evicted>>

\* The cleanup closure called by the reconcile goroutine.  Load and Delete are
\* one step here: no other goroutine stores into the map, see NothingOverwritten.
StopCleanup ==
  /\ caller.pc = "cleanup"
  /\ registry' = IF SameJob(Current(caller.app), caller.victim)
                 THEN [registry EXCEPT ![caller.app] = None] ELSE registry
  /\ caller' = AfterStop
  /\ UNCHANGED <<jobId, wpc, stopped, armed, cancelled, shutdown, evicted, missed>>

\* Mutant: the second loop does not look again.
NothingIsRunning == FALSE

\* Second loop: GetCurrent again, after the status has been written.
TheSameJobIsRunning ==
  /\ Current(caller.app) # None
  /\ jobId[Current(caller.app)].type = caller.want

Recheck ==
  /\ caller.pc = "recheck"
  /\ caller' = IF TheSameJobIsRunning THEN IdleCaller
               ELSE [caller EXCEPT !.pc = "execute"]
  /\ UNCHANGED <<registry, jobId, wpc, stopped, armed, cancelled, shutdown,
                 evicted, missed>>

\* jobs.Execute: a new worker is stored, whatever the entry was, and spawned.
Execute(w) ==
  /\ caller.pc = "execute"
  /\ wpc[w] = "free"
  /\ jobId' = [jobId EXCEPT ![w] = [app |-> caller.app, type |-> caller.want]]
  /\ registry' = [registry EXCEPT ![caller.app] = w]
  /\ wpc' = [wpc EXCEPT ![w] = "spawned"]
  /\ caller' = IdleCaller
  /\ UNCHANGED <<stopped, armed, cancelled, shutdown, evicted, missed>>

-----------------------------------------------------------------------------
(***************************************************************************)
(* A worker goroutine: JobWorker.Run, and the Stop it ends with.           *)
(***************************************************************************)

\* Run derives a context (cancelled from the start after StopAll), assigns
\* cancelFunc and enters the job.
RunStart(w) ==
  /\ wpc[w] = "spawned"
  /\ wpc' = [wpc EXCEPT ![w] = "running"]
  /\ armed' = [armed EXCEPT ![w] = TRUE]
  /\ cancelled' = [cancelled EXCEPT ![w] = shutdown]
  /\ UNCHANGED <<registry, jobId, stopped, shutdown, caller, evicted, missed>>

\* The job returns: it completed, or it saw its context cancelled.
JobReturns(w) ==
  /\ wpc[w] = "running"
  /\ wpc' = [wpc EXCEPT ![w] = "returned"]
  /\ UNCHANGED <<registry, jobId, stopped, armed, cancelled, shutdown, caller,
                 evicted, missed>>

\* Mutant: the worker waits for a compare-and-swap that succeeds.
WorkerCasSpins(w) ==
  /\ wpc[w] = "returned"
  /\ ~stopped[w]
  /\ stopped' = [stopped EXCEPT ![w] = TRUE]
  /\ wpc' = [wpc EXCEPT ![w] = "cancel"]
  /\ UNCHANGED <<registry, jobId, armed, cancelled, shutdown, caller, evicted, missed>>

WorkerCas(w) ==
  /\ wpc[w] = "returned"
  /\ stopped' = [stopped EXCEPT ![w] = TRUE]
  /\ wpc' = [wpc EXCEPT ![w] = IF stopped[w] THEN "done" ELSE "cancel"]
  /\ UNCHANGED <<registry, jobId, armed, cancelled, shutdown, caller, evicted, missed>>

WorkerCancel(w) ==
  /\ wpc[w] = "cancel"
  /\ cancelled' = [cancelled EXCEPT ![w] = TRUE]
  /\ wpc' = [wpc EXCEPT ![w] = "load"]
  /\ UNCHANGED <<registry, jobId, stopped, armed, shutdown, caller, evicted, missed>>

\* The cleanup closure: Load and compare ...
WorkerLoad(w) ==
  /\ wpc[w] = "load"
  /\ wpc' = [wpc EXCEPT ![w] = IF SameJob(Current(AppOf(w)), w)
                               THEN "delete" ELSE "done"]
  /\ UNCHANGED <<registry, jobId, stopped, armed, cancelled, shutdown, caller,
                 evicted, missed>>

\* ... then Delete, of whatever is registered by now.
WorkerDelete(w) ==
  /\ wpc[w] = "delete"
  /\ registry' = [registry EXCEPT ![AppOf(w)] = None]
  /\ evicted' = evicted \cup ({Current(AppOf(w))} \ {w, None})
  /\ wpc' = [wpc EXCEPT ![w] = "done"]
  /\ UNCHANGED <<jobId, stopped, armed, cancelled, shutdown, caller, missed>>

-----------------------------------------------------------------------------

\* jobs.StopAll: the parent context is cancelled, and with it every context
\* derived from it so far.
StopAll ==
  /\ shutdown' = TRUE
  /\ cancelled' = [w \in Workers |-> cancelled[w] \/ armed[w]]
  /\ UNCHANGED <<registry, jobId, wpc, stopped, armed, caller, evicted, missed>>

CallerStep ==
  \/ Inspect \/ StopTake \/ StopCas \/ StopCancel \/ StopMiss \/ StopCleanup
  \/ Recheck
  \/ \E w \in Workers : Execute(w)

WorkerStep(w) ==
  \/ RunStart(w) \/ JobReturns(w)
  \/ WorkerCas(w) \/ WorkerCancel(w) \/ WorkerLoad(w) \/ WorkerDelete(w)

Next ==
  \/ \E a \in Apps : (\E t \in JobTypes : ReconcileBegin(a, t)) \/ CleanupBegin(a)
  \/ CallerStep
  \/ \E w \in Workers : WorkerStep(w)
  \/ StopAll

\* Go schedules every runnable goroutine.  A job need not return by itself
\* (the operation job never does while the application is healthy), but every
\* job loop selects on ctx.Done(), so a cancelled one returns.
Fairness ==
  /\ WF_vars(CallerStep)
  /\ \A w \in Workers :
       /\ WF_vars(RunStart(w))
       /\ WF_vars(JobReturns(w) /\ cancelled[w])
       /\ WF_vars(WorkerCas(w) \/ WorkerCancel(w) \/ WorkerLoad(w) \/ WorkerDelete(w))

Spec == Init /\ [][Next]_vars

FairSpec == Spec /\ Fairness

-----------------------------------------------------------------------------
(***************************************************************************)
(* Properties.                                                             *)
(***************************************************************************)

\* The job of w can still act on the cluster on its own initiative.
Live(w) == wpc[w] \in {"spawned", "running"} /\ ~cancelled[w]

\* jobs.go Execute, Stop and the cleanup closure: a job that can still act is
\* the registered job of its application, except while the reconciler is
\* inside Stop for it, and except for the two ways the code loses a job: a late
\* Delete of another worker's cleanup, and a Stop that saw no cancel function.
LiveJobsAreTracked ==
  \A w \in Workers :
    Live(w) => \/ registry[AppOf(w)] = w
               \/ caller.victim = w /\ caller.pc \in {"cas", "cancel"}
               \/ w \in evicted
               \/ w \in missed

\* anyapplication_controller.go, the two loops over JobsToAdd: Execute stores
\* into an empty slot.  It would overwrite a running job otherwise, since it
\* does not look; and after LoadAndDelete nothing is left for the closure.
NothingOverwritten ==
  caller.pc \in {"execute", "cas", "cancel", "cleanup"}
    => registry[caller.app] = None

\* JobWorker.Stop: a registered worker that is already stopped is in the middle
\* of its own cleanup.  A stopped worker that stayed in the registry would make
\* GetCurrent report a job that never moves again, and no later pass would
\* start another one of that type.
NoDeadEntry ==
  \A a \in Apps : registry[a] # None /\ stopped[registry[a]]
    => wpc[registry[a]] \in {"cancel", "load", "delete"}

\* JobWorker.Run and Stop: an entry does not outlive its job, whoever stops it.
FinishedJobLeaves ==
  \A w \in Workers, a \in Apps : (wpc[w] = "returned") ~> (registry[a] # w)

\* jobs.Stop and jobs.StopAll: the goroutine of a job whose context has been
\* cancelled comes to its end.
CancelledJobEnds ==
  \A w \in Workers : cancelled[w] ~> (wpc[w] = "done")

\* What local_fsm_test.go says of a pass over an application whose undeploy
\* job is in progress: no second one is started.  Two workers of one JobId may
\* overlap only when one of them has been stopped.
NoDoubleStart ==
  \A v, w \in Workers :
    v # w /\ Live(v) /\ Live(w) /\ jobId[v] = jobId[w] => stopped[v] \/ stopped[w]
=============================================================================
