--------------------------- MODULE ZoneController ---------------------------
(***************************************************************************)
(* The controller of one zone and one application: reconcile passes, the   *)
(* job running for the application, the application's resources in the     *)
(* cluster, and the API object with the informer cache in between.         *)
(*                                                                         *)
(* UpdateStatus is one step here: it applies an update function to the     *)
(* newest status, or to a cached copy on which it finds nothing to do, or  *)
(* it fails (StatusUpdater shows that the loop implements this).  Stopping *)
(* a job is one step too; what a stopped deployment still applies to the   *)
(* cluster is the variable stray, and a report it still lands precedes     *)
(* every write made since (CancelledNeverOverwrites), so it is one made    *)
(* before the stop.  The races of the registry that AsyncJobs finds are    *)
(* events here: a job whose stop is missed, or that is evicted, goes on    *)
(* untracked.                                                              *)
(***************************************************************************)
EXTENDS AppFsm, Sequences

CONSTANTS InitialStatuses,  \* statuses the object may have when it is created
          Places,           \* placements a scheduler may set
          PeerSections,     \* sections other zones may report
          Charts,           \* the chart version resolved first, then newer ones
          RetryAttempts,    \* attempts of a deploy or undeploy job (3 in the code)
          MaxLag,           \* states of the object the cache may be behind
          Budgets           \* scenarios: how often a kind of event may happen

EventKinds == {"fault", "unwritten", "crash", "move", "upgrade", "stray", "sick", "loss",
               "delete", "report", "race"}

\* The health of resources that are there, but for "Missing".
Healths == {"Healthy", "Suspended", "Progressing", "Degraded", "Unknown"}

\* The messages of the jobs' conditions.
Messages == {"initial", "retry", "failed", "done", "progress", "newVersion", "state", "health"}

\* The section of a zone is written by the controller of the zone alone, so an object
\* that is new here has none of this zone.

ASSUME ZoneAssumption ==
  /\ None \notin Statuses /\ None \notin Apps /\ \A S \in SUBSET Zones : S # None
  /\ \A st \in InitialStatuses : st \in Statuses /\ ~ZoneExists(st, Self)
  /\ Places \subseteq (SUBSET Zones) \ {{}} /\ PeerSections \subseteq ZoneStatus
  /\ Messages \subseteq Msgs
  /\ RetryAttempts \in Nat \ {0} /\ MaxLag \in Nat
  /\ Budgets \subseteq [EventKinds -> Nat]
  /\ Charts \in Seq(Versions) /\ \A b \in Budgets : Len(Charts) > b["upgrade"]

VARIABLES
  states,    \* states of the object: what the cache holds first, the newest last
  queued,    \* the work queue holds a request for the application
  pass,      \* the reconcile pass under way
  job,       \* the registered job or None
  untracked, \* a job that goes on although it is not registered, or None
  late,      \* the cleanup of a job that has ended has yet to delete the entry
  stray,     \* the version a stopped deploy job is still applying, or None
  res,       \* version -> its resources in the cluster: "absent", "some", "all"
  going,     \* versions whose resources are being deleted
  health,    \* the health of deployed resources
  target,    \* index of the chart version the application should have
  budget,    \* events of the environment: how many are left, which have happened
  panicked   \* history: NextJobs.Add has panicked

vars == <<states, queued, pass, job, untracked, late, stray, res, going, health, target,
          budget, panicked>>

\* What goes on beside the registered job.
beside == <<untracked, late, stray>>

\* Variables no reconcile step changes.
cluster == <<res, going, health, target>>

Cached == states[1]

Newest == states[Len(states)]

Gone(o) == o.status = None

Target == Charts[target]

IdlePass == [pc |-> "idle", app |-> None, seen |-> None, new |-> None, job |-> None,
             fresh |-> {}, again |-> FALSE]

Init ==
  /\ states \in { <<[status |-> st, finalizer |-> FALSE, deleting |-> FALSE]>> :
                    st \in InitialStatuses }
  /\ queued = TRUE
  /\ pass = IdlePass
  /\ job = None
  /\ untracked = None
  /\ late = FALSE
  /\ stray = None
  /\ res = [v \in Versions |-> "absent"]
  /\ going = {}
  /\ health = "Healthy"
  /\ target = 1
  /\ budget \in { [left |-> b, happened |-> {}] : b \in Budgets }
  /\ panicked = FALSE

Spend(kind) ==
  /\ budget.left[kind] > 0
  /\ budget' = [left     |-> [budget.left EXCEPT ![kind] = @ - 1],
                happened |-> budget.happened \cup {kind}]

-----------------------------------------------------------------------------
(***************************************************************************)
(* The API object, the cache and the work queue.                           *)
(***************************************************************************)

\* A new state of the object.  Without lag the watch event arrives at once.
Publish(o) ==
  IF MaxLag = 0 THEN states' = <<o>> /\ queued' = TRUE
  ELSE /\ Len(states) <= MaxLag
       /\ states' = Append(states, o)
       /\ queued' = queued

\* A watch event: the cache moves on and the application is enqueued.
CacheCatchUp ==
  /\ Len(states) > 1
  /\ states' = Tail(states)
  /\ queued' = TRUE
  /\ UNCHANGED <<pass, job, budget, panicked, beside, cluster>>

\* The informer's periodic resync.
Resync ==
  /\ ~queued
  /\ queued' = TRUE
  /\ UNCHANGED <<states, pass, job, budget, panicked, beside, cluster>>

\* UpdateStatus with request r: the new status is written, once the cache holds
\* the newest; or nothing is, since a copy of the object was gone or showed
\* nothing to do; or the call fails, in conflict with newer states in every
\* round or for another reason.
Updated(r) ==
  /\ Len(states) = 1 /\ ~Gone(Newest)
  /\ Effect(r, Newest.status).updated
  /\ Publish([Newest EXCEPT !.status = Effect(r, Newest.status).status])
  /\ UNCHANGED budget

NothingToDo(r) ==
  /\ \E i \in 1..Len(states) :
       ~Gone(states[i]) => ~Effect(r, states[i].status).updated
  /\ UNCHANGED <<states, queued, budget>>

UpdateFails == Spend("unwritten") /\ UNCHANGED <<states, queued>>

-----------------------------------------------------------------------------
(***************************************************************************)
(* A reconcile pass.                                                       *)
(***************************************************************************)

\* GetAllPresentVersions; and LocalApplication.IsDeployed of each of them.
PresentVersions == { v \in Versions : res[v] # "absent" }

DeployedVersions == { v \in PresentVersions : res[v] = "all" }

\* LoadApplication on the object the cache holds.
Load(o) ==
  [status   |-> o.status,
   present  |-> PresentVersions,
   deployed |-> DeployedVersions,
   health   |-> health,
   target   |-> Target]

\* Mutant: the deletion timestamp is looked at last.
BranchDeleteLast(o) ==
  IF Gone(o) THEN "skip"
  ELSE IF o.status.owner = None THEN "initialize"
  ELSE IF ~o.finalizer THEN (IF o.deleting THEN "skip" ELSE "finalizer")
  ELSE IF ShouldHandle(Load(o)) THEN "derive"
  ELSE IF o.deleting THEN "cleanup" ELSE "skip"

\* The branches of Reconcile on the object the cache holds.
Branch(o) ==
  IF Gone(o) THEN "skip"
  ELSE IF o.status.owner = None THEN "initialize"
  ELSE IF o.deleting THEN (IF o.finalizer THEN "cleanup" ELSE "skip")
  ELSE IF ~o.finalizer THEN "finalizer"
  ELSE IF ShouldHandle(Load(o)) THEN "derive" ELSE "skip"

PassSkip ==
  /\ pass.pc = "idle" /\ queued /\ Branch(Cached) = "skip"
  /\ queued' = FALSE
  /\ UNCHANGED <<states, pass, job, budget, panicked, beside, cluster>>

\* InitializeState; it is enqueued again whatever came of it.
PassInitialize ==
  /\ pass.pc = "idle" /\ queued /\ Branch(Cached) = "initialize"
  /\ LET r == [kind |-> "initialize"] IN Updated(r) \/ NothingToDo(r) \/ UpdateFails
  /\ UNCHANGED <<pass, job, panicked, beside, cluster>>

\* addFinalizer; the copy of an outdated cache is refused.  Enqueued again.
PassAddFinalizer ==
  /\ pass.pc = "idle" /\ queued /\ Branch(Cached) = "finalizer"
  /\ IF Len(states) = 1 THEN Publish([Newest EXCEPT !.finalizer = TRUE])
     ELSE UNCHANGED <<states, queued>>
  /\ UNCHANGED <<pass, job, budget, panicked, beside, cluster>>

\* jobs.Stop.  A deployment in the middle of a sync goes on until that is over.  A job
\* that JobWorker.Run has not given its cancelFunc yet is not cancelled.  A job that has
\* ended may be about to delete its entry, whosever that is by then.  One such race at a
\* time is modelled.
StopJob ==
  /\ job' = None
  /\ \/ UNCHANGED <<beside, budget>>
     \/ /\ job # None /\ job.type = "Deployment" /\ job.pc = "sync"
        /\ stray = None /\ Spend("stray")
        /\ stray' = job.chart
        /\ UNCHANGED <<untracked, late>>
     \/ /\ job # None /\ job.pc = "start"
        /\ untracked = None /\ ~late /\ Spend("race")
        /\ untracked' = [job EXCEPT !.stopped = TRUE]
        /\ UNCHANGED <<late, stray>>
     \/ /\ job # None /\ job.pc = "finished"
        /\ untracked = None /\ ~late /\ Spend("race")
        /\ late' = TRUE
        /\ UNCHANGED <<untracked, stray>>

\* Mutant: the job is not stopped.
PassCleanupOnly ==
  /\ pass.pc = "idle" /\ queued /\ Branch(Cached) = "cleanup"
  /\ queued' = FALSE
  /\ pass' = [IdlePass EXCEPT !.pc = "cleanup", !.seen = Cached]
  /\ UNCHANGED <<states, job, beside, res, going, health, target, budget, panicked>>

\* Mutant: the object is released at once.
PassCleanupReleases ==
  /\ pass.pc = "idle" /\ queued /\ Branch(Cached) = "cleanup"
  /\ queued' = FALSE
  /\ pass' = [IdlePass EXCEPT !.pc = "release", !.seen = Cached]
  /\ StopJob
  /\ UNCHANGED <<states, res, going, health, target, panicked>>

\* resourceCleanup: the job is stopped ...
PassCleanup ==
  /\ pass.pc = "idle" /\ queued /\ Branch(Cached) = "cleanup"
  /\ queued' = FALSE
  /\ pass' = [IdlePass EXCEPT !.pc = "cleanup", !.seen = Cached]
  /\ StopJob
  /\ UNCHANGED <<states, res, going, health, target, panicked>>

\* ... the resources are deleted, or some cannot be, which is not an error; an
\* error ends the pass ...
PassDelete ==
  /\ pass.pc = "cleanup"
  /\ \/ /\ going' = PresentVersions
        /\ pass' = [pass EXCEPT !.pc = "release"]
        /\ UNCHANGED <<queued, budget>>
     \/ /\ Spend("fault")
        /\ pass' = [pass EXCEPT !.pc = "release"]
        /\ UNCHANGED <<queued, going>>
     \/ /\ Spend("fault")
        /\ pass' = IdlePass
        /\ queued' = TRUE
        /\ UNCHANGED going
  /\ UNCHANGED <<states, job, beside, res, health, target, panicked>>

\* ... and the finalizer is removed, unless the copy is outdated by now.
PassRelease ==
  /\ pass.pc = "release"
  /\ pass' = IdlePass
  /\ IF pass.seen = Newest
     THEN Publish([status |-> None, finalizer |-> FALSE, deleting |-> TRUE])
     ELSE states' = states /\ queued' = TRUE
  /\ UNCHANGED <<job, budget, panicked, beside, cluster>>

\* Get and LoadApplication.
PassLoad ==
  /\ pass.pc = "idle" /\ queued /\ Branch(Cached) = "derive"
  /\ queued' = FALSE
  /\ pass' = [IdlePass EXCEPT !.pc = "derive", !.app = Load(Cached)]
  /\ UNCHANGED <<states, job, budget, panicked, beside, cluster>>

\* GetCurrent, and the condition the job shows.
JobCondition ==
  IF job = None THEN None
  ELSE [type |-> job.type, cond |-> [word |-> job.word, msg |-> job.msg]]

\* DoReconcile: GetCurrent and DeriveNewStatus.  fresh holds the conditions the
\* pass made up itself; only these have a time of their own.
PassDerive ==
  LET result  == DeriveNewStatus(pass.app, JobCondition)
      old     == GetOrCreateStatusFor(pass.app.status, Self)
      section == GetOrCreateStatusFor(result.status, Self)
  IN  /\ pass.pc = "derive"
      /\ IF Cardinality(result.jobs) > 1
         THEN pass' = IdlePass /\ queued' = TRUE /\ panicked' = TRUE
         ELSE /\ pass' = [pass EXCEPT !.pc = "stop",
                 !.new = IF result.updated THEN result.status ELSE None,
                 !.job = IF result.jobs = {} THEN None
                         ELSE CHOOSE type \in result.jobs : TRUE,
                 !.fresh = { c \in CondTypes : old.conds[c] = None
                                                 /\ section.conds[c] # None }]
              /\ UNCHANGED <<queued, panicked>>
      /\ UNCHANGED <<states, job, budget, beside, cluster>>

\* The first loop over JobsToAdd.
PassStop ==
  /\ pass.pc = "stop"
  /\ pass' = [pass EXCEPT !.pc = IF pass.new = None THEN "execute" ELSE "write"]
  /\ IF pass.job # None /\ job # None /\ job.type # pass.job
     THEN StopJob ELSE UNCHANGED <<job, beside, budget>>
  /\ UNCHANGED <<states, queued, res, going, health, target, panicked>>

\* The status update; a failure is made up for by another pass.
PassWrite ==
  /\ pass.pc = "write"
  /\ \/ /\ \E later \in SUBSET pass.fresh :
             LET r == [kind |-> "merge", new |-> pass.new, later |-> later]
             IN  Updated(r) \/ NothingToDo(r)
        /\ pass' = [pass EXCEPT !.pc = "execute", !.new = None, !.fresh = {}]
     \/ /\ UpdateFails
        /\ pass' = [pass EXCEPT !.pc = "execute", !.new = None, !.fresh = {},
                                !.again = TRUE]
  /\ UNCHANGED <<job, panicked, beside, cluster>>

Job(type, chart) ==
  [type |-> type, pc |-> "start", attempt |-> 1, isDone |-> FALSE, stopped |-> FALSE,
   chart |-> chart, word |-> InitialCondition(type).word, msg |-> "initial"]

NewDeployJob(app) == Job("Deployment", DeriveTargetVersion(app))

NewUndeployJob(app) == Job("Undeployment", None)

\* The operation job keeps the status it was made from.
NewLocalOperationJob(app) == Job("Local", ActiveVersion(app))

NewLocalPlacementJob(app) == Job("Placement", None)

\* The job the factory makes.
CreateJob(type, app) ==
  CASE type = "Deployment"   -> NewDeployJob(app)
    [] type = "Undeployment" -> NewUndeployJob(app)
    [] type = "Local"        -> NewLocalOperationJob(app)
    [] type = "Placement"    -> NewLocalPlacementJob(app)

\* The second loop over JobsToAdd.
PassExecute ==
  /\ pass.pc = "execute"
  /\ pass' = IdlePass
  /\ queued' = (queued \/ pass.again)
  /\ job' = IF pass.job = None \/ (job # None /\ job.type = pass.job) THEN job
            ELSE CreateJob(pass.job, pass.app)
  /\ UNCHANGED <<states, budget, panicked, beside, cluster>>

PassStep ==
  \/ PassSkip \/ PassInitialize \/ PassAddFinalizer
  \/ PassCleanup \/ PassDelete \/ PassRelease
  \/ PassLoad \/ PassDerive \/ PassStop \/ PassWrite \/ PassExecute

-----------------------------------------------------------------------------
(***************************************************************************)
(* The job.                                                                *)
(***************************************************************************)

(***************************************************************************)
(* Each step is one of job j, the registered or the untracked one, and     *)
(* makes it j2.                                                            *)
(***************************************************************************)

Ready(j, type) == j # None /\ j.type = type /\ j.pc \in {"start", "run"}

\* A deployment in the middle of a sync.
Applying(j) == j # None /\ j.type = "Deployment" /\ j.pc = "sync"

\* Fail, Success, AttemptFailure and Progress: the job shows a new condition and
\* is about to report it; done tells whether it returns afterwards.
Show(j, j2, word, msg, done) ==
  j2 = [j EXCEPT !.pc = "report", !.word = word, !.msg = msg, !.isDone = done]

\* Mutant: one attempt too many.
MaybeRetryOnceMore(j, j2, word) ==
  j2 = IF j.attempt <= RetryAttempts
       THEN [j EXCEPT !.pc = "report", !.word = word, !.msg = "retry", !.attempt = @ + 1]
       ELSE [j EXCEPT !.pc = "report", !.word = "Failure", !.msg = "failed", !.isDone = TRUE]

\* Retry while attempts are left, else fail.  word is the one of a job under way.
MaybeRetry(j, j2, word) ==
  j2 = IF j.attempt < RetryAttempts
       THEN [j EXCEPT !.pc = "report", !.word = word, !.msg = "retry", !.attempt = @ + 1]
       ELSE [j EXCEPT !.pc = "report", !.word = "Failure", !.msg = "failed", !.isDone = TRUE]

\* LocalPlacementJob.Run
PlacementRun(j, j2) ==
  /\ Ready(j, "Placement")
  /\ Show(j, j2, "Done", "initial", TRUE)
  /\ UNCHANGED <<states, queued, budget, cluster>>

\* DeployJob.runSyncCycle: SyncVersion begins ...
DeploySync(j, j2) ==
  /\ Ready(j, "Deployment")
  /\ j2 = [j EXCEPT !.pc = "sync"]
  /\ UNCHANGED <<states, queued, budget, cluster>>

\* Sync with pruning: what is left are the resources of version v.  A resource
\* that was being deleted has been created anew, or is still on its way out.
Synced(v) ==
  /\ res' = [u \in Versions |-> IF u = v THEN "all" ELSE "absent"]
  /\ going' \in {{}, IF going = {} THEN {} ELSE {v}}

\* Some of the resources of version v have appeared, or gone, or not.
Partly(v, from) ==
  res' \in {res, IF res[v] = from THEN [res EXCEPT ![v] = "some"] ELSE res}

\* ... and all resources are there,
DeploySucceeds(j, j2) ==
  /\ Applying(j)
  /\ Synced(j.chart)
  /\ Show(j, j2, "Done", "done", TRUE)
  /\ UNCHANGED <<states, queued, health, target, budget>>

\* or it fails,
DeployFails(j, j2) ==
  /\ Applying(j)
  /\ Spend("fault")
  /\ Partly(j.chart, "absent")
  /\ Show(j, j2, "Failure", "failed", TRUE)
  /\ UNCHANGED <<states, queued, going, health, target>>

\* or resources are missing: it polls again, or has waited for too long.
DeployIncomplete(j, j2) ==
  /\ Applying(j)
  /\ Spend("fault")
  /\ res' = [res EXCEPT ![j.chart] = "some"]
  /\ \/ j2 = [j EXCEPT !.pc = "run"]
     \/ MaybeRetry(j, j2, "Pull")
  /\ UNCHANGED <<states, queued, going, health, target>>

\* UndeployJob.runInner: everything is deleted, or nothing was there,
UndeploySucceeds(j, j2) ==
  /\ Ready(j, "Undeployment")
  /\ going' = PresentVersions
  /\ Show(j, j2, "Done", "done", TRUE)
  /\ UNCHANGED <<states, queued, res, health, target, budget>>

\* or an error occurs or some resource cannot be deleted in time,
UndeployFails(j, j2) ==
  /\ Ready(j, "Undeployment")
  /\ Spend("fault")
  /\ \E v \in Versions : Partly(v, "all")
  /\ MaybeRetry(j, j2, "Undeploy")
  /\ UNCHANGED <<states, queued, going, health, target>>

\* or some resource could not be deleted, and there is time left.
UndeployProgress(j, j2) ==
  /\ Ready(j, "Undeployment")
  /\ Spend("fault")
  /\ \E v \in Versions : Partly(v, "all")
  /\ Show(j, j2, j.word, "progress", FALSE)
  /\ UNCHANGED <<states, queued, going, health, target>>

\* GetAggregatedStatus of version v, the worst health of its resources: a missing
\* one is better than a degraded or an unknown one, and worse than the others.
AggregatedStatus(v) ==
  IF res[v] = "all" \/ (res[v] = "some" /\ health \in {"Degraded", "Unknown"})
  THEN health ELSE "Missing"

\* LocalOperationJob.runInner.  A suspended application is shown to the passes, but
\* not reported.
OperationCheck(j, j2) ==
  LET word == AggregatedStatus(j.chart)
  IN  /\ Ready(j, "Local")
      /\ IF Target # j.chart THEN Show(j, j2, "Progressing", "newVersion", TRUE)
         ELSE IF word \in {"Healthy", "Progressing"} THEN Show(j, j2, word, "state", FALSE)
         ELSE IF word \in {"Degraded", "Unknown", "Missing"} THEN Show(j, j2, word, "failed", TRUE)
         ELSE j2 = [j EXCEPT !.pc = "run", !.word = word, !.msg = "health"]
      /\ UNCHANGED <<states, queued, budget, cluster>>

\* DetermineTargetVersion fails.
OperationFails(j, j2) ==
  /\ Ready(j, "Local")
  /\ Spend("fault")
  /\ Show(j, j2, "Degraded", "failed", TRUE)
  /\ UNCHANGED <<states, queued, cluster>>

\* What the job asks the status updater for.
ReportRequest(j) ==
  LET cond == [word |-> j.word, msg |-> j.msg]
  IN  IF j.type = "Placement" THEN [kind |-> "placement", cond |-> cond]
      ELSE [kind |-> "condition", type |-> j.type, cond |-> cond,
            remove |-> {"Deployment", "Undeployment", "Local"} \ {j.type}]

\* updateStatus; a failure is only logged, and the placement job shows it.
JobReport(j, j2) ==
  /\ j # None /\ j.pc = "report"
  /\ LET next == [j EXCEPT !.pc = IF j.isDone THEN "finished" ELSE "run"]
     IN  \/ /\ Updated(ReportRequest(j)) \/ NothingToDo(ReportRequest(j))
           /\ j2 = next
        \/ /\ UpdateFails
           /\ j2 = IF j.type = "Placement"
                   THEN [next EXCEPT !.word = "Failure", !.msg = "failed"] ELSE next
  /\ UNCHANGED cluster

\* The steps of AsyncJob.Run.
RunStep(j, j2) ==
  \/ PlacementRun(j, j2)
  \/ DeploySync(j, j2) \/ DeploySucceeds(j, j2) \/ DeployFails(j, j2) \/ DeployIncomplete(j, j2)
  \/ UndeploySucceeds(j, j2) \/ UndeployFails(j, j2) \/ UndeployProgress(j, j2)
  \/ OperationCheck(j, j2) \/ OperationFails(j, j2)
  \/ JobReport(j, j2)

\* JobWorker.Run: the job runs, returns and leaves the registry.
JobStep ==
  /\ \/ RunStep(job, job')
     \/ /\ job # None /\ job.pc = "finished"
        /\ job' = None
        /\ UNCHANGED <<states, queued, budget, cluster>>
  /\ UNCHANGED <<pass, beside, panicked>>

\* The same for the untracked job.  If it was evicted and not stopped, its cleanup takes
\* a job of the same type for itself.
UntrackedStep ==
  /\ \/ RunStep(untracked, untracked') /\ UNCHANGED late
     \/ /\ untracked # None /\ untracked.pc = "finished"
        /\ untracked' = None
        /\ late' = (~untracked.stopped /\ job # None /\ job.type = untracked.type)
        /\ UNCHANGED <<states, queued, budget, cluster>>
  /\ UNCHANGED <<pass, job, stray, panicked>>

\* The cleanup deletes the entry of the application: a job that is registered by now is
\* evicted and goes on.
LateDelete ==
  /\ late
  /\ late' = FALSE
  /\ job' = None
  /\ untracked' = job
  /\ UNCHANGED <<states, queued, pass, stray, budget, panicked, cluster>>

-----------------------------------------------------------------------------
(***************************************************************************)
(* The rest of the world.                                                  *)
(***************************************************************************)

\* A scheduler places the application; another zone reports.
Move(places) ==
  /\ Spend("move") /\ ~Gone(Newest)
  /\ places # Newest.status.placements
  /\ Publish([Newest EXCEPT !.status.placements = places])
  /\ UNCHANGED <<pass, job, panicked, beside, cluster>>

PeerReport(z, section) ==
  /\ Spend("report") /\ z # Self /\ ~Gone(Newest)
  /\ Publish([Newest EXCEPT !.status.zones[z] = section])
  /\ UNCHANGED <<pass, job, panicked, beside, cluster>>

\* The user deletes the object: without a finalizer it is gone at once.
Delete ==
  /\ Spend("delete") /\ ~Gone(Newest) /\ ~Newest.deleting
  /\ Publish([Newest EXCEPT !.deleting = TRUE,
                            !.status = IF Newest.finalizer THEN @ ELSE None])
  /\ UNCHANGED <<pass, job, panicked, beside, cluster>>

\* A newer chart version is found in the repository.
Upgrade ==
  /\ Spend("upgrade")
  /\ target' = target + 1
  /\ UNCHANGED <<states, queued, pass, job, beside, res, going, health, panicked>>

\* The health of the resources changes; resources are lost.
HealthChange ==
  /\ Spend("sick")
  /\ health' \in Healths \ {health}
  /\ UNCHANGED <<states, queued, pass, job, beside, res, going, target, panicked>>

Loss(v, left) ==
  /\ Spend("loss") /\ res[v] = "all"
  /\ res' = [res EXCEPT ![v] = left]
  /\ UNCHANGED <<states, queued, pass, job, beside, going, health, target, panicked>>

\* Resources being deleted disappear, a part of them first or all at once.
Vanish(v, left) ==
  /\ v \in going
  /\ left = "some" => res[v] = "all"
  /\ res' = [res EXCEPT ![v] = left]
  /\ going' = IF left = "absent" THEN going \ {v} ELSE going
  /\ UNCHANGED <<states, queued, pass, job, beside, health, target, budget, panicked>>

\* The sync of a stopped deployment ends.
StrayLands ==
  /\ stray # None
  /\ Synced(stray)
  /\ stray' = None
  /\ UNCHANGED <<states, queued, pass, job, untracked, late, health, target, budget, panicked>>

\* The controller restarts: it lists the objects and has no job.
Crash ==
  /\ Spend("crash")
  /\ states' = <<Newest>>
  /\ queued' = TRUE
  /\ pass' = IdlePass
  /\ job' = None
  /\ untracked' = None /\ late' = FALSE
  /\ stray' = None
  /\ UNCHANGED <<res, going, health, target, panicked>>

Environment ==
  \/ \E places \in Places : Move(places)
  \/ \E z \in Zones, section \in PeerSections : PeerReport(z, section)
  \/ Delete \/ Upgrade \/ HealthChange \/ Crash
  \/ \E v \in Versions, left \in {"some", "absent"} : Loss(v, left)

Progress ==
  \/ PassStep \/ JobStep \/ UntrackedStep \/ LateDelete
  \/ CacheCatchUp \/ Resync \/ StrayLands
  \/ \E v \in Versions, left \in {"some", "absent"} : Vanish(v, left)

Next == Progress \/ Environment

Spec == Init /\ [][Next]_vars

\* No job, or one that polls a suspended application and finds nothing new.
Quiet(j) ==
  j = None \/ (Ready(j, "Local") /\ Target = j.chart /\ AggregatedStatus(j.chart) = "Suspended"
               /\ j.pc = "run" /\ j.word = "Suspended" /\ j.msg = "health")

\* The work queue is served, jobs run and poll, the watch delivers, resyncs come
\* in the end, and what is being deleted or applied gets there.  The first three
\* conjuncts are weak fairness of PassStep, JobStep and UntrackedStep, with the
\* condition under which they can change the state written out.
FairSpec ==
  /\ Spec
  /\ []<>(pass.pc = "idle" /\ ~queued) \/ []<><<PassStep>>_vars
  /\ []<>Quiet(job) \/ []<><<JobStep>>_vars
  /\ []<>Quiet(untracked) \/ []<><<UntrackedStep>>_vars
  /\ WF_vars(CacheCatchUp) /\ WF_vars(Resync)
  /\ WF_vars(StrayLands) /\ WF_vars(LateDelete)
  /\ \A v \in Versions : WF_vars(Vanish(v, "absent"))

-----------------------------------------------------------------------------
(***************************************************************************)
(* Properties.                                                             *)
(***************************************************************************)

Levels == {"absent", "some", "all"}

Objects == [status : Statuses \cup {None}, finalizer : BOOLEAN, deleting : BOOLEAN]

Passes ==
  [pc : {"idle", "cleanup", "release", "derive", "stop", "write", "execute"},
   app : Apps \cup {None}, seen : Objects \cup {None}, new : Statuses \cup {None},
   job : CondTypes \cup {None}, fresh : SUBSET CondTypes, again : BOOLEAN]

Jobs == [type : CondTypes, pc : {"start", "run", "sync", "report", "finished"},
         attempt : 1..RetryAttempts, isDone : BOOLEAN, stopped : BOOLEAN,
         chart : Versions \cup {None}, word : Words, msg : Msgs]

TypeOK ==
  /\ states \in Seq(Objects) /\ Len(states) \in 1..(MaxLag + 1)
  /\ queued \in BOOLEAN /\ panicked \in BOOLEAN
  /\ pass \in Passes
  /\ job \in Jobs \cup {None} /\ untracked \in Jobs \cup {None} /\ late \in BOOLEAN
  /\ stray \in Versions \cup {None}
  /\ res \in [Versions -> Levels]
  /\ going \in SUBSET Versions
  /\ health \in Healths
  /\ target \in 1..Len(Charts)
  /\ budget \in [left : [EventKinds -> Nat], happened : SUBSET EventKinds]

\* updateState and NextJobs.Add: the local and the global state machine never
\* ask for a job each in the same pass, which NextJobs.Add answers with a panic.
NoDoubleSchedule == ~panicked

\* An event of the kind has happened.
Happened(kind) == kind \in budget.happened

\* resourceCleanup: once the object is gone no job is registered for it, and none goes
\* on elsewhere that could deploy it again, unless the cancellation of a job was missed
\* (jobs.go:105), a job was evicted (jobs.go:44) or a stopped sync went on.
NoJobWithoutObject ==
  Gone(Newest) => /\ job = None
                  /\ (untracked = None /\ stray = None) \/ Happened("race") \/ Happened("stray")

\* resourceCleanup: once the object is gone, what is left of its resources is on
\* its way out, unless a deletion failed, a stopped sync went on, or a job the
\* registry lost did.
OrphansExplained ==
  Gone(Newest) => \/ PresentVersions \subseteq going
                  \/ \E kind \in {"fault", "stray", "race"} : Happened(kind)

\* LocalFSM.NextState: the application is only taken down on request.  Restarts,
\* stale caches, failed writes, failing health and lost resources do not do it.
NoUnaskedUndeploy ==
  (\A kind \in {"move", "upgrade", "delete"} : ~Happened(kind))
    => going = {} /\ \A j \in {job, untracked} : j # None => j.type # "Undeployment"

Placed == ~Gone(Newest) /\ PlacementsContainZone(Newest.status, Self)

\* The cluster is as the object says: placed here, the target version and no
\* other is deployed; placed elsewhere, or gone, nothing is.
Settled ==
  \A v \in Versions :
    IF Placed /\ v = Target THEN res[v] = "all" /\ v \notin going
    ELSE res[v] = "absent"

\* When the environment calms down, the passes and the jobs bring the cluster
\* to what the object asks for, and it stays so.
Converges == <>[]Settled

\* The own section reports the health of the deployed application, but for a suspended
\* one: LocalOperationJob does not write that, and a pass leaves a condition that is
\* there alone, so the health from before stays in the status.
Reported ==
  Placed => /\ ZoneExists(Newest.status, Self)
            /\ LET cond == Newest.status.zones[Self].conds["Local"]
               IN  cond # None /\ (cond.word = health \/ health = "Suspended")

\* LocalOperationJob and handleOperation: the zone comes to report the health its
\* application has unless that is suspended, also after a restart and after resources were lost.
HealthReported == <>[]Reported

\* resourceCleanup: an object being deleted goes away, whatever fails for a while.  A
\* version that cannot be rendered any more fails every cleanup, see AppSync.
DeletionCompletes == Newest.deleting ~> Gone(Newest)

=============================================================================
