# A verification project for anyapplication-controller

anyapplication-controller is a Kubernetes operator that runs in every zone of a
mesh of clusters. An `AnyApplication` object names a Helm chart and says how many
zones it should run in; its status names the owner zone, the zones it is placed in,
and has a section per zone in which only that zone writes. The controller of a zone
reads the object, compares it with its own cluster, runs deploy, undeploy, placement
and operation jobs, and reports. This directory models the controller in TLA+, checks
small instances with TLC and proves theorems about the models with TLAPS.

## The system

| Part | State | Operations | Meets others through |
|---|---|---|---|
| Reconciler (`internal/controller/anyapplication_controller.go`) | none of its own | `Reconcile`: initialise the status, finalizer, clean up, derive a status, stop and start a job | the object (through the informer cache), the job registry, the cluster; one pass at a time |
| State machines (`internal/controller/global`) | none | `DeriveNewStatus`, `LocalFSM.NextState`, `GlobalFSM.NextState` | called by a pass; their job and status go to the reconciler |
| Job registry (`internal/controller/job/jobs.go`) | a concurrent map application -> worker; `stopped` and `cancelFunc` of each worker | `Execute`, `GetCurrent`, `Stop`, `StopAll` | the reconcile goroutine and one goroutine per job |
| Jobs (`internal/controller/job/*_job.go`) | the condition a job shows, attempts, start time | `Run` with its polls, retries, reports | the cluster, the status updater; stopped by the reconciler |
| Status and status updater (`api/v1`, `internal/controller/status`) | the status in the API server | `UpdateStatus`: a read-modify-write loop on cached copies | every job, the reconciler, the other zones and the scheduler write the same object |
| Application sync (`internal/controller/sync/applications.go`, `sync/health.go`, `local/`) | a cache of rendered charts; the cluster cache of the GitOps engine | `SyncVersion`, `Cleanup`, `LoadApplication`, `GetAggregatedStatus`, `DetermineTargetVersion` | called by passes and jobs |
| Chart registry (`internal/controller/sync/charts.go`) | a concurrent map chart -> concurrent map of versions | `AddAndGetLatest`, `RunSynchronization` | passes, jobs, HTTP handlers and a goroutine of its own |
| Helm client (`internal/helm`) | registered repositories and index files, kept by the helm library | `AddOrUpdateChartRepo`, `SyncRepositories`, `FetchVersions`, `Template` | called by passes, jobs, handlers and the chart registry at once |
| Specification of an application (`internal/resources`, `httpapi`) | none | `GetApplicationSpec`: render, then add up what workloads ask for | HTTP handlers, through the cache of rendered charts |
| Status reports, configuration, start-up | | | read-only or I/O, see "Not modelled" |

What is hard here: three kinds of goroutines share two concurrent maps without a lock;
a stopped job goes on for a while; passes decide on a copy of the object that may be
old and write into the newest; the job registry is lost with a restart while the status
stays; nothing wakes the reconciler but a write of the object or the ten-hour resync;
other zones and a scheduler write the same object at any time; what is in the cluster is
read from a cache that trails behind it; goroutines share index files on disk that
are truncated before they are written.

What makes each part correct: the registry loses no job and blocks no later one; a
status write loses nothing written by others, and a cancelled job undoes nothing; zone
versions are never reused, so that other zones can tell the newer copy; the two state
machines never ask for two jobs; no event other than a request takes an application
down; the cluster comes to what the object says, and the section to what the cluster
is; a deleted object goes away; the resolved chart version is the newest that fits;
a job reaches only resources of its own application, and what it reports of them is
true; charts come from the repository they were asked of, and each of their
objects is found again in the cluster.
`PROJECT.json` lists the hazards line by line, with the properties aimed at them.

## The modules

`AsyncJobs` is the job registry. Every map operation, the compare-and-swap on
`stopped`, and the call of a cancel function is an action; a worker has a program
counter through `JobWorker.Run` and `Stop`. The reconcile goroutine (`caller`) is in
the module because it is the only caller of `Execute` and `Stop`, and its two looks at
the registry are the guards: `Inspect` and `StopTake` to `StopCleanup` are the first
loop over `JobsToAdd`, `Recheck` and `Execute` the second, `CleanupBegin` the `Stop` of
`resourceCleanup`. `cancelFunc` is assigned by `Run` and read by `Stop` without
synchronisation, so a `Stop` may see it or not (`StopCancel`, `StopMiss`). `evicted`
and `missed` are history variables for the two ways in which the code loses a job.

`AppStatus` holds the status as a record and, as operators, what the code does with it:
zone sections, conditions, `IncrementZoneVersion`, and `Effect`, what each update
function passed to `UpdateStatus` returns (`InitializeState`, `mergeStatus`,
`AddOrUpdateStatusCondition` of a job, the report of the placement job).
A condition is its status word and a message class. Of the times only the comparison
in `mergeStatus` is left: `later` is the set of conditions a pass made that are
newer than the existing ones.

`StatusUpdater` is `UpdateStatus` as steps `Get`, `Check`, `Write`, `Conflict`, `Fail`
of any number of jobs and the reconciler, on a log of all states of the object with an
index for what the cache holds. Other zones, the scheduler and edits append to the log
(external). `AtomicStatus` is the abstract specification: a pending request is applied
to the newest status in one step, or dropped. `StatusUpdater` implements it with
`Newest.status` and the requests of the threads as the mapping.

`AppFsm` has the state machines as pure operators, from a record of what
`LoadApplication` found. `ZoneController` extends it to the controller of one zone:
a pass is `PassLoad`, `PassDerive`, `PassStop`, `PassWrite`, `PassExecute` (or one of
the early returns), since the object, the jobs and the cluster may change between any
two of them; each job's run is a few actions (`DeploySync`, `DeploySucceeds`, ...), its
report another. The cluster is, for every chart version, whether none, some or all
of its resources are there (`res`), and which are being deleted (`going`). The object
is the sequence of states from the one the cache holds to the newest. `UpdateStatus`
is one step, as proved of `StatusUpdater`. Stopping a job is one step too, but what
`AsyncJobs` finds of it can happen here: a stopped deployment may still finish its sync
(`stray`), a job whose cancellation is missed goes on without being registered
(`untracked`), and so does one that the late `Delete` of another's cleanup (`late`) evicts.
An untracked job takes the same steps as a registered one, reports included; one such
race at a time is modelled.

`Charts` is the chart registry with clients and the periodic synchronization: `Load`,
`Store`, `Range` and each added version are separate steps. A client that is answered
without version and without error (`DetermineTargetVersion` returns the outer `err`)
has the result `Nil`.

`AppSync` is what `Applications` does to single resources: `live` is the cluster, `cache`
the cluster cache that trails it by at most `MaxBehind` resources, `appCache` the cache of
rendered charts. A resource has the instance id and the chart version of its labels and may be
on its way out. A worker is a deploy job (`Look`, `Render`, `Apply`, `Prune`, `ReadBack`:
`SyncVersion` with `getOrRenderAppVersion`, the engine's sync and the read-back that
decides whether the job is done) or an undeploy job (`Cleanup`, `DeleteVersion`, `Delete`
and `EndLoop`, which are the two loops of `deleteApp`, `EndCleanup`). One call of the API server, one read of the cache or one map
operation is a step. `DetermineState` and `AggregatedStatus` are the two computations of
health. A version is its number and whether the string it came from had a leading v;
`InstanceId` works on the words of namespace and name. The cluster (external) makes pods,
collects them, loses resources and labels; a version may be withdrawn from the repository.
`ZoneController` composes the outcome of these jobs with the reconciler; timeouts and
attempts are there.

`Manifests` has, as pure operators, the way from the text of a chart to resources
(`PostProcessManifests`, `Render`) and to the totals of `GetApplicationSpec`
(`ParseSpec`). A text is the sequence of its pieces between three dashes.
`HelmClient` extends it to goroutines that call the helm client: `repos` and `index` are the
library's repository file and its index files, truncated in one step and written in another;
`call` is where each goroutine is, `answer` what its last call came to. The helm library is
external: `replaces` says whether `AddOrUpdateChartRepo` replaces an entry of the same name
or keeps it, and both are checked.

The modules `MC...` give constants their values, and `...Proofs` hold the theorems.
Operators marked "Mutant" in the modules are plausible wrong versions of the definition
after them; each property is violated when its mutant takes the definition's place.

## The runs

| Run | Checks | Shows |
|---|---|---|
| `AsyncJobs` | TypeOK, LiveJobsAreTracked, NothingOverwritten, NoDeadEntry, FinishedJobLeaves, CancelledJobEnds | pass |
| `AsyncJobsDouble` | NoDoubleStart | violated: a worker's late `Delete` evicts its successor |
| `StatusUpdater` | TypeOK, ZoneVersionsFresh, CancelledNeverOverwrites, ImplementsAtomicStatus | pass |
| `ZoneSafety` | NoDoubleSchedule, NoJobWithoutObject, OrphansExplained, NoUnaskedUndeploy | pass: a deletion under a lagging cache, with a failed write, a restart and a peer's report or a stopped sync that goes on, or with a job the registry loses |
| `ZoneRelocation` | TypeOK, Converges | pass: moves, with failing jobs and a restart or with a job the registry loses; or a new version at any moment, lost resources and a deletion |
| `ZoneHealing` | HealthReported, DeletionCompletes | pass: five mixes of at most four of a failing job, a restart, lost resources, changing health, a deletion and a job the registry loses |
| `ZoneStale` | HealthReported | violated: a pass on an old copy erases the recorded chart version |
| `ZoneUpgradeCrash` | Converges | violated: a restart in the middle of an upgrade |
| `ZoneWithdrawn` | Converges | violated: a placement withdrawn before the first resource |
| `Charts` | TypeOK, BehindOnlyWhenHurried, AnswerUnlessFailed, ForwardOnly, CatchesUp | pass |
| `AppSync` | TypeOK, DoneMeansDoomed, Isolated, HealthsAgree, SyncSucceeds, CleanupCompletes | pass: a stopped job beside its successor; a failing call with lost resources; lost labels; a restart with a withdrawn version |
| `HelmClient` | TypeOK, OwnRepository, FetchFresh, LoneCallSucceeds, RenderedFindable, SpecAddsUp, CallsDescend, CallsEnd | pass: two goroutines, a failing call, a new version, a new kind |

The bounds. Three workers in a row: the first can be late with its cleanup when the
second is registered, and the third is the double start; workers are allocated in a
fixed order, since they are interchangeable. One job and the reconciler write the status:
the registry runs one job per application, and a late one is what the cancellation is
about; four states of the object let the section be created, removed and created again.
`Budgets` is a set of scenarios, each of which says how often each kind of event may happen.
In the zone runs these are one or two of
each kind (in the combinations named above: every cause of trouble once, and a move away
and back); jobs try twice instead of three times. The cache lags by one
state in `ZoneSafety` and in `ZoneStale`; in the other zone runs it does not lag, since the
liveness they check fails with a lag, which is what `ZoneStale` shows. Two
clients and two versions are the least for a half filled object, a third version is
published later, and one call of the repository fails. A counter such as
`attempt` or the resource version is bounded by these constants.

In `AppSync` two workers are the most that act at a time, one stopped and one active; the
first version of the chart has a resource the second has not (pruning), the other application
lives in the same namespace, under a name that begins alike; the second version is a tagged one. The
cluster cache is behind on one resource at a time. The health of the deployment is a bad one or
cannot be computed, and the config map, which has no health, may be rendered in an API
version the cluster does not prefer. In `HelmClient` the index file is looked at twice instead of ten times, integers of
replicas have 4 bits instead of 32 (`Width`), and every
text of one piece is rendered with a full workload before or after it. Two of its three repositories get the same name and offer different versions.
Its scenarios are a failing call, renderings with a kind installed in between, a synchronization with a version published in between, and a `Template`
after an index file was left empty, has become old, or was written under a name that is taken. Both runs end when
the budget is spent and every job or call is over, so deadlock is not checked in them.

The violated ones are described under "findings" in `PROJECT.json`, each with the
line of the repository it contradicts. In short: the chart version in the status decides which
resources count as the active ones, and when it is not the deployed one (overwritten from
an old copy, not written, or written ahead of an undeployment that did not take place)
`handleUndeploy` is chosen in every pass but starts no job, because it asks for the
active version to be present. A failed status write in the pass that starts the
deployment, and a failed undeployment in the middle of an upgrade, lead to the same
state as `ZoneStale` and `ZoneUpgradeCrash`; they have no run of their own.

`LiveJobsAreTracked`, `BehindOnlyWhenHurried`, `AnswerUnlessFailed` and `ForwardOnly`
state exactly how far the code goes: they name the race that is the only
exception, in a history variable, and would be violated by a second way to get there.
The properties of `AppSync` and `HelmClient` do the same. Their exceptions are what a
maintainer should know:

- `SyncSucceeds`: a chart rendered for a version tagged with a v in the repository, or with a
  resource in an API version the cluster does not prefer, is never
  found deployed, and the job goes on until it times out; a resource whose health
  cannot be computed, and a version that is in the cluster but can no longer be rendered,
  make every read-back fail. The last also stops `CleanupCompletes`.
- `Isolated`: namespace `a` with name `b-c`, and namespace `a-b` with name `c`, are one instance.
- `DoneMeansDoomed`: what the cluster cache did not show yet, or shows without a
  version label, is not deleted.
- `HealthsAgree`: a resource labelled with another version, rendered in another API version than the
  cluster lists, or whose health cannot be computed, counts in one computation and not in the other; a chart that
  renders nothing is healthy to one and unknown to the other.
- `OwnRepository`: two repositories with the same host and last part of the path share a name. By the same code so do hosts that
  differ in a dot against a dash, and a host and last part cut at another dash; the run's repositories have no such hosts, and the theorem excludes them by its hypothesis.
- `LoneCallSucceeds`: `Template` fails for a version its repository does not offer. If the library keeps what is registered under a name,
  `Template` does not download the index again: it also fails when the kept file is empty (after a failed write), lacks a version published since,
  or, like the registered URL, belongs to another repository of the same name.
- `SpecAddsUp`: quantities written as bare numbers (`cpu: 1`) are left out of what the HTTP API shows, without an error; so are
  strings that are no quantities.
- `FetchFresh`: a slow download of another goroutine may put an older index in place.
- `RenderedFindable`: a cluster-scoped kind the cluster does not know yet gets a namespace; an object that names a namespace keeps
  it, whatever its kind; pods of a template in another kind than the four (a `ReplicaSet`, a `CronJob`) do not get the labels.
- `OrphansExplained`: a failed deletion, a stopped sync, or a job whose cancellation was missed or that was evicted can leave
  resources behind after the object is released.
- `NoJobWithoutObject`: once the object is gone no job is registered for it. The same stopped sync or lost job may still be going on, and
  deploys an application without an object. While the object is there, `ZoneRelocation` and `ZoneHealing` show that the controller
  makes up for a lost job.
- `HealthReported`: the operation job does not write the health Suspended (`operational_job.go:116`), and a pass leaves a condition that
  is there alone: the status goes on showing the health the application had before it was suspended.
- `DeletionCompletes`: the object goes away once faults end. A version in the cluster that can no longer be rendered fails every cleanup
  (`CleanupCompletes` of `AppSync` names it), and then the object stays.

## Fairness

`AsyncJobs`: Go runs every runnable goroutine, so the reconcile goroutine and the
workers are weakly fair; a job need not return unless it is cancelled, when every
job's loop selects on `ctx.Done()`. `ZoneController`: the work queue is served, jobs
poll on tickers, the watch delivers, the informer resyncs, resources being deleted
disappear, a sync under way ends, a cleanup goes on. Weak fairness of `PassStep`, `JobStep`
and `UntrackedStep` is written with the condition under which they can change the state
spelled out, since TLC is slow in evaluating ENABLED of so many actions; a job that polls a
suspended application changes nothing (`Quiet`). Nothing is assumed of faults, crashes
or other zones: they may happen, up to their budget, or not. `Charts`: operation jobs poll,
so clients ask again, and the ticker of `RunSynchronization` ticks. There is no
strong fairness anywhere. `AppSync`: jobs go on, a cancelled one notices, the watch of the cluster cache
delivers, what is being deleted goes, and owned resources are collected. `HelmClient`: a
goroutine in a call goes on, since the library's calls have timeouts. Deadlock is checked in all runs but these two.

## What is proved

All proofs are by TLAPS, for every value of the constants that satisfies the named
assumptions: the absent value is none of the others; requests, statuses and sections of
other zones have their types; there is at least one try; chart versions are numbers, finitely
many, and one that fits is published from the start; a new object has no section of
this zone, which nobody else writes; there are more chart versions than upgrades; a repository offers versions, a chart's text is made
of pieces whose objects have the usual fields, with quantities under finitely many names that are numbers, written as strings or bare, or do not parse, and the application has a namespace. The bounds of
the runs (lag, budget, number of workers, clients, goroutines, tries) are arbitrary in the proofs.

`AsyncJobsProofs`, for any applications, job types and workers. `IInv` adds to the three safety
properties what they need to be inductive: the victim of a `Stop` is a worker of the
application at hand (`CallerOK`), contexts exist only after `Run` (`WorkersOK`), an
entry has not ended (`RegistryOK`), a victim found stopped is cleaning up itself
(`VictimOK`), and at the second look the entry is empty or of the wanted type
(`RecheckOK`): this last one is why `Execute` overwrites nothing although it does not look. One lemma
for the reconcile goroutine, one for workers, one for `StopAll`. Theorems: `TypeCorrect`,
`Tracked`, `NoOverwrite`, `NoDead`.

`AppStatusProofs`: lemmas on the operators of the status (results are statuses,
`IncrementZoneVersion` yields a version above the resource version it was given and the
section's old version).

`StatusUpdaterProofs`, for any jobs, requests, number of tries and length of the log.
`IInv` says that a call's copy is a state of the log (`CallsOK`), that no version of the own
section exceeds the newest resource version (`VersionsOK`: a removed section leaves no
trace in the object, and only the resource version keeps the next one new), and that a cancelled call that will write
took its copy before it was cancelled (`CancelOK`). Theorems: `TypeCorrect`,
`VersionsFresh`, `LateWriteHarmless` (an action property) and `Refinement` (initial states and steps map
to those of `AtomicStatus`).

`AppFsmProofs`: what the state machines may do, as lemmas about `DeriveNewStatus`. The derived status is a
status with the same placements; the recorded chart version is dropped or changes to the target, the latter only where the application is placed or present;
the job asked for is of the right kind (an undeployment only of what is present, and not placed here or not the active or the target version; a placement only where there is none); and `OneJob`:
if the chart version is recorded only in applications with placements, the two state machines do not both ask for a job.

`ZoneControllerProofs`, for any zones, statuses, chart versions, lag and events. `IInv` has one part per argument.
`HistoryOK`: along the states between cache and API server a deletion is not taken back and the
finalizer goes only with the object. `FinalizerOK`: whatever runs or is deployed was preceded by the finalizer, also when it was decided on an
old copy, so the object cannot vanish under it; `PassOK`: a pass that cleans up has stopped the job. These give, with
`OrphansOK` (resources from their deletion on, and that whatever goes on beside the registered job goes back to a stopped sync or a race of the registry), `JobsEndWithObject` and `NoOrphans`. `ChartOK`: in every copy of the status, the one in a pass included, a recorded chart version
comes with placements; this is the hypothesis of `OneJob` and gives `NoPanic`. `SteadyOK`: before any
move, upgrade or deletion, every copy of the status, the pass, the job and the cluster know only the first chart version, and a placement
once seen is still in the newest status; this gives `UndeployOnRequest`. The lemmas go by actor: what passes, jobs and
the environment do to the object (`ObjectSteps`), to the cluster (`ClusterSteps`), to pass and jobs (`PassSteps`, `JobSteps`, `UntrackedSteps`); a step of a job is treated once, for the registered and the untracked one (`RunObject`, `RunCluster`, `RunJob`); the parts of `IInv` follow from those.

`AppSyncProofs`, for any charts, foreign applications, jobs and lag of the cluster cache. `IInv` is `TypeOK`, `AliensKept` (resources under another instance id are alive in the cluster
and in the cache, which is why they are on no job's list) and `JobsOK`: through both loops of `deleteApp` every resource a cleanup has found, and that
was not created since, is on its list or doomed, until it decides by that list. `HealthsAgree` follows from the types: `WorstFacts` says that the loop of `Worst` computes the maximum of
the codes that count, and two maxima of the same codes are one (`WorstAgree`). Theorems: `TypeCorrect`, `Isolation`,
`UndeploymentThorough`, `OneHealth`.

`ChartsProofs`, for any versions, clients and faults. `LatestFor` says that `GetLatestFor` returns the maximum of the fitting versions for
every order of iteration, by induction over the rounds of the loop: the library's induction theorems take an operator, but the least counterexample of a set of
numbers (`LeastNumber`, from the well-foundedness of `<`) needs none. `IInv` adds what a filled object is (`Filled`: a non-empty object has all
versions published from the start, or someone is adding what it lacks; with no fault nobody resolves an empty one) and that without a replacement everyone holds
the registered object, which contains all answers (`OneObject`). Theorems: `TypeCorrect`,
`BehindExplained`, `NilExplained` and the action property `NeverBack`.

`HelmClientProofs`, for any repositories, goroutines, versions, charts, faults and number of looks at an index file. `IInv` says what the files on the disk
are to the calls that share them. `FilesOK`: what is registered, and what is in an index file, belongs to a repository with that name that was used, and a
registered repository has an index file, if perhaps an empty one. `PlaceOK`: what a call holds at each step, with a look left until it loads. `Single`
and `LoneFiles`: a call that has met nobody is the only one, and the file it is about to read is not empty and, if it has written it itself, has what its repository offered (an entry the library kept is the exception).
`SinceOffered`, `SinceFile`, `SincePage`: the versions a call must find are offered, are in the file it will load, and are in every download
of its repository not written yet, by whichever goroutine; without this last part a pending write could take them back. `MoveStep`, `IndexStep` and `ReturnStep`
treat the steps by what they change, the lemmas of the actions rest on them. Theorems: `TypeCorrect`, `Freshness`,
`LoneSuccess`, and `RepositoryByName`, which is `OwnRepository` under the hypothesis that only
repositories with the same host and last part of the path get the same name. `RenderedObjects` says of any chart text that dropping blank pieces,
processing each piece and splitting gives the processed objects in order: `WithoutAppend` and `ImageAppend` take a text apart piece by piece, and the kind, by
which pieces are dropped, is what `Process` keeps (`ProcessFacts`). With `AnswerOK` (an answer has a chart's text and what was rendered of it) this gives the theorem `Findable`.

`Totalled` is `SpecAddsUp`, for any chart and any names of quantities. The code adds up while it ranges over Go maps, in an order nobody knows: in the model
these are folds over a set of names, which take an arbitrary element at a time. `FoldExists` says that such a fold has the values its definition says on every
subset, `SumTakes` that a sum may be taken apart at any element, so that its order does not matter, and `AddingLoop`, that one call of `AddResources` adds what a
container asks for of each name. `CollectLoop` carries this over the containers, `ParseLoop` over the objects of the chart: what is shown of a workload or of a claim is, for
requests and for limits, the sum of what was asked in strings (`ItemsAddUp`).

`Descent` is the action property `CallsDescend`, the variant behind `CallsEnd`: repositories still to do, then places in the code,
then looks at the index file left. It says for any number of goroutines that no step of another takes a call back, whatever it does to the files. That the steps are
taken is the fairness that stays with TLC.

Induction over loops is on a set of numbers (`CountUp`, from the well-foundedness of `<`), since the library's theorems take an
operator; `LoopExists` says that a recursive function over `0..n` has the values its definition says. Induction over
the subsets of a finite set (`GrowUp`) is on their cardinalities, in the same way.

The inductive invariants were checked with TLC on the runs' instances before they were proved.

Only model-checked: the liveness properties and everything that needs ENABLED, which
the prover does not handle. Every invariant and every action property of the passing runs is stated by a theorem.

## Not modelled, and abstractions

- Error reports (`internal/errorctx`) and `GetApplicationStatus`, which shows them: a read of the cluster cache
  and of logs, then formatting. Configuration, events, start-up and generated code: no state the
  properties are about. The ownership transfer job is a stub that nothing creates.
- The GitOps engine, the helm library and the API server are external; they are modelled by what the code relies on.
  The engine applies and prunes in any order, fails on a resource, leaves the rest, or ends with an error. In `ZoneController`
  a sync with pruning leaves the resources of one version (`Synced`), and `Cleanup` marks
  what is present for deletion, and may fail to without an error.
- Chart versions are numbers or model values; pre-releases are not modelled. Edits of values or repository in
  the spec, which give the rendered chart another key, are not modelled (whether to deploy is decided by the
  resources that are present, `local_fsm.go:64`, so such an edit is applied only if it changes which resources there are).
- YAML is abstracted to pieces. An object whose own text contains three dashes is cut by the code; the model keeps such an
  object as one piece and does not tell what of it is lost. Quantities are numbers with a mark whether YAML reads them as strings. A claim is
  recognised by the kind `pvc`, which no object has (`internal/resources/spec_parser.go:50`), so `ParseSpec` never counts one, as in the code.
  The replicas of a claim template are always three, and one without a spec is a nil dereference in the handler (`internal/resources/workload.go:88`), modelled as they are.
- `maxRetries` (README.md:190) is compared with `RetryAttempt`, which no job ever sets: `AppFsm` has the comparison as it is
  (`AttemptsExhausted`), and no property is about the bound.
- In `ZoneController` the versions of zone sections stay 0 (`StatusUpdater` is about them), the
  conflict of `PassRelease` is decided by comparing the object it read with the newest, a
  failing `LoadApplication` is another pass, a status update that is refused in all its rounds is a failed one, a pass that fails
  to read the object is left to the resync, and one application is modelled: applications share
  only the registry, under different keys.
- `Range` over a concurrent map is one step in `Charts`; a specific version is a range of one.

## Plan

1. Done: `AsyncJobs`, `AppStatus`, `StatusUpdater` with its abstract specification, `AppFsm`,
   `ZoneController`, `Charts`, `AppSync` (single resources, health,
   version strings), `HelmClient` and `Manifests`; the proofs of all safety properties.
2. The model: edits of the spec and an object created again under the same name; two zones
   with their own controllers on replicated sections.
