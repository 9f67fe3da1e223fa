------------------------------- MODULE AppSync -------------------------------
(***************************************************************************)
(* What Applications does to the resources of one application              *)
(* (internal/controller/sync/applications.go, sync/health.go and           *)
(* internal/controller/local): the resources in the cluster, the cluster   *)
(* cache that trails behind them, the cache of rendered charts, and the    *)
(* jobs that sync a version, read back what is deployed, and clean up.     *)
(*                                                                         *)
(* A step of a job is one call of the API server, one read of the cluster  *)
(* cache or one operation on the cache of rendered charts.  A stopped job  *)
(* may go on with the call it is in (see AsyncJobs).  Timeouts, attempts   *)
(* and reports of jobs are in ZoneController.                              *)
(***************************************************************************)
EXTENDS Naturals, SequencesExt

CONSTANTS App,        \* the application: its namespace and name, as words
          Versions,   \* chart versions, ordered as numbers
          Tagged,     \* versions whose tag in the repository has a leading v
          Manifest,   \* version -> the keys of the resources its chart renders
          Parent,     \* a key the cluster makes -> the rendered key that owns it
          Foreign,    \* a key of another application -> that application
          Worlds,     \* what the cluster may say of the resources: health, outdated
          Workers,    \* jobs
          NoLabel,    \* the chart version of a resource without that label
          None,       \* absent
          MaxBehind,  \* resources the cluster cache may be behind on
          Budgets     \* scenarios: how often a kind of event may happen

EventKinds == {"job", "stop", "render", "fault", "spawn", "loss", "strip", "withdraw",
               "restart"}

Roots == UNION { Range(Manifest[v]) : v \in Versions }

Own == Roots \cup DOMAIN Parent

Keys == Own \cup DOMAIN Foreign

\* GetInstanceId: namespace and name joined by a dash.
InstanceId(app) == app.ns \o <<"-">> \o app.name

Mine == InstanceId(App)

\* A SpecificVersion: the number, and whether the string it was parsed from had a
\* leading v.
Structs == [num : Versions, tag : BOOLEAN]

\* A resource in the cluster: its instance label, its chart version label, and
\* whether it is being deleted.
Resources == [inst : {Mine} \cup { InstanceId(Foreign[k]) : k \in DOMAIN Foreign },
              label : Versions \cup {NoLabel}, dying : BOOLEAN]

HealthOrder == <<"Healthy", "Suspended", "Progressing", "Missing", "Degraded", "Unknown">>

\* What GetResourceHealth may say of a resource.
Codes == Range(HealthOrder) \cup {"nil", "error"}

ASSUME AppSyncAssumption ==
  /\ Versions \subseteq Nat /\ Versions # {} /\ Tagged \subseteq Versions
  /\ NoLabel \notin Versions /\ None \notin Versions
  /\ Manifest \in [Versions -> Seq(Roots)]
  /\ Parent \in [DOMAIN Parent -> Roots] /\ DOMAIN Parent \cap Roots = {}
  /\ Own \cap DOMAIN Foreign = {}
  /\ None \notin Structs /\ None \notin Resources
  /\ \A w \in Worlds : w.health \in [Keys -> Codes] /\ w.outdated \subseteq Keys
  /\ MaxBehind \in Nat \ {0} /\ Budgets \subseteq [EventKinds -> Nat]

VARIABLES
  live,      \* key -> the resource in the cluster or None
  cache,     \* key -> what the cluster cache holds of it
  appCache,  \* version -> the version of the chart rendered for it, or None
  repo,      \* versions the repository still offers
  health,    \* key -> what GetResourceHealth says of a resource that is not going
  outdated,  \* keys rendered with an API version the cluster does not prefer
  worker,    \* the jobs
  budget     \* remaining events of the environment

vars == <<live, cache, appCache, repo, health, outdated, worker, budget>>

\* What no step of a job changes.
world == <<cache, repo, health, outdated>>

Resource(id, label, dying) == [inst |-> id, label |-> label, dying |-> dying]

\* ToString drops a leading v, so a label or a recorded version is Plain.
Plain(v) == [num |-> v, tag |-> FALSE]

Original(v) == [num |-> v, tag |-> v \in Tagged]

\* A job that does nothing; what its last cycle held is dropped.
Idle == [pc |-> "idle", stopped |-> FALSE, req |-> None, app |-> None, todo |-> {},
         prune |-> {}, versions |-> {}, left |-> {}, present |-> FALSE, missed |-> {}]

Init ==
  /\ live = [k \in Keys |->
               IF k \in Own THEN None
               ELSE Resource(InstanceId(Foreign[k]), CHOOSE v \in Versions : TRUE, FALSE)]
  /\ cache = live
  /\ appCache = [v \in Versions |-> None]
  /\ repo = Versions
  /\ \E w \in Worlds : health = w.health /\ outdated = w.outdated
  /\ worker = [w \in Workers |-> Idle]
  /\ budget \in Budgets

Spend(kind) ==
  /\ budget[kind] > 0
  /\ budget' = [budget EXCEPT ![kind] = @ - 1]

\* A change of a resource in the cluster.
Change(k, r) ==
  /\ Cardinality({ j \in Keys : j # k /\ cache[j] # live[j] }) < MaxBehind
  /\ live' = [live EXCEPT ![k] = r]

Dying(k) == [live[k] EXCEPT !.dying = TRUE]

-----------------------------------------------------------------------------
(***************************************************************************)
(* Reading the cluster cache.                                              *)
(***************************************************************************)

\* Mutant: every resource the controller manages, whoever it belongs to.
FindAny == { k \in Keys : cache[k] # None }

\* findAvailableApplicationResources
FindAvailable == { k \in Keys : cache[k] # None /\ cache[k].inst = Mine }

\* splitResourcesByVersion; resources without the label are skipped.
OfVersion(v) == { k \in FindAvailable : cache[k].label = v }

\* GetAllPresentVersions
AllPresentVersions == { v \in Versions : OfVersion(v) # {} }

Expected(v) == Range(Manifest[v])

\* toResourceMap: resources are found by kind and API version.  The cluster cache
\* lists them in the version the cluster prefers, whatever the chart has.
Listed(v) == OfVersion(v) \ outdated

\* Mutant: nothing else may carry the label.
IsDeployedExactly(v) == Expected(v) = Listed(v)

\* ApplicationBundle.IsDeployed
IsDeployed(v) == Expected(v) \subseteq Listed(v)

Rank(code) == CHOOSE i \in DOMAIN HealthOrder : HealthOrder[i] = code

\* health.IsWorse and GetResourceHealth of the GitOps engine: nil where it knows
\* no health of the kind, an error, or a code.
IsWorse(current, new) == Rank(new) > Rank(current)

GetResourceHealth(k) == IF cache[k].dying THEN "Progressing" ELSE health[k]

\* The loop both computations end with, over the codes that count.
Worst(codes, skipped) ==
  LET code[i \in 0..Len(codes)] ==
        IF i = 0 THEN "Healthy"
        ELSE IF codes[i] \notin skipped /\ IsWorse(code[i - 1], codes[i]) THEN codes[i]
        ELSE code[i - 1]
  IN  code[Len(codes)]

\* DetermineState ends with an error.
HealthFails(v) == \E k \in Expected(v) \cap Listed(v) : GetResourceHealth(k) = "error"

\* Mutant: a resource that is missing is left out.
DetermineStateOfPresent(v) ==
  LET Status(k) == IF k \in Listed(v) THEN GetResourceHealth(k) ELSE "nil"
  IN  IF HealthFails(v) THEN "error"
      ELSE Worst([i \in 1..Len(Manifest[v]) |-> Status(Manifest[v][i])], {"nil"})

\* ApplicationBundle.DetermineState of the resources labelled with v: a resource
\* without health does not count, an error ends the computation.
DetermineState(v) ==
  LET Status(k) == IF k \in Listed(v) THEN GetResourceHealth(k) ELSE "Missing"
  IN  IF HealthFails(v) THEN "error"
      ELSE Worst([i \in 1..Len(Manifest[v]) |-> Status(Manifest[v][i])], {"nil"})

\* GetAggregatedStatus of version v: of whatever is found under the keys, its label
\* and API version do not matter; a resource without health is healthy, one whose
\* health fails is passed over.
AggregatedStatus(v) ==
  LET Status(k) == IF k \notin FindAvailable THEN "Missing"
                   ELSE IF GetResourceHealth(k) = "nil" THEN "Healthy" ELSE GetResourceHealth(k)
      codes == [i \in 1..Len(Manifest[v]) |-> Status(Manifest[v][i])]
  IN  IF Range(codes) \subseteq {"error"} THEN "Unknown" ELSE Worst(codes, {"error"})

-----------------------------------------------------------------------------
(***************************************************************************)
(* The cache of rendered charts.                                           *)
(***************************************************************************)

\* getOrRenderAppVersion finds the version, in whichever form it was put first:
\* the entry is found by the string of the version.
Cached(req) == appCache[req.num] # None

CanRender(req) == req.num \in repo

\* Another goroutine (a pass, the operation job, a handler of the HTTP API) asks for
\* a version: one of a label or of the status, or as the repository has it.
RenderElsewhere(req) ==
  /\ ~Cached(req) /\ CanRender(req) /\ Spend("render")
  /\ appCache' = [appCache EXCEPT ![req.num] = req]
  /\ UNCHANGED <<live, worker, world>>

\* loadLocalApplicationVersions renders what it needs; it fails if a version cannot
\* be rendered any more or the health of a resource cannot be computed.
Unrenderable == { v \in AllPresentVersions : appCache[v] = None /\ v \notin repo }

LoadFails == Unrenderable # {} \/ \E v \in AllPresentVersions : HealthFails(v)

AfterLoad ==
  [v \in Versions |-> IF v \in AllPresentVersions /\ appCache[v] = None THEN Plain(v)
                     ELSE appCache[v]]

-----------------------------------------------------------------------------
(***************************************************************************)
(* The deploy job: SyncVersion again and again until all is there.         *)
(***************************************************************************)

Active(w) == worker[w].pc \notin {"idle", "done"} /\ ~worker[w].stopped

\* One job at a time, but for stopped ones (see AsyncJobs).
MayStart(w) ==
  /\ \A u \in Workers : ~Active(u)
  /\ \E u \in Workers : worker[u].pc \in {"idle", "done"}
  /\ w = CHOOSE u \in Workers : worker[u].pc \in {"idle", "done"}

\* The state machine hands on the version just determined, or the recorded one.
StartDeploy(w, req) ==
  /\ MayStart(w) /\ Spend("job")
  /\ worker' = [worker EXCEPT ![w] = [Idle EXCEPT !.pc = "look", !.req = req]]
  /\ UNCHANGED <<live, appCache, world>>

\* Mutant: the chart is not handed on.
SyncingNothing(j, app) ==
  [j EXCEPT !.pc = "apply", !.todo = Expected(app.num),
            !.prune = (FindAvailable \ DOMAIN Parent) \ Expected(app.num)]

\* gitOpsEngine.Sync begins: what it is to apply, and what to prune: the resources
\* isManagedFunc accepts which nothing owns and which are not in the manifest.
Syncing(j, app) ==
  LET new == Expected(app.num)
  IN  [j EXCEPT !.pc = "apply", !.app = app, !.todo = new,
                !.prune = (FindAvailable \ DOMAIN Parent) \ new]

Look(w) ==
  /\ worker[w].pc = "look"
  /\ worker' = [worker EXCEPT ![w] = IF Cached(@.req) THEN Syncing(@, appCache[@.req.num])
                                     ELSE [@ EXCEPT !.pc = "render"]]
  /\ UNCHANGED <<live, appCache, budget, world>>

\* The chart is rendered and stored, whatever is there by now; or the job fails.
Render(w) ==
  LET req == worker[w].req
  IN  /\ worker[w].pc = "render"
      /\ \/ /\ CanRender(req)
            /\ appCache' = [appCache EXCEPT ![req.num] = req]
            /\ worker' = [worker EXCEPT ![w] = Syncing(@, req)]
            /\ UNCHANGED budget
         \/ /\ IF CanRender(req) THEN Spend("fault") ELSE UNCHANGED budget
            /\ worker' = [worker EXCEPT ![w] = Idle]
            /\ UNCHANGED appCache
      /\ UNCHANGED <<live, world>>

\* History: a key came to life since a cleanup has looked.
Fresh(k) ==
  [u \in Workers |-> IF worker[u].pc # "idle" /\ worker[u].req = None
                    THEN [worker[u] EXCEPT !.missed = @ \cup {k}] ELSE worker[u]]

\* A resource is created or updated; one that is going stays so.  After a failure
\* the engine may leave the rest undone, or end with an error, which ends the job.
Apply(w) ==
  /\ worker[w].pc = "apply"
  /\ \E k \in worker[w].todo :
       \/ /\ Change(k, Resource(Mine, worker[w].app.num, live[k] # None /\ live[k].dying))
          /\ worker' = [Fresh(k) EXCEPT ![w].todo = @ \ {k}]
          /\ UNCHANGED budget
       \/ /\ Spend("fault")
          /\ \/ worker' = [worker EXCEPT ![w].todo = @ \ {k}]
             \/ worker' = [worker EXCEPT ![w].todo = {}, ![w].prune = {}]
             \/ worker' = [worker EXCEPT ![w] = Idle]
          /\ UNCHANGED live
  /\ UNCHANGED <<appCache, world>>

\* A call of Delete is accepted, or it fails, as it does for what is gone already.
Deleted(k) == live[k] # None /\ Change(k, Dying(k)) /\ UNCHANGED budget

DeleteFails(k) ==
  /\ IF live[k] = None THEN UNCHANGED budget ELSE Spend("fault")
  /\ UNCHANGED live

Prune(w) ==
  /\ worker[w].pc = "apply" /\ worker[w].todo = {}
  /\ \E k \in worker[w].prune :
       /\ Deleted(k) \/ DeleteFails(k)
       /\ worker' = [worker EXCEPT ![w].prune = @ \ {k}]
  /\ UNCHANGED <<appCache, world>>

\* The end of sync: the version is looked up as it came, among versions read from
\* labels; the job is done if all of it is there.
Verdict(w) ==
  LET app == worker[w].app
  IN  app = Plain(app.num) /\ app.num \in AllPresentVersions /\ IsDeployed(app.num)

ReadBack(w) ==
  /\ worker[w].pc = "apply" /\ worker[w].todo = {} /\ worker[w].prune = {}
  /\ \/ /\ ~LoadFails
        /\ appCache' = AfterLoad
        /\ worker' = [worker EXCEPT ![w].pc = IF Verdict(w) THEN "done" ELSE "look",
                                    ![w].app = None]
        /\ UNCHANGED budget
     \/ /\ \/ LoadFails /\ UNCHANGED budget
           \/ AfterLoad # appCache /\ Spend("fault")
        /\ worker' = [worker EXCEPT ![w].pc = "look", ![w].app = None]
        /\ UNCHANGED appCache
  /\ UNCHANGED <<live, world>>

-----------------------------------------------------------------------------
(***************************************************************************)
(* The undeploy job: Cleanup again and again until nothing is left.  A     *)
(* deletion of the object calls Cleanup once.                              *)
(***************************************************************************)

StartUndeploy(w) ==
  /\ MayStart(w) /\ Spend("job")
  /\ worker' = [worker EXCEPT ![w] = [Idle EXCEPT !.pc = "check"]]
  /\ UNCHANGED <<live, appCache, world>>

\* The job is done if GetAllPresentVersions is empty; otherwise Cleanup reads the
\* versions once more.
Cleanup(w) ==
  /\ worker[w].pc = "check"
  /\ worker' = [worker EXCEPT
       ![w].pc = IF AllPresentVersions = {} THEN "done" ELSE "next",
       ![w].versions = AllPresentVersions, ![w].present = FALSE,
       ![w].missed = { k \in Keys : \A v \in Versions : k \notin OfVersion(v) }]
  /\ UNCHANGED <<live, appCache, budget, world>>

\* DeleteVersion of the oldest version left: render it, list everything that belongs
\* to the application, whatever its version.
DeleteVersion(w) ==
  LET v == Min(worker[w].versions)
  IN  /\ worker[w].pc = "next" /\ worker[w].versions # {}
      /\ \/ /\ appCache[v] # None \/ v \in repo
            /\ appCache' = [appCache EXCEPT ![v] = IF @ = None THEN Plain(v) ELSE @]
            /\ worker' = [worker EXCEPT
                 ![w].pc = "delete", ![w].versions = @ \ {v}, ![w].left = FindAvailable,
                 ![w].todo = Expected(v) \cap FindAvailable,
                 ![w].missed = Keys \ FindAvailable]
            /\ UNCHANGED budget
         \/ /\ appCache[v] = None
            /\ IF v \in repo THEN Spend("fault") ELSE UNCHANGED budget
            /\ worker' = [worker EXCEPT ![w].pc = "check"]
            /\ UNCHANGED appCache
      /\ UNCHANGED <<live, world>>

\* Mutant: a deletion that failed counts as one.
DeleteAny(w) ==
  /\ worker[w].pc \in {"delete", "rest"}
  /\ \E k \in worker[w].todo :
       /\ Deleted(k) \/ DeleteFails(k)
       /\ worker' = [worker EXCEPT ![w].todo = @ \ {k}, ![w].left = @ \ {k}]
  /\ UNCHANGED <<appCache, world>>

\* Mutant: a deletion that failed is tried again at once.
DeleteUntilGone(w) ==
  /\ worker[w].pc \in {"delete", "rest"}
  /\ \E k \in worker[w].todo :
       \/ /\ Deleted(k)
          /\ worker' = [worker EXCEPT ![w].todo = @ \ {k}, ![w].left = @ \ {k}]
       \/ DeleteFails(k) /\ UNCHANGED worker
  /\ UNCHANGED <<appCache, world>>

\* deleteApp: a pass over the rendered resources that were found, and one over what
\* is left, which tries again what has just failed.
Delete(w) ==
  /\ worker[w].pc \in {"delete", "rest"}
  /\ \E k \in worker[w].todo :
       \/ /\ Deleted(k)
          /\ worker' = [worker EXCEPT ![w].todo = @ \ {k}, ![w].left = @ \ {k}]
       \/ /\ DeleteFails(k)
          /\ worker' = [worker EXCEPT ![w].todo = @ \ {k}]
  /\ UNCHANGED <<appCache, world>>

EndLoop(w) ==
  /\ worker[w].todo = {}
  /\ \/ /\ worker[w].pc = "delete"
        /\ worker' = [worker EXCEPT ![w].pc = "rest", ![w].todo = worker[w].left]
     \/ /\ worker[w].pc = "rest"
        /\ worker' = [worker EXCEPT ![w].pc = "next",
                                    ![w].present = IF worker[w].left = {} THEN @ ELSE TRUE]
  /\ UNCHANGED <<live, appCache, budget, world>>

\* IsApplicationResourcesPresent of the results.
EndCleanup(w) ==
  /\ worker[w].pc = "next" /\ worker[w].versions = {}
  /\ worker' = [worker EXCEPT ![w].pc = IF worker[w].present THEN "check" ELSE "done"]
  /\ UNCHANGED <<live, appCache, budget, world>>

\* The reconciler stops a job; it goes on until it notices.
Stop(w) ==
  /\ Active(w) /\ Spend("stop")
  /\ worker' = [worker EXCEPT ![w].stopped = TRUE]
  /\ UNCHANGED <<live, appCache, world>>

Leave(w) ==
  /\ worker[w].stopped /\ worker[w].pc # "done"
  /\ worker' = [worker EXCEPT ![w] = Idle]
  /\ UNCHANGED <<live, appCache, budget, world>>

JobStep(w) ==
  \/ Look(w) \/ Render(w) \/ Apply(w) \/ Prune(w) \/ ReadBack(w)
  \/ Cleanup(w) \/ DeleteVersion(w) \/ Delete(w) \/ EndLoop(w)
  \/ EndCleanup(w)

-----------------------------------------------------------------------------
(***************************************************************************)
(* The cluster and its users.                                              *)
(***************************************************************************)

environment == <<appCache, health, outdated>>

\* A watch event brings the cluster cache up to date on one resource.
Observe(k) ==
  /\ cache[k] # live[k]
  /\ cache' = [cache EXCEPT ![k] = live[k]]
  /\ UNCHANGED <<live, repo, worker, budget, environment>>

\* A resource that is going is gone.
Vanish(k) ==
  /\ live[k] # None /\ live[k].dying
  /\ Change(k, None)
  /\ UNCHANGED <<cache, repo, worker, budget, environment>>

\* A controller of the cluster makes what a rendered resource asks for, with the
\* labels of its template, and the garbage collector removes it with its owner.
Spawn(k) ==
  /\ live[k] = None /\ live[Parent[k]] # None /\ ~live[Parent[k]].dying /\ Spend("spawn")
  /\ Change(k, live[Parent[k]])
  /\ worker' = Fresh(k)
  /\ UNCHANGED <<cache, repo, environment>>

Collect(k) ==
  /\ live[k] # None /\ ~live[k].dying /\ live[Parent[k]] = None
  /\ Change(k, Dying(k))
  /\ UNCHANGED <<cache, repo, worker, budget, environment>>

\* Somebody deletes a resource, or removes its label.
Lose(k) ==
  /\ live[k] # None /\ ~live[k].dying /\ Spend("loss")
  /\ Change(k, Dying(k))
  /\ UNCHANGED <<cache, repo, worker, environment>>

Strip(k) ==
  /\ live[k] # None /\ live[k].label # NoLabel /\ Spend("strip")
  /\ Change(k, [live[k] EXCEPT !.label = NoLabel])
  /\ UNCHANGED <<cache, repo, worker, environment>>

\* A version is removed from the repository.
Withdraw(v) ==
  /\ v \in repo /\ Spend("withdraw")
  /\ repo' = repo \ {v}
  /\ UNCHANGED <<live, cache, worker, environment>>

\* The controller restarts: jobs and rendered charts are gone, the cluster cache is
\* filled anew.
Restart ==
  /\ Spend("restart")
  /\ cache' = live
  /\ appCache' = [v \in Versions |-> None]
  /\ worker' = [w \in Workers |-> Idle]
  /\ UNCHANGED <<live, repo, health, outdated>>

Next ==
  \/ \E w \in Workers : JobStep(w) \/ StartUndeploy(w) \/ Stop(w) \/ Leave(w)
  \/ \E v \in Versions : \E req \in {Plain(v), Original(v)} :
       RenderElsewhere(req) \/ \E w \in Workers : StartDeploy(w, req)
  \/ \E k \in Keys : Observe(k) \/ Vanish(k)
  \/ \E k \in DOMAIN Parent : Spawn(k) \/ Collect(k)
  \/ \E k \in Own : Lose(k) \/ Strip(k)
  \/ \E v \in Versions : Withdraw(v)
  \/ Restart

Spec == Init /\ [][Next]_vars

\* A job goes on; a cancelled one notices, in the select at the end of a cycle at the
\* latest; the watch delivers; what is going goes.
Fairness ==
  /\ \A w \in Workers : WF_vars(JobStep(w)) /\ WF_vars(Leave(w))
  /\ WF_vars(\E k \in Keys : Observe(k))
  /\ WF_vars(\E k \in Keys : Vanish(k))
  /\ WF_vars(\E k \in DOMAIN Parent : Collect(k))

FairSpec == Spec /\ Fairness

-----------------------------------------------------------------------------
(***************************************************************************)
(* Properties.                                                             *)
(***************************************************************************)

Jobs ==
  [pc : {"idle", "look", "render", "apply", "check", "next", "delete", "rest", "done"},
   stopped : BOOLEAN, req : Structs \cup {None}, app : Structs \cup {None},
   todo : SUBSET Keys, prune : SUBSET Keys, versions : SUBSET Versions, left : SUBSET Keys,
   present : BOOLEAN, missed : SUBSET Keys]

TypeOK ==
  /\ live \in [Keys -> Resources \cup {None}] /\ cache \in [Keys -> Resources \cup {None}]
  /\ appCache \in [Versions -> Structs \cup {None}] /\ repo \subseteq Versions
  /\ health \in [Keys -> Codes] /\ outdated \subseteq Keys
  /\ worker \in [Workers -> Jobs]
  /\ \A w \in Workers : (worker[w].pc = "apply") = (worker[w].app # None)
  /\ budget \in [EventKinds -> Nat]

\* An undeployment that reports success (undeploy_job.go) has had the deletion
\* of every resource of the application accepted, except of those the cluster cache
\* did not show when it looked, or showed without a version, and of those created
\* since by a stopped sync or by the cluster.
DoneMeansDoomed ==
  \A w \in Workers : worker[w].pc = "done" /\ worker[w].req = None =>
    \A k \in Keys \ worker[w].missed : live[k] = None \/ live[k].dying

\* Neither pruning nor cleaning up reaches a resource of an application whose
\* instance id is another one (isManagedFunc, findAvailableApplicationResources).
\* Two applications may have the same: the dash between namespace and name also
\* occurs in them.
Isolated ==
  \A k \in DOMAIN Foreign : InstanceId(Foreign[k]) # Mine =>
    live[k] # None /\ ~live[k].dying

\* The health of the status (DetermineState) and the one the operation job acts on
\* (GetAggregatedStatus) are both the worst health of the rendered resources, as
\* long as no resource carries the label of another version, none is rendered in
\* another API version than the cluster lists, and every health can be computed.  A
\* chart that renders nothing is healthy to the one and unknown to the other.
HealthsAgree ==
  \A v \in AllPresentVersions :
    LET Status(k) == IF k \in FindAvailable THEN GetResourceHealth(k) ELSE "Missing"
        codes == { Status(k) : k \in Expected(v) }
        ordinary == /\ Expected(v) # {} /\ Expected(v) \cap FindAvailable \subseteq Listed(v)
                    /\ "error" \notin codes
    IN  ordinary => /\ DetermineState(v) = AggregatedStatus(v)
                    /\ DetermineState(v) \in (codes \ {"nil"}) \cup {"Healthy"}
                    /\ \A c \in codes \ {"nil"} : ~IsWorse(DetermineState(v), c)

\* A deploy job that is left alone reports success (DeployJob.runSyncCycle), unless
\* the chart it works with was rendered for a tagged version or has a resource in
\* another API version than the cluster lists, or a version found in the cluster can
\* no longer be rendered, or a health not be computed.
Deploying == { w \in Workers : Active(w) /\ worker[w].req # None }

SyncSucceeds ==
  Deploying # {} ~> \/ Deploying = {} \/ LoadFails
                    \/ \E w \in Deploying :
                         /\ worker[w].app # None
                         /\ worker[w].app.tag \/ Expected(worker[w].app.num) \cap outdated # {}

\* An undeploy job that is left alone comes to its end (UndeployJob.runInner), unless
\* a version found in the cluster can no longer be rendered.
CleanupCompletes ==
  LET Undeploying == { w \in Workers : Active(w) /\ worker[w].req = None }
  IN  Undeploying # {} ~> Undeploying = {} \/ Unrenderable # {}
====
