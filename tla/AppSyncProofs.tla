--------------------------- MODULE AppSyncProofs ---------------------------
(***************************************************************************)
(* Applications, for any charts, applications beside this one, number of   *)
(* jobs, lag of the cluster cache and events: TypeOK, Isolated,            *)
(* DoneMeansDoomed and HealthsAgree.                                       *)
(***************************************************************************)
EXTENDS AppSync, TLAPS, WellFoundedInduction

\* The resources of applications with another instance id.
Alien == { k \in DOMAIN Foreign : InstanceId(Foreign[k]) # Mine }

\* A resource is gone or on its way out, in the cluster l.
Doomed(l, k) == l[k] = None \/ l[k].dying

AllDoomed(l, j) == \A k \in Keys \ j.missed : Doomed(l, k)

\* A job, in the cluster l: a sync has a version to sync; no job has an alien resource
\* on its lists; and a cleanup has every resource it has found, and that was not
\* created since, on its list or doomed, until it decides on the result by that list.
JobOK(l, j) ==
  /\ j.pc \in {"look", "render", "apply"} => j.req # None
  /\ (j.pc = "apply") = (j.app # None)
  /\ (j.todo \cup j.prune \cup j.left) \cap Alien = {}
  /\ j.req = None =>
       /\ j.pc \in {"delete", "rest"} => \A k \in Keys \ j.missed : k \in j.left \/ Doomed(l, k)
       /\ j.pc = "next" /\ j.versions = {} /\ ~j.present => AllDoomed(l, j)
       /\ j.pc = "done" => AllDoomed(l, j)

JobsOK == \A w \in Workers : JobOK(live, worker[w])

\* Alien resources are what they were, in the cluster and in the cache.
Kept(r) == r # None /\ r.inst # Mine /\ ~r.dying

AliensKept == \A k \in Alien : Kept(live[k]) /\ Kept(cache[k])

IInv == TypeOK /\ JobsOK /\ AliensKept

-----------------------------------------------------------------------------
(***************************************************************************)
(* Facts about the operators.                                              *)
(***************************************************************************)

\* A set of versions that is not empty has an oldest one.
LEMMA OldestVersion ==
  ASSUME NEW S \in SUBSET Versions, S # {}
  PROVE  Min(S) \in S
  <1>1. S \subseteq Nat
    BY AppSyncAssumption
  <1>2. PICK m \in S : \A k \in S : ~(<<k, m>> \in OpToRel(<, Nat))
    BY <1>1, NatLessThanWellFounded, WFMin
  <1>3. \A k \in S : k < m => <<k, m>> \in OpToRel(<, Nat)
    BY <1>1 DEF OpToRel
  <1>4. \A k \in S : ~(k < m)
    BY <1>2, <1>3
  <1>5. \A k \in S : m <= k
    BY <1>1, <1>4
  <1> QED BY <1>5 DEF Min

\* The keys.
LEMMA KeyFacts ==
  /\ Roots \subseteq Keys /\ Own \subseteq Keys /\ Alien \subseteq Keys
  /\ Own \cap Alien = {}
  /\ \A v \in Versions : Expected(v) \subseteq Roots
  /\ \A k \in DOMAIN Parent : k \in Own /\ Parent[k] \in Roots
  BY AppSyncAssumption DEF Keys, Own, Alien, Roots, Expected

\* What a read of the cluster cache finds belongs to the application.
LEMMA FoundFacts ==
  ASSUME AliensKept
  PROVE  /\ FindAvailable \subseteq Keys /\ FindAvailable \cap Alien = {}
         /\ AllPresentVersions \subseteq Versions
  BY DEF AliensKept, Kept, FindAvailable, AllPresentVersions

\* Versions as they are asked for.
LEMMA StructFacts ==
  /\ None \notin Structs /\ \A v \in Versions : Plain(v) \in Structs /\ Original(v) \in Structs
  BY AppSyncAssumption DEF Structs, Plain, Original

\* A job that does nothing.
LEMMA IdleFacts ==
  Idle \in Jobs /\ \A l : JobOK(l, Idle)
  <1>1. /\ Idle.pc = "idle" /\ Idle.app = None /\ Idle.req = None /\ Idle.todo = {}
        /\ Idle.prune = {} /\ Idle.left = {}
    BY DEF Idle
  <1>2. Idle \in Jobs
    BY DEF Idle, Jobs
  <1> QED BY <1>1, <1>2 DEF JobOK

\* A sync that begins.
LEMMA SyncingFacts ==
  ASSUME AliensKept, NEW j \in Jobs, j.req # None, j.left \cap Alien = {}, NEW app \in Structs
  PROVE  Syncing(j, app) \in Jobs /\ \A l : JobOK(l, Syncing(j, app))
  <1> DEFINE new == Expected(app.num)
             prune == (FindAvailable \ DOMAIN Parent) \ new
             s == Syncing(j, app)
  <1>1. /\ new \subseteq Keys /\ new \cap Alien = {}
        /\ prune \subseteq Keys /\ prune \cap Alien = {}
    <2>1. app.num \in Versions
      BY DEF Structs
    <2>2. new \subseteq Keys /\ new \cap Alien = {}
      BY <2>1, KeyFacts DEF Own
    <2>3. prune \subseteq FindAvailable
      OBVIOUS
    <2> HIDE DEF new, prune
    <2> QED BY <2>2, <2>3, FoundFacts
  <1>2. s = [j EXCEPT !.pc = "apply", !.app = app, !.todo = new, !.prune = prune]
    BY DEF Syncing
  <1> HIDE DEF new, prune, s
  <1>3. /\ s \in Jobs /\ s.pc = "apply" /\ s.app = app /\ s.todo = new /\ s.prune = prune
        /\ s.req = j.req /\ s.left = j.left
    BY <1>1, <1>2 DEF Jobs
  <1>4. \A l : JobOK(l, s)
    BY <1>1, <1>3, StructFacts DEF JobOK
  <1> QED BY <1>3, <1>4 DEF s

\* Doom only spreads.
LEMMA DoomSpreads ==
  ASSUME NEW l, NEW m, NEW j, JobOK(l, j), \A k \in Keys : Doomed(l, k) => Doomed(m, k)
  PROVE  JobOK(m, j)
  BY DEF JobOK, AllDoomed

\* A step of one job.
LEMMA OneJob ==
  ASSUME IInv, NEW w \in Workers, NEW r \in Jobs, worker' = [worker EXCEPT ![w] = r],
         JobOK(live', r), \A k \in Keys : Doomed(live, k) => Doomed(live', k)
  PROVE  worker' \in [Workers -> Jobs] /\ JobsOK'
  <1>1. worker \in [Workers -> Jobs]
    BY DEF IInv, TypeOK
  <1>2. \A u \in Workers : JobOK(live', worker[u])
    BY DoomSpreads DEF IInv, JobsOK
  <1>3. \A u \in Workers : worker'[u] = worker[u] \/ worker'[u] = r
    BY <1>1
  <1>4. worker' \in [Workers -> Jobs]
    BY <1>1
  <1> QED BY <1>2, <1>3, <1>4 DEF JobsOK

\* A step of no job.
LEMMA NoJob ==
  ASSUME IInv, UNCHANGED worker, \A k \in Keys : Doomed(live, k) => Doomed(live', k)
  PROVE  worker' \in [Workers -> Jobs] /\ JobsOK'
  <1>1. \A u \in Workers : JobOK(live', worker[u])
    BY DoomSpreads DEF IInv, JobsOK
  <1> QED BY <1>1 DEF IInv, TypeOK, JobsOK

\* A change of one resource.
LEMMA ChangeFacts ==
  ASSUME IInv, NEW k \in Keys \ Alien, NEW r \in Resources \cup {None}, Change(k, r)
  PROVE  /\ live' \in [Keys -> Resources \cup {None}]
         /\ live'[k] = r
         /\ \A i \in Keys : i # k => live'[i] = live[i]
         /\ \A i \in Alien : Kept(live'[i])
  <1>1. live \in [Keys -> Resources \cup {None}] /\ live' = [live EXCEPT ![k] = r]
    BY DEF IInv, TypeOK, Change
  <1>2. \A i \in Alien : i \in Keys /\ i # k /\ Kept(live[i])
    BY KeyFacts DEF IInv, AliensKept
  <1> QED BY <1>1, <1>2

\* A resource that is made to go.
LEMMA DyingFacts ==
  ASSUME IInv, NEW k \in Keys \ Alien, live[k] # None, Change(k, Dying(k))
  PROVE  /\ live' \in [Keys -> Resources \cup {None}]
         /\ Doomed(live', k)
         /\ \A i \in Keys : Doomed(live, i) => Doomed(live', i)
         /\ \A i \in Alien : Kept(live'[i])
  <1>1. Dying(k) \in Resources /\ Dying(k).dying
    BY DEF Dying, IInv, TypeOK, Resources
  <1>2. /\ live' \in [Keys -> Resources \cup {None}]
        /\ live'[k] = Dying(k)
        /\ \A i \in Keys : i # k => live'[i] = live[i]
        /\ \A i \in Alien : Kept(live'[i])
    BY <1>1, ChangeFacts
  <1> QED BY <1>1, <1>2 DEF Doomed

\* Somebody asks for the deletion of a resource.
LEMMA DeletionFacts ==
  ASSUME IInv, NEW k \in Keys \ Alien, Deleted(k) \/ DeleteFails(k)
  PROVE  /\ live' \in [Keys -> Resources \cup {None}]
         /\ \A i \in Keys : Doomed(live, i) => Doomed(live', i)
         /\ \A i \in Alien : Kept(live'[i])
         /\ Deleted(k) => Doomed(live', k)
  <1>1. CASE Deleted(k)
    BY <1>1, DyingFacts DEF Deleted
  <1>2. CASE DeleteFails(k) /\ ~Deleted(k)
    BY <1>2 DEF DeleteFails, IInv, TypeOK, AliensKept
  <1> QED BY <1>1, <1>2

\* A resource comes to life; a cleanup is not held to have seen it.
FreshJob(j, k) ==
  IF j.pc # "idle" /\ j.req = None THEN [j EXCEPT !.missed = @ \cup {k}] ELSE j

LEMMA FreshFacts ==
  ASSUME NEW l, NEW m, NEW k \in Keys, NEW j \in Jobs, JobOK(l, j),
         \A i \in Keys \ {k} : Doomed(l, i) => Doomed(m, i)
  PROVE  /\ FreshJob(j, k) \in Jobs /\ JobOK(m, FreshJob(j, k))
         /\ j.pc = "apply" => FreshJob(j, k) = j
  <1>1. CASE j.pc # "idle" /\ j.req = None
    <2> DEFINE f == [j EXCEPT !.missed = @ \cup {k}]
    <2>1. /\ f \in Jobs /\ f.pc = j.pc /\ f.req = j.req /\ f.app = j.app /\ f.todo = j.todo
          /\ f.prune = j.prune /\ f.left = j.left /\ f.versions = j.versions
          /\ f.present = j.present /\ f.missed = j.missed \cup {k}
      BY DEF Jobs
    <2>2. FreshJob(j, k) = f
      BY <1>1 DEF FreshJob
    <2> HIDE DEF f
    <2>3. JobOK(m, f)
      BY <2>1 DEF JobOK, AllDoomed
    <2>4. j.pc # "apply"
      BY <1>1 DEF JobOK
    <2> QED BY <2>1, <2>2, <2>3, <2>4
  <1>2. CASE ~(j.pc # "idle" /\ j.req = None)
    <2>1. FreshJob(j, k) = j
      BY <1>2 DEF FreshJob
    <2>2. JobOK(m, j)
      BY <1>2 DEF JobOK
    <2> QED BY <2>1, <2>2
  <1> QED BY <1>1, <1>2

\* All jobs at once.
LEMMA FreshStep ==
  ASSUME IInv, NEW k \in Keys, \A i \in Keys \ {k} : Doomed(live, i) => Doomed(live', i)
  PROVE  /\ Fresh(k) \in [Workers -> Jobs]
         /\ \A u \in Workers : JobOK(live', Fresh(k)[u])
         /\ \A u \in Workers : worker[u].pc = "apply" => Fresh(k)[u] = worker[u]
  <1>1. Fresh(k) = [u \in Workers |-> FreshJob(worker[u], k)]
    BY DEF Fresh, FreshJob
  <1>2. \A u \in Workers : worker[u] \in Jobs /\ JobOK(live, worker[u])
    BY DEF IInv, TypeOK, JobsOK
  <1>3. \A u \in Workers : /\ FreshJob(worker[u], k) \in Jobs
                           /\ JobOK(live', FreshJob(worker[u], k))
                           /\ worker[u].pc = "apply" => FreshJob(worker[u], k) = worker[u]
    BY <1>2, FreshFacts
  <1> HIDE DEF FreshJob
  <1> QED BY <1>1, <1>3

-----------------------------------------------------------------------------
(***************************************************************************)
(* The steps.                                                              *)
(***************************************************************************)

LiveOK(l) == l \in [Keys -> Resources \cup {None}] /\ \A i \in Alien : Kept(l[i])

\* A step of a job: the cluster and the jobs after it.
Goes == LiveOK(live') /\ worker' \in [Workers -> Jobs] /\ JobsOK'

\* A step that leaves the cluster alone, for a job that becomes r.
LEMMA QuietStep ==
  ASSUME IInv, NEW w \in Workers, NEW r \in Jobs, worker' = [worker EXCEPT ![w] = r],
         UNCHANGED live, JobOK(live, r)
  PROVE  Goes
  <1>1. LiveOK(live)
    BY DEF IInv, TypeOK, AliensKept, LiveOK
  <1>2. \A k \in Keys : Doomed(live, k) => Doomed(live', k)
    OBVIOUS
  <1> QED BY <1>1, <1>2, OneJob DEF Goes

\* A step of the job that only changes where it is, and what it holds.
LEMMA WorkerFacts ==
  ASSUME IInv, NEW w \in Workers
  PROVE  worker[w] \in Jobs /\ JobOK(live, worker[w])
  BY DEF IInv, TypeOK, JobsOK

\* The steps that begin a job or end it.
LEMMA StartStep ==
  ASSUME IInv, NEW w \in Workers,
         \/ StartUndeploy(w) \/ Stop(w) \/ Leave(w)
         \/ \E v \in Versions : \E req \in {Plain(v), Original(v)} : StartDeploy(w, req)
  PROVE  Goes
  <1>i. Idle \in Jobs /\ JobOK(live, Idle)
    BY IdleFacts
  <1>1. CASE StartUndeploy(w)
    <2> DEFINE r == [Idle EXCEPT !.pc = "check"]
    <2>1. worker' = [worker EXCEPT ![w] = r] /\ live' = live
      BY <1>1 DEF StartUndeploy
    <2>2. r \in Jobs /\ JobOK(live, r)
      BY DEF Idle, Jobs, JobOK
    <2> HIDE DEF r
    <2> QED BY <2>1, <2>2, QuietStep
  <1>2. CASE Stop(w)
    <2> DEFINE r == [worker[w] EXCEPT !.stopped = TRUE]
    <2>1. worker' = [worker EXCEPT ![w] = r] /\ live' = live
      BY <1>2 DEF Stop, IInv, TypeOK
    <2>2. r \in Jobs /\ JobOK(live, r)
      <3>1. /\ r \in Jobs /\ r.pc = worker[w].pc /\ r.req = worker[w].req
            /\ r.app = worker[w].app /\ r.todo = worker[w].todo /\ r.prune = worker[w].prune
            /\ r.left = worker[w].left /\ r.versions = worker[w].versions
            /\ r.present = worker[w].present /\ r.missed = worker[w].missed
        BY WorkerFacts DEF Jobs
      <3> HIDE DEF r
      <3> QED BY <3>1, WorkerFacts DEF JobOK, AllDoomed
    <2> HIDE DEF r
    <2> QED BY <2>1, <2>2, QuietStep
  <1>3. CASE Leave(w)
    BY <1>3, <1>i, QuietStep DEF Leave
  <1>4. ASSUME NEW v \in Versions, NEW req \in {Plain(v), Original(v)}, StartDeploy(w, req)
        PROVE  Goes
    <2> DEFINE r == [Idle EXCEPT !.pc = "look", !.req = req]
    <2>1. worker' = [worker EXCEPT ![w] = r] /\ live' = live
      BY <1>4 DEF StartDeploy
    <2>2. req \in Structs /\ req # None
      BY StructFacts
    <2>3. /\ r \in Jobs /\ r.pc = "look" /\ r.req = req /\ r.app = None
          /\ r.todo = {} /\ r.prune = {} /\ r.left = {}
      BY <2>2 DEF Idle, Jobs
    <2> HIDE DEF r
    <2>4. JobOK(live, r)
      BY <2>2, <2>3 DEF JobOK
    <2> QED BY <2>1, <2>3, <2>4, QuietStep
  <1> QED BY <1>1, <1>2, <1>3, <1>4

\* The steps of a deploy job.
LEMMA DeployStep ==
  ASSUME IInv, NEW w \in Workers, Look(w) \/ Render(w) \/ Prune(w) \/ ReadBack(w)
  PROVE  Goes
  <1> DEFINE j == worker[w]
  <1>0. j \in Jobs /\ JobOK(live, j) /\ AliensKept /\ worker \in [Workers -> Jobs]
    BY WorkerFacts DEF IInv, TypeOK
  <1>r. j.pc \in {"look", "render", "apply"} =>
          j.req # None /\ j.req \in Structs /\ j.left \cap Alien = {} /\ j.req.num \in Versions
    <2>1. j.pc \in {"look", "render", "apply"} =>
            j.req # None /\ j.req \in Structs /\ j.left \cap Alien = {}
      BY <1>0 DEF JobOK, Jobs
    <2> QED BY <2>1 DEF Structs
  <1>1. CASE Look(w)
    <2>1. j.pc = "look" /\ live' = live
      BY <1>1 DEF Look
    <2>2. CASE Cached(j.req)
      <3>1. appCache[j.req.num] \in Structs
        BY <1>r, <2>1, <2>2 DEF Cached, IInv, TypeOK
      <3>2. worker' = [worker EXCEPT ![w] = Syncing(j, appCache[j.req.num])]
        BY <1>0, <1>1, <2>2 DEF Look
      <3> QED BY <1>0, <1>r, <2>1, <3>1, <3>2, SyncingFacts, QuietStep
    <2>3. CASE ~Cached(j.req)
      <3> DEFINE r == [j EXCEPT !.pc = "render"]
      <3>1. worker' = [worker EXCEPT ![w] = r]
        BY <1>0, <1>1, <2>3 DEF Look
      <3>2. /\ r \in Jobs /\ r.pc = "render" /\ r.req = j.req /\ r.app = j.app
            /\ r.todo = j.todo /\ r.prune = j.prune /\ r.left = j.left
        BY <1>0 DEF Jobs
      <3> HIDE DEF r
      <3>3. JobOK(live, r)
        BY <1>0, <1>r, <2>1, <3>2 DEF JobOK
      <3> QED BY <2>1, <3>1, <3>2, <3>3, QuietStep
    <2> QED BY <2>2, <2>3
  <1>2. CASE Render(w)
    <2>1. j.pc = "render" /\ live' = live
      BY <1>2 DEF Render
    <2>2. CASE worker' = [worker EXCEPT ![w] = Idle]
      BY <2>1, <2>2, IdleFacts, QuietStep
    <2>3. CASE worker' = [worker EXCEPT ![w] = Syncing(j, j.req)]
      BY <1>0, <1>r, <2>1, <2>3, SyncingFacts, QuietStep
    <2> QED BY <1>0, <1>2, <2>2, <2>3 DEF Render
  <1>3. CASE Prune(w)
    <2>1. PICK k \in j.prune : /\ Deleted(k) \/ DeleteFails(k)
                               /\ worker' = [worker EXCEPT ![w].prune = @ \ {k}]
      BY <1>3 DEF Prune
    <2> DEFINE r == [j EXCEPT !.prune = @ \ {k}]
    <2>2. worker' = [worker EXCEPT ![w] = r] /\ j.pc = "apply"
      BY <1>0, <1>3, <2>1 DEF Prune
    <2>3. /\ r \in Jobs /\ r.pc = "apply" /\ r.req = j.req /\ r.app = j.app
          /\ r.todo = j.todo /\ r.prune = j.prune \ {k} /\ r.left = j.left
      BY <1>0, <2>2 DEF Jobs
    <2>4. k \in Keys \ Alien
      BY <1>0 DEF JobOK, Jobs
    <2> HIDE DEF r
    <2>5. JobOK(live', r)
      BY <1>0, <1>r, <2>2, <2>3 DEF JobOK
    <2>6. LiveOK(live') /\ \A i \in Keys : Doomed(live, i) => Doomed(live', i)
      BY <2>1, <2>4, DeletionFacts DEF LiveOK
    <2> QED BY <2>2, <2>3, <2>5, <2>6, OneJob DEF Goes
  <1>4. CASE ReadBack(w)
    <2>1. PICK pc \in {"done", "look"} :
            worker' = [worker EXCEPT ![w].pc = pc, ![w].app = None]
      BY <1>4 DEF ReadBack
    <2> DEFINE r == [j EXCEPT !.pc = pc, !.app = None]
    <2>2. worker' = [worker EXCEPT ![w] = r] /\ j.pc = "apply" /\ live' = live
      BY <1>0, <1>4, <2>1 DEF ReadBack
    <2>3. /\ r \in Jobs /\ r.pc = pc /\ r.req = j.req /\ r.app = None
          /\ r.todo = j.todo /\ r.prune = j.prune /\ r.left = j.left
      BY <1>0, <2>2 DEF Jobs
    <2> HIDE DEF r
    <2>4. JobOK(live, r)
      BY <1>0, <1>r, <2>2, <2>3 DEF JobOK
    <2> QED BY <2>2, <2>3, <2>4, QuietStep
  <1> QED BY <1>1, <1>2, <1>3, <1>4

\* A resource is created or updated, or a call fails.
LEMMA ApplyStep ==
  ASSUME IInv, NEW w \in Workers, Apply(w)
  PROVE  Goes
  <1> DEFINE j == worker[w]
  <1>0. /\ j \in Jobs /\ JobOK(live, j) /\ worker \in [Workers -> Jobs] /\ j.pc = "apply"
        /\ j.req # None /\ j.app # None
    BY WorkerFacts DEF IInv, TypeOK, Apply, JobOK
  <1>1. PICK k \in j.todo :
          \/ /\ Change(k, Resource(Mine, j.app.num, live[k] # None /\ live[k].dying))
             /\ worker' = [Fresh(k) EXCEPT ![w].todo = @ \ {k}]
          \/ /\ \/ worker' = [worker EXCEPT ![w].todo = @ \ {k}]
                \/ worker' = [worker EXCEPT ![w].todo = {}, ![w].prune = {}]
                \/ worker' = [worker EXCEPT ![w] = Idle]
             /\ UNCHANGED live
    BY DEF Apply
  <1>2. k \in Keys \ Alien
    BY <1>0 DEF JobOK, Jobs
  <1>3. ASSUME NEW todo \in SUBSET j.todo, NEW prune \in SUBSET j.prune, NEW l
        PROVE  LET r == [j EXCEPT !.todo = todo, !.prune = prune]
               IN  r \in Jobs /\ JobOK(l, r)
    <2> DEFINE r == [j EXCEPT !.todo = todo, !.prune = prune]
    <2>1. /\ r \in Jobs /\ r.pc = "apply" /\ r.req = j.req /\ r.app = j.app
          /\ r.todo = todo /\ r.prune = prune /\ r.left = j.left
      BY <1>0 DEF Jobs
    <2> HIDE DEF r
    <2>2. JobOK(l, r)
      BY <1>0, <2>1 DEF JobOK
    <2> QED BY <2>1, <2>2 DEF r
  <1>4. CASE /\ Change(k, Resource(Mine, j.app.num, live[k] # None /\ live[k].dying))
             /\ worker' = [Fresh(k) EXCEPT ![w].todo = @ \ {k}]
    <2> DEFINE dying == live[k] # None /\ live[k].dying
               new == Resource(Mine, j.app.num, dying)
               r == [j EXCEPT !.todo = j.todo \ {k}, !.prune = j.prune]
    <2>1. new \in Resources
      <3>1. j.app.num \in Versions
        BY <1>0 DEF Jobs, Structs
      <3>2. dying \in BOOLEAN
        OBVIOUS
      <3> HIDE DEF dying
      <3> QED BY <3>1, <3>2 DEF Resource, Resources
    <2>2. /\ LiveOK(live')
          /\ \A i \in Keys \ {k} : Doomed(live, i) => Doomed(live', i)
      BY <1>2, <1>4, <2>1, ChangeFacts DEF LiveOK, Doomed
    <2>3. /\ Fresh(k) \in [Workers -> Jobs]
          /\ \A u \in Workers : JobOK(live', Fresh(k)[u])
          /\ Fresh(k)[w] = j
      BY <1>0, <1>2, <2>2, FreshStep
    <2>4. r \in Jobs /\ JobOK(live', r)
      BY <1>3
    <2>5. r = [j EXCEPT !.todo = @ \ {k}]
      BY <1>0 DEF Jobs
    <2>6. worker' = [Fresh(k) EXCEPT ![w] = r]
      BY <1>4, <2>3, <2>5
    <2> HIDE DEF r
    <2>7. \A u \in Workers : worker'[u] = Fresh(k)[u] \/ worker'[u] = r
      BY <2>3, <2>6
    <2>8. worker' \in [Workers -> Jobs]
      BY <2>3, <2>4, <2>6
    <2> QED BY <2>2, <2>3, <2>4, <2>7, <2>8 DEF Goes, JobsOK
  <1>5. CASE UNCHANGED live
             /\ \/ worker' = [worker EXCEPT ![w].todo = @ \ {k}]
                \/ worker' = [worker EXCEPT ![w].todo = {}, ![w].prune = {}]
    <2>1. PICK todo \in SUBSET j.todo, prune \in SUBSET j.prune :
            worker' = [worker EXCEPT ![w] = [j EXCEPT !.todo = todo, !.prune = prune]]
      <3>1. [j EXCEPT !.todo = @ \ {k}] = [j EXCEPT !.todo = j.todo \ {k}, !.prune = j.prune]
        BY <1>0 DEF Jobs
      <3>2. CASE worker' = [worker EXCEPT ![w].todo = @ \ {k}]
        <4>1. worker' = [worker EXCEPT ![w] = [j EXCEPT !.todo = @ \ {k}]]
          BY <1>0, <3>2
        <4> QED BY <3>1, <4>1
      <3>3. CASE worker' = [worker EXCEPT ![w].todo = {}, ![w].prune = {}]
        <4>1. worker' = [worker EXCEPT ![w] = [j EXCEPT !.todo = {}, !.prune = {}]]
          BY <1>0, <3>3
        <4> QED BY <4>1
      <3> QED BY <1>5, <3>2, <3>3
    <2> DEFINE r == [j EXCEPT !.todo = todo, !.prune = prune]
    <2>2. r \in Jobs /\ JobOK(live, r)
      BY <1>3
    <2> HIDE DEF r
    <2> QED BY <1>5, <2>1, <2>2, QuietStep DEF r
  <1>6. CASE UNCHANGED live /\ worker' = [worker EXCEPT ![w] = Idle]
    BY <1>6, IdleFacts, QuietStep
  <1> QED BY <1>1, <1>4, <1>5, <1>6

\* The steps of a cleanup.
LEMMA CleanupStep ==
  ASSUME IInv, NEW w \in Workers,
         Cleanup(w) \/ DeleteVersion(w) \/ Delete(w) \/ EndLoop(w) \/ EndCleanup(w)
  PROVE  Goes
  <1> DEFINE j == worker[w]
  <1>0. j \in Jobs /\ JobOK(live, j) /\ AliensKept /\ worker \in [Workers -> Jobs]
    BY WorkerFacts DEF IInv, TypeOK
  <1>1. CASE Cleanup(w)
    <2> DEFINE pc == IF AllPresentVersions = {} THEN "done" ELSE "next"
               missed == { k \in Keys : \A v \in Versions : k \notin OfVersion(v) }
               r == [j EXCEPT !.pc = pc, !.versions = AllPresentVersions, !.present = FALSE,
                              !.missed = missed]
    <2>1. worker' = [worker EXCEPT ![w] = r] /\ live' = live /\ j.pc = "check"
      BY <1>0, <1>1 DEF Cleanup
    <2>2. /\ pc \in {"done", "next"} /\ missed \subseteq Keys
          /\ pc = "next" => AllPresentVersions # {}
          /\ pc = "done" => missed = Keys
          /\ AllPresentVersions \subseteq Versions
      BY DEF AllPresentVersions
    <2> HIDE DEF pc, missed
    <2>3. /\ r \in Jobs /\ r.pc = pc /\ r.req = j.req /\ r.app = j.app
          /\ r.todo = j.todo /\ r.prune = j.prune /\ r.left = j.left
          /\ r.versions = AllPresentVersions /\ r.missed = missed
      BY <1>0, <2>2 DEF Jobs
    <2> HIDE DEF r
    <2>4. JobOK(live, r)
      BY <1>0, <2>1, <2>2, <2>3 DEF JobOK, AllDoomed
    <2> QED BY <2>1, <2>3, <2>4, QuietStep
  <1>2. CASE DeleteVersion(w)
    <2> DEFINE v == Min(j.versions)
               todo == Expected(v) \cap FindAvailable
               r == [j EXCEPT !.pc = "delete", !.versions = @ \ {v}, !.left = FindAvailable,
                              !.todo = todo, !.missed = Keys \ FindAvailable]
               e == [j EXCEPT !.pc = "check"]
    <2>1. /\ worker' = [worker EXCEPT ![w] = r] \/ worker' = [worker EXCEPT ![w] = e]
          /\ live' = live /\ j.pc = "next"
      BY <1>0, <1>2 DEF DeleteVersion
    <2>2. /\ FindAvailable \subseteq Keys /\ FindAvailable \cap Alien = {}
          /\ todo \subseteq FindAvailable
      BY <1>0, FoundFacts
    <2> HIDE DEF v, todo
    <2>3. /\ r \in Jobs /\ r.pc = "delete" /\ r.req = j.req /\ r.app = j.app
          /\ r.todo = todo /\ r.prune = j.prune /\ r.left = FindAvailable
          /\ r.missed = Keys \ FindAvailable
      BY <1>0, <2>2 DEF Jobs
    <2>4. /\ e \in Jobs /\ e.pc = "check" /\ e.req = j.req /\ e.app = j.app
          /\ e.todo = j.todo /\ e.prune = j.prune /\ e.left = j.left
      BY <1>0 DEF Jobs
    <2> HIDE DEF r, e
    <2>5. JobOK(live, r)
      BY <1>0, <2>1, <2>2, <2>3 DEF JobOK
    <2>6. JobOK(live, e)
      BY <1>0, <2>1, <2>4 DEF JobOK
    <2> QED BY <2>1, <2>3, <2>4, <2>5, <2>6, QuietStep
  <1>3. CASE Delete(w)
    <2>1. PICK k \in j.todo :
            \/ Deleted(k) /\ worker' = [worker EXCEPT ![w].todo = @ \ {k}, ![w].left = @ \ {k}]
            \/ DeleteFails(k) /\ worker' = [worker EXCEPT ![w].todo = @ \ {k}]
      BY <1>3 DEF Delete
    <2>2. PICK left \in SUBSET j.left :
            /\ worker' = [worker EXCEPT ![w] = [j EXCEPT !.todo = j.todo \ {k}, !.left = left]]
            /\ left = j.left \/ (Deleted(k) /\ left = j.left \ {k})
      <3>1. CASE Deleted(k) /\ worker' = [worker EXCEPT ![w].todo = @ \ {k}, ![w].left = @ \ {k}]
        <4>1. worker' = [worker EXCEPT ![w] = [j EXCEPT !.todo = j.todo \ {k},
                                                        !.left = j.left \ {k}]]
          BY <1>0, <3>1
        <4> QED BY <3>1, <4>1
      <3>2. CASE worker' = [worker EXCEPT ![w].todo = @ \ {k}]
        <4>1. [j EXCEPT !.todo = j.todo \ {k}, !.left = j.left] = [j EXCEPT !.todo = @ \ {k}]
          BY <1>0 DEF Jobs
        <4>2. worker' = [worker EXCEPT ![w] = [j EXCEPT !.todo = @ \ {k}]]
          BY <1>0, <3>2
        <4> QED BY <4>1, <4>2
      <3> QED BY <2>1, <3>1, <3>2
    <2>3. k \in Keys \ Alien /\ j.pc \in {"delete", "rest"}
      BY <1>0, <1>3 DEF JobOK, Jobs, Delete
    <2>4. /\ LiveOK(live') /\ \A i \in Keys : Doomed(live, i) => Doomed(live', i)
          /\ Deleted(k) => Doomed(live', k)
      BY <2>1, <2>3, DeletionFacts DEF LiveOK
    <2> DEFINE r == [j EXCEPT !.todo = j.todo \ {k}, !.left = left]
    <2>5. /\ r \in Jobs /\ r.pc = j.pc /\ r.req = j.req /\ r.app = j.app
          /\ r.todo = j.todo \ {k} /\ r.prune = j.prune /\ r.left = left
          /\ r.missed = j.missed
      BY <1>0 DEF Jobs
    <2> HIDE DEF r
    <2>6. JobOK(live', r)
      BY <1>0, <2>2, <2>3, <2>4, <2>5 DEF JobOK
    <2> QED BY <2>2, <2>4, <2>5, <2>6, OneJob DEF Goes, r
  <1>4. CASE EndLoop(w)
    <2>0. j.pc \in {"delete", "rest"} /\ live' = live
      BY <1>4 DEF EndLoop
    <2>1. CASE j.pc = "delete"
      <3> DEFINE r == [j EXCEPT !.pc = "rest", !.todo = j.left]
      <3>1. worker' = [worker EXCEPT ![w] = r]
        BY <1>0, <1>4, <2>1 DEF EndLoop
      <3>2. /\ r \in Jobs /\ r.pc = "rest" /\ r.req = j.req /\ r.app = j.app
            /\ r.todo = j.left /\ r.prune = j.prune /\ r.left = j.left
            /\ r.missed = j.missed
        BY <1>0 DEF Jobs
      <3> HIDE DEF r
      <3>3. JobOK(live, r)
        BY <1>0, <2>1, <3>2 DEF JobOK
      <3> QED BY <2>0, <3>1, <3>2, <3>3, QuietStep
    <2>2. CASE j.pc = "rest"
      <3> DEFINE present == IF j.left = {} THEN j.present ELSE TRUE
                 r == [j EXCEPT !.pc = "next", !.present = present]
      <3>1. worker' = [worker EXCEPT ![w] = r]
        BY <1>0, <1>4, <2>2 DEF EndLoop
      <3>p. present \in BOOLEAN /\ (~present => j.left = {})
        BY <1>0 DEF Jobs
      <3> HIDE DEF present
      <3>2. /\ r \in Jobs /\ r.pc = "next" /\ r.req = j.req /\ r.app = j.app
            /\ r.todo = j.todo /\ r.prune = j.prune /\ r.left = j.left
            /\ r.missed = j.missed /\ r.present = present
        BY <1>0, <3>p DEF Jobs
      <3> HIDE DEF r
      <3>3. j.req = None /\ ~present => AllDoomed(live, r)
        BY <1>0, <2>2, <3>p, <3>2 DEF JobOK, AllDoomed
      <3>4. JobOK(live, r)
        BY <1>0, <2>2, <3>2, <3>3 DEF JobOK
      <3> QED BY <2>0, <3>1, <3>2, <3>4, QuietStep
    <2> QED BY <2>0, <2>1, <2>2
  <1>5. CASE EndCleanup(w)
    <2> DEFINE pc == IF j.present THEN "check" ELSE "done"
               r == [j EXCEPT !.pc = pc]
    <2>1. /\ worker' = [worker EXCEPT ![w] = r] /\ live' = live
          /\ j.pc = "next" /\ j.versions = {}
      BY <1>0, <1>5 DEF EndCleanup
    <2>2. pc \in {"check", "done"} /\ (pc = "done" => ~j.present)
      OBVIOUS
    <2> HIDE DEF pc
    <2>3. /\ r \in Jobs /\ r.pc = pc /\ r.req = j.req /\ r.app = j.app
          /\ r.todo = j.todo /\ r.prune = j.prune /\ r.left = j.left
          /\ r.missed = j.missed
      BY <1>0, <2>2 DEF Jobs
    <2> HIDE DEF r
    <2>4. JobOK(live, r)
      BY <1>0, <2>1, <2>2, <2>3 DEF JobOK, AllDoomed
    <2> QED BY <2>1, <2>3, <2>4, QuietStep
  <1> QED BY <1>1, <1>2, <1>3, <1>4, <1>5

\* The cluster and its users, and a restart.
LEMMA EnvironmentStep ==
  ASSUME IInv,
         \/ \E k \in Keys : Observe(k) \/ Vanish(k)
         \/ \E k \in DOMAIN Parent : Spawn(k) \/ Collect(k)
         \/ \E k \in Own : Lose(k) \/ Strip(k)
         \/ \E v \in Versions : Withdraw(v)
         \/ \E v \in Versions : \E req \in {Plain(v), Original(v)} : RenderElsewhere(req)
         \/ Restart
  PROVE  Goes
  <1>l. LiveOK(live) /\ live \in [Keys -> Resources \cup {None}]
    BY DEF IInv, TypeOK, AliensKept, LiveOK
  <1>o. \A k \in Own : k \in Keys \ Alien
    BY KeyFacts
  <1>q. ASSUME UNCHANGED <<live, worker>>
        PROVE  Goes
    <2>1. \A k \in Keys : Doomed(live, k) => Doomed(live', k)
      BY <1>q
    <2> QED BY <1>l, <1>q, <2>1, NoJob DEF Goes
  <1>1. CASE \/ \E k \in Keys : Observe(k)
             \/ \E v \in Versions : Withdraw(v)
             \/ \E v \in Versions : \E req \in {Plain(v), Original(v)} : RenderElsewhere(req)
    BY <1>1, <1>q DEF Observe, Withdraw, RenderElsewhere
  <1>2. ASSUME NEW k \in Keys, Vanish(k)
        PROVE  Goes
    <2>1. k \in Keys \ Alien
      BY <1>2 DEF Vanish, IInv, AliensKept, Kept
    <2>2. Change(k, None) /\ UNCHANGED worker
      BY <1>2 DEF Vanish
    <2>3. LiveOK(live') /\ live'[k] = None /\ \A i \in Keys : i # k => live'[i] = live[i]
      BY <2>1, <2>2, ChangeFacts DEF LiveOK
    <2>4. \A i \in Keys : Doomed(live, i) => Doomed(live', i)
      BY <2>3 DEF Doomed
    <2> QED BY <2>2, <2>3, <2>4, NoJob DEF Goes
  <1>3. ASSUME NEW k \in DOMAIN Parent, Spawn(k)
        PROVE  Goes
    <2>1. k \in Keys \ Alien /\ Parent[k] \in Keys
      BY <1>o, KeyFacts
    <2>2. Change(k, live[Parent[k]]) /\ worker' = Fresh(k)
      BY <1>3 DEF Spawn
    <2>3. live[Parent[k]] \in Resources \cup {None}
      BY <1>l, <2>1
    <2>4. /\ LiveOK(live')
          /\ \A i \in Keys \ {k} : Doomed(live, i) => Doomed(live', i)
      BY <2>1, <2>2, <2>3, ChangeFacts DEF LiveOK, Doomed
    <2>5. /\ Fresh(k) \in [Workers -> Jobs]
          /\ \A u \in Workers : JobOK(live', Fresh(k)[u])
      BY <2>1, <2>4, FreshStep
    <2> QED BY <2>2, <2>4, <2>5 DEF Goes, JobsOK
  <1>4. ASSUME NEW k \in Own, live[k] # None, Change(k, Dying(k)), UNCHANGED worker
        PROVE  Goes
    <2>1. LiveOK(live') /\ \A i \in Keys : Doomed(live, i) => Doomed(live', i)
      BY <1>4, <1>o, DyingFacts DEF LiveOK
    <2> QED BY <1>4, <2>1, NoJob DEF Goes
  <1>5. CASE (\E k \in DOMAIN Parent : Collect(k)) \/ \E k \in Own : Lose(k)
    BY <1>4, <1>5, KeyFacts DEF Collect, Lose
  <1>6. ASSUME NEW k \in Own, Strip(k)
        PROVE  Goes
    <2> DEFINE r == [live[k] EXCEPT !.label = NoLabel]
    <2>1. Change(k, r) /\ UNCHANGED worker /\ live[k] # None
      BY <1>6 DEF Strip
    <2>2. k \in Keys \ Alien /\ live[k] \in Resources
      BY <1>l, <1>o, <2>1
    <2>3. r \in Resources /\ r.dying = live[k].dying
      BY <2>2 DEF Resources
    <2> HIDE DEF r
    <2>4. LiveOK(live') /\ live'[k] = r /\ \A i \in Keys : i # k => live'[i] = live[i]
      BY <2>1, <2>2, <2>3, ChangeFacts DEF LiveOK
    <2>5. \A i \in Keys : Doomed(live, i) => Doomed(live', i)
      BY <2>1, <2>3, <2>4 DEF Doomed
    <2> QED BY <2>1, <2>4, <2>5, NoJob DEF Goes
  <1>7. CASE Restart
    <2>1. worker' = [w \in Workers |-> Idle] /\ live' = live
      BY <1>7 DEF Restart
    <2>2. worker' \in [Workers -> Jobs] /\ \A w \in Workers : worker'[w] = Idle
      BY <2>1, IdleFacts
    <2>3. \A w \in Workers : JobOK(live', worker'[w])
      BY <2>2, IdleFacts
    <2> QED BY <1>l, <2>1, <2>2, <2>3 DEF Goes, JobsOK
  <1> QED BY <1>1, <1>2, <1>3, <1>5, <1>6, <1>7

\* Every step.
LEMMA Steps ==
  ASSUME IInv, Next
  PROVE  Goes
  BY StartStep, DeployStep, ApplyStep, CleanupStep, EnvironmentStep DEF Next, JobStep

\* What every step keeps: health and caches of others stay, the repository only
\* loses charts, the cluster cache takes over what is in the cluster.
Frame ==
  /\ health' = health /\ outdated' = outdated /\ repo' \subseteq repo
  /\ cache' = cache \/ cache' = live \/ \E k \in Keys : cache' = [cache EXCEPT ![k] = live[k]]

LEMMA WorldFrame ==
  ASSUME UNCHANGED world
  PROVE  Frame
  BY DEF world, Frame

LEMMA JobFrame ==
  ASSUME NEW w \in Workers, JobStep(w)
  PROVE  Frame
  <1>1. CASE Look(w) \/ Render(w)
    BY <1>1, WorldFrame DEF Look, Render
  <1>2. CASE Apply(w) \/ Prune(w)
    BY <1>2, WorldFrame DEF Apply, Prune
  <1>3. CASE ReadBack(w) \/ Cleanup(w)
    BY <1>3, WorldFrame DEF ReadBack, Cleanup
  <1>4. CASE DeleteVersion(w) \/ Delete(w)
    BY <1>4, WorldFrame DEF DeleteVersion, Delete
  <1>5. CASE EndLoop(w) \/ EndCleanup(w)
    BY <1>5, WorldFrame DEF EndLoop, EndCleanup
  <1> QED BY <1>1, <1>2, <1>3, <1>4, <1>5 DEF JobStep

LEMMA Frames ==
  ASSUME Next
  PROVE  Frame
  <1>1. ASSUME NEW w \in Workers, StartUndeploy(w) \/ Stop(w) \/ Leave(w)
        PROVE  Frame
    BY <1>1, WorldFrame DEF StartUndeploy, Stop, Leave
  <1>2. ASSUME NEW req, RenderElsewhere(req) \/ \E w \in Workers : StartDeploy(w, req)
        PROVE  Frame
    BY <1>2, WorldFrame DEF RenderElsewhere, StartDeploy
  <1>3. ASSUME NEW k \in Keys, Observe(k)
        PROVE  Frame
    BY <1>3 DEF Observe, environment, Frame
  <1>4. ASSUME NEW k, Vanish(k)
        PROVE  Frame
    BY <1>4 DEF Vanish, environment, Frame
  <1>5. ASSUME NEW k, Spawn(k) \/ Collect(k)
        PROVE  Frame
    BY <1>5 DEF Spawn, Collect, environment, Frame
  <1>6. ASSUME NEW k, Lose(k) \/ Strip(k)
        PROVE  Frame
    BY <1>6 DEF Lose, Strip, environment, Frame
  <1>7. ASSUME NEW v, Withdraw(v)
        PROVE  Frame
    BY <1>7 DEF Withdraw, environment, Frame
  <1>8. CASE Restart
    BY <1>8 DEF Restart, Frame
  <1> QED BY <1>1, <1>2, <1>3, <1>4, <1>5, <1>6, <1>7, <1>8, JobFrame DEF Next

\* The cluster cache takes over what is in the cluster.
LEMMA CacheStep ==
  ASSUME IInv, Next
  PROVE  LiveOK(cache')
  <1>1. cache' = cache \/ cache' = live \/ \E k \in Keys : cache' = [cache EXCEPT ![k] = live[k]]
    BY Frames DEF Frame
  <1>2. LiveOK(live) /\ LiveOK(cache)
    BY DEF IInv, TypeOK, AliensKept, LiveOK
  <1>3. Alien \subseteq Keys
    BY KeyFacts
  <1> QED BY <1>1, <1>2, <1>3 DEF LiveOK

\* An event.
LEMMA SpendType ==
  ASSUME IInv, NEW kind \in EventKinds, Spend(kind)
  PROVE  budget' \in [EventKinds -> Nat]
  BY DEF IInv, TypeOK, Spend

\* A step costs nothing, or one event of some kind.
Costs == UNCHANGED budget \/ \E kind \in EventKinds : Spend(kind)

LEMMA DeletionCosts ==
  ASSUME NEW k, Deleted(k) \/ DeleteFails(k)
  PROVE  Costs
  BY DEF Deleted, DeleteFails, Costs, EventKinds

LEMMA JobCosts ==
  ASSUME NEW w \in Workers, JobStep(w)
  PROVE  Costs
  <1>1. CASE Look(w) \/ Cleanup(w) \/ EndLoop(w) \/ EndCleanup(w)
    BY <1>1 DEF Look, Cleanup, EndLoop, EndCleanup, Costs
  <1>2. CASE Render(w)
    BY <1>2 DEF Render, Costs, EventKinds
  <1>3. CASE Apply(w)
    BY <1>3 DEF Apply, Costs, EventKinds
  <1>4. CASE Prune(w) \/ Delete(w)
    BY <1>4, DeletionCosts DEF Prune, Delete
  <1>5. CASE ReadBack(w)
    BY <1>5 DEF ReadBack, Costs, EventKinds
  <1>6. CASE DeleteVersion(w)
    BY <1>6 DEF DeleteVersion, Costs, EventKinds
  <1> QED BY <1>1, <1>2, <1>3, <1>4, <1>5, <1>6 DEF JobStep

LEMMA StepCosts ==
  ASSUME Next
  PROVE  Costs
  <1>1. ASSUME NEW w \in Workers, StartUndeploy(w) \/ Stop(w) \/ Leave(w)
        PROVE  Costs
    BY <1>1 DEF StartUndeploy, Stop, Leave, Costs, EventKinds
  <1>2. ASSUME NEW req, RenderElsewhere(req) \/ \E w \in Workers : StartDeploy(w, req)
        PROVE  Costs
    BY <1>2 DEF RenderElsewhere, StartDeploy, Costs, EventKinds
  <1>3. ASSUME NEW k, Observe(k) \/ Vanish(k) \/ Collect(k)
        PROVE  Costs
    BY <1>3 DEF Observe, Vanish, Collect, Costs
  <1>4. ASSUME NEW k, Spawn(k)
        PROVE  Costs
    BY <1>4 DEF Spawn, Costs, EventKinds
  <1>5. ASSUME NEW k, Lose(k) \/ Strip(k)
        PROVE  Costs
    BY <1>5 DEF Lose, Strip, Costs, EventKinds
  <1>6. ASSUME NEW v, Withdraw(v)
        PROVE  Costs
    BY <1>6 DEF Withdraw, Costs, EventKinds
  <1>7. CASE Restart
    BY <1>7 DEF Restart, Costs, EventKinds
  <1> QED BY <1>1, <1>2, <1>3, <1>4, <1>5, <1>6, <1>7, JobCosts DEF Next

\* The rendered charts.
RendersKept ==
  \/ UNCHANGED appCache
  \/ appCache' = [v \in Versions |-> None]
  \/ appCache' = AfterLoad
  \/ \E w \in Workers : Render(w) /\ appCache' = [appCache EXCEPT ![worker[w].req.num] = worker[w].req]
  \/ \E w \in Workers : DeleteVersion(w)
  \/ \E v \in Versions : \E req \in {Plain(v), Original(v)} :
       appCache' = [appCache EXCEPT ![req.num] = req]

LEMMA JobCharted ==
  ASSUME NEW w \in Workers, JobStep(w)
  PROVE  RendersKept
  <1>1. CASE Look(w) \/ Apply(w) \/ Prune(w)
    BY <1>1 DEF Look, Apply, Prune, RendersKept
  <1>2. CASE Render(w)
    <2>1. UNCHANGED appCache \/ appCache' = [appCache EXCEPT ![worker[w].req.num] = worker[w].req]
      BY <1>2 DEF Render
    <2> QED BY <1>2, <2>1 DEF RendersKept
  <1>3. CASE ReadBack(w)
    BY <1>3 DEF ReadBack, RendersKept
  <1>4. CASE Cleanup(w) \/ Delete(w)
    BY <1>4 DEF Cleanup, Delete, RendersKept
  <1>5. CASE EndLoop(w) \/ EndCleanup(w)
    BY <1>5 DEF EndLoop, EndCleanup, RendersKept
  <1>6. CASE DeleteVersion(w)
    BY <1>6 DEF RendersKept
  <1> QED BY <1>1, <1>2, <1>3, <1>4, <1>5, <1>6 DEF JobStep

LEMMA Charted ==
  ASSUME Next
  PROVE  RendersKept
  <1>1. ASSUME NEW w \in Workers, StartUndeploy(w) \/ Stop(w) \/ Leave(w)
        PROVE  UNCHANGED appCache
    BY <1>1 DEF StartUndeploy, Stop, Leave
  <1>2. ASSUME NEW v \in Versions, NEW req \in {Plain(v), Original(v)}, RenderElsewhere(req)
        PROVE  RendersKept
    BY <1>2 DEF RenderElsewhere, RendersKept
  <1>3. ASSUME NEW req, NEW w, StartDeploy(w, req)
        PROVE  UNCHANGED appCache
    BY <1>3 DEF StartDeploy
  <1>4. ASSUME NEW k, Observe(k) \/ Vanish(k) \/ Spawn(k) \/ Collect(k)
        PROVE  UNCHANGED appCache
    BY <1>4 DEF Observe, Vanish, Spawn, Collect, environment
  <1>5. ASSUME NEW k, Lose(k) \/ Strip(k) \/ Withdraw(k)
        PROVE  UNCHANGED appCache
    BY <1>5 DEF Lose, Strip, Withdraw, environment
  <1>6. CASE Restart
    BY <1>6 DEF Restart, RendersKept
  <1>7. UNCHANGED appCache => RendersKept
    BY DEF RendersKept
  <1> HIDE DEF RendersKept
  <1> QED BY <1>1, <1>2, <1>3, <1>4, <1>5, <1>6, <1>7, JobCharted DEF Next

\* The rendered charts, the repository and the events.
LEMMA RestType ==
  ASSUME IInv, Next
  PROVE  /\ appCache' \in [Versions -> Structs \cup {None}] /\ repo' \subseteq Versions
         /\ health' = health /\ outdated' = outdated
         /\ budget' \in [EventKinds -> Nat]
  <1>1. /\ appCache \in [Versions -> Structs \cup {None}] /\ repo \subseteq Versions
        /\ budget \in [EventKinds -> Nat] /\ worker \in [Workers -> Jobs]
    BY DEF IInv, TypeOK
  <1>2. health' = health /\ outdated' = outdated
    BY Frames DEF Frame
  <1>3. repo' \subseteq repo
    BY Frames DEF Frame
  <1>4. UNCHANGED budget \/ \E kind \in EventKinds : Spend(kind)
    BY StepCosts DEF Costs
  <1>5. budget' \in [EventKinds -> Nat]
    BY <1>1, <1>4, SpendType
  <1>6. \/ UNCHANGED appCache
        \/ appCache' = [v \in Versions |-> None]
        \/ appCache' = AfterLoad
        \/ \E w \in Workers : Render(w) /\ appCache' = [appCache EXCEPT ![worker[w].req.num] = worker[w].req]
        \/ \E w \in Workers : DeleteVersion(w)
        \/ \E v \in Versions : \E req \in {Plain(v), Original(v)} :
             appCache' = [appCache EXCEPT ![req.num] = req]
    BY Charted DEF RendersKept
  <1>7. CASE appCache' = [v \in Versions |-> None] \/ appCache' = AfterLoad
    BY <1>1, <1>2, <1>3, <1>5, <1>7, StructFacts DEF AfterLoad
  <1>8. ASSUME NEW w \in Workers, Render(w),
               appCache' = [appCache EXCEPT ![worker[w].req.num] = worker[w].req]
        PROVE  appCache' \in [Versions -> Structs \cup {None}]
    <2>1. worker[w].req # None /\ worker[w].req \in Structs
      BY <1>1, <1>8, WorkerFacts DEF Render, JobOK, Jobs
    <2> QED BY <1>1, <1>8, <2>1
  <1>9. ASSUME NEW w \in Workers, DeleteVersion(w)
        PROVE  appCache' \in [Versions -> Structs \cup {None}]
    <2> DEFINE v == Min(worker[w].versions)
    <2>1. \/ UNCHANGED appCache
          \/ appCache' = [appCache EXCEPT ![v] = IF @ = None THEN Plain(v) ELSE @]
      BY <1>9 DEF DeleteVersion
    <2>2. v \in Versions
      <3>1. worker[w].versions \in SUBSET Versions /\ worker[w].versions # {}
        BY <1>1, <1>9 DEF DeleteVersion, Jobs
      <3> QED BY <3>1, OldestVersion
    <2> HIDE DEF v
    <2> QED BY <1>1, <2>1, <2>2, StructFacts
  <1>10. ASSUME NEW v \in Versions, NEW req \in {Plain(v), Original(v)},
                appCache' = [appCache EXCEPT ![req.num] = req]
         PROVE  appCache' \in [Versions -> Structs \cup {None}]
    BY <1>1, <1>10, StructFacts
  <1>11. appCache' \in [Versions -> Structs \cup {None}]
    BY <1>1, <1>6, <1>7, <1>8, <1>9, <1>10
  <1> QED BY <1>1, <1>2, <1>3, <1>5, <1>11

\* In the beginning nothing runs and the resources of others are there.
LEMMA InitIInv ==
  ASSUME Init
  PROVE  IInv
  <1>1. PICK v0 \in Versions : v0 = CHOOSE v \in Versions : TRUE
    BY AppSyncAssumption
  <1>2. \A k \in DOMAIN Foreign :
          /\ Resource(InstanceId(Foreign[k]), v0, FALSE) \in Resources
          /\ Resource(InstanceId(Foreign[k]), v0, FALSE).inst = InstanceId(Foreign[k])
          /\ ~Resource(InstanceId(Foreign[k]), v0, FALSE).dying
    BY DEF Resource, Resources
  <1>3. live = [k \in Keys |-> IF k \in Own THEN None
                               ELSE Resource(InstanceId(Foreign[k]), v0, FALSE)]
    BY <1>1 DEF Init
  <1>4. live \in [Keys -> Resources \cup {None}]
    BY <1>2, <1>3 DEF Keys
  <1>5. \A k \in Alien : Kept(live[k])
    <2>1. ASSUME NEW k \in Alien
          PROVE  Kept(live[k])
      <3>1. k \in Keys /\ k \notin Own /\ k \in DOMAIN Foreign /\ InstanceId(Foreign[k]) # Mine
        BY KeyFacts DEF Alien
      <3>2. live[k] = Resource(InstanceId(Foreign[k]), v0, FALSE)
        BY <1>3, <3>1
      <3> QED BY <1>2, <3>1, <3>2, AppSyncAssumption DEF Kept
    <2> QED BY <2>1
  <1>6. cache = live /\ \A w \in Workers : worker[w] = Idle
    BY DEF Init
  <1>7. worker \in [Workers -> Jobs] /\ JobsOK
    <2>1. Idle \in Jobs /\ JobOK(live, Idle)
      BY IdleFacts
    <2> QED BY <2>1 DEF Init, JobsOK
  <1>8. \A w \in Workers : (worker[w].pc = "apply") = (worker[w].app # None)
    BY <1>6 DEF Idle
  <1>9. /\ appCache \in [Versions -> Structs \cup {None}] /\ repo \subseteq Versions
        /\ health \in [Keys -> Codes] /\ outdated \subseteq Keys
        /\ budget \in [EventKinds -> Nat]
    BY AppSyncAssumption DEF Init
  <1>10. TypeOK
    BY <1>4, <1>6, <1>7, <1>8, <1>9 DEF TypeOK
  <1> QED BY <1>5, <1>6, <1>7, <1>10 DEF IInv, AliensKept

\* Every step preserves the invariant.
LEMMA NextIInv ==
  ASSUME IInv, [Next]_vars
  PROVE  IInv'
  <1>1. CASE Next
    <2>1. /\ LiveOK(live') /\ LiveOK(cache') /\ worker' \in [Workers -> Jobs] /\ JobsOK'
      BY <1>1, Steps, CacheStep DEF Goes
    <2>2. \A w \in Workers : (worker'[w].pc = "apply") = (worker'[w].app # None)
      BY <2>1 DEF JobsOK, JobOK
    <2>3. TypeOK'
      BY <1>1, <2>1, <2>2, RestType DEF TypeOK, IInv, LiveOK
    <2> QED BY <2>1, <2>3 DEF IInv, AliensKept, LiveOK
  <1>2. CASE UNCHANGED vars
    BY <1>2 DEF vars, IInv, TypeOK, JobsOK, AliensKept
  <1> QED BY <1>1, <1>2

-----------------------------------------------------------------------------
(***************************************************************************)
(* The two computations of the health.                                     *)
(***************************************************************************)

\* Induction up to n, on a set of numbers.
LEMMA CountUp ==
  ASSUME NEW n \in Nat, NEW G, 0 \in G, \A i \in 1..n : i - 1 \in G => i \in G
  PROVE  0..n \subseteq G
  <1> DEFINE Bad == { i \in 0..n : i \notin G }
  <1>1. SUFFICES ASSUME Bad # {} PROVE FALSE
    OBVIOUS
  <1>2. Bad \subseteq Nat
    OBVIOUS
  <1> HIDE DEF Bad
  <1>3. PICK m \in Bad : \A k \in Bad : ~(<<k, m>> \in OpToRel(<, Nat))
    BY <1>1, <1>2, NatLessThanWellFounded, WFMin
  <1>4. m \in 0..n /\ m \notin G
    BY DEF Bad
  <1>5. m # 0 /\ m \in 1..n /\ m - 1 \in Nat /\ m - 1 \in 0..n /\ m - 1 < m
    BY <1>4
  <1>6. <<m - 1, m>> \in OpToRel(<, Nat)
    BY <1>5 DEF OpToRel
  <1>7. m - 1 \notin Bad
    BY <1>3, <1>6
  <1>8. m - 1 \in G
    BY <1>5, <1>7 DEF Bad
  <1> QED BY <1>4, <1>5, <1>8

\* A loop of n rounds: what it has after each.
Rounds(n, S, start, step, g) ==
  /\ g \in [0..n -> S]
  /\ \A i \in 0..n : g[i] = IF i = 0 THEN start ELSE step[i][g[i - 1]]

\* A loop has a result.
LEMMA LoopExists ==
  ASSUME NEW n \in Nat, NEW S, NEW start \in S, NEW step \in [1..n -> [S -> S]]
  PROVE  \E g : Rounds(n, S, start, step, g)
  <1> DEFINE Run(g, m) == Rounds(m, S, start, step, g)
             Good == { m \in 0..n : \E g : Run(g, m) }
  <1>1. 0 \in Good
    <2> DEFINE h == [i \in 0..0 |-> start]
    <2>1. Run(h, 0)
      BY DEF Rounds
    <2> HIDE DEF h
    <2>2. 0 \in 0..n
      OBVIOUS
    <2> QED BY <2>1, <2>2
  <1>2. ASSUME NEW m \in 1..n, m - 1 \in Good PROVE m \in Good
    <2>1. PICK g : Run(g, m - 1)
      BY <1>2
    <2>2. m - 1 \in 0..(m - 1) /\ m \in 0..n /\ m # 0 /\ m - 1 \in 0..m /\ m - 1 # m /\ m \in 0..m
      OBVIOUS
    <2> DEFINE last == step[m][g[m - 1]]
               h == [i \in 0..m |-> IF i = m THEN last ELSE g[i]]
    <2>3. last \in S
      BY <2>1, <2>2 DEF Rounds
    <2>4. h \in [0..m -> S]
      <3>1. \A i \in 0..m : i = m \/ i \in 0..(m - 1)
        OBVIOUS
      <3> HIDE DEF last
      <3> QED BY <2>1, <2>3, <3>1 DEF Rounds
    <2>5. ASSUME NEW i \in 0..m PROVE h[i] = IF i = 0 THEN start ELSE step[i][h[i - 1]]
      <3>1. CASE i = m
        <4>1. h[m] = last /\ h[m - 1] = g[m - 1]
          BY <2>2
        <4> HIDE DEF h
        <4> QED BY <2>2, <3>1, <4>1
      <3>2. CASE i # m
        <4>1. i \in 0..(m - 1)
          BY <2>5, <3>2
        <4>2. i - 1 # m /\ (i # 0 => i - 1 \in 0..m)
          BY <4>1
        <4> HIDE DEF last
        <4>3. h[i] = g[i] /\ (i # 0 => h[i - 1] = g[i - 1])
          BY <3>2, <4>2
        <4>4. g[i] = IF i = 0 THEN start ELSE step[i][g[i - 1]]
          BY <2>1, <4>1 DEF Rounds
        <4> HIDE DEF h
        <4> QED BY <4>3, <4>4
      <3> QED BY <3>1, <3>2
    <2> HIDE DEF h
    <2>6. Run(h, m)
      BY <2>4, <2>5 DEF Rounds
    <2> QED BY <2>2, <2>6
  <1> HIDE DEF Good
  <1>3. 0..n \subseteq Good
    BY <1>1, <1>2, CountUp
  <1>4. n \in Good
    BY <1>3
  <1> QED BY <1>4 DEF Good

Ranked == Range(HealthOrder)

\* The codes GetResourceHealth knows are ranked, from healthy to unknown.
LEMMA RankFacts ==
  /\ Ranked = {"Healthy", "Suspended", "Progressing", "Missing", "Degraded", "Unknown"}
  /\ \A c \in Ranked : Rank(c) \in 1..6 /\ HealthOrder[Rank(c)] = c
  /\ \A c \in Ranked : ~IsWorse(c, "Healthy")
  /\ \A c \in Ranked : ~IsWorse(c, c)
  /\ \A c, d \in Ranked : IsWorse(c, d) => Rank(d) > Rank(c)
  <1>1. DOMAIN HealthOrder = 1..6
    BY DEF HealthOrder
  <1>2. Ranked = {"Healthy", "Suspended", "Progressing", "Missing", "Degraded", "Unknown"}
    BY <1>1 DEF Ranked, Range, HealthOrder
  <1>3. \A c \in Ranked : \E i \in 1..6 : HealthOrder[i] = c
    BY <1>1 DEF Ranked, Range
  <1>4. \A c \in Ranked : Rank(c) \in 1..6 /\ HealthOrder[Rank(c)] = c
    BY <1>1, <1>3 DEF Rank
  <1>5. HealthOrder[1] = "Healthy" /\ \A i \in 1..6 : HealthOrder[i] = "Healthy" => i = 1
    BY DEF HealthOrder
  <1>6. Rank("Healthy") = 1
    BY <1>2, <1>4, <1>5
  <1> QED BY <1>2, <1>4, <1>6 DEF IsWorse

LEMMA RankInt ==
  ASSUME NEW c \in Ranked
  PROVE  Rank(c) \in Int
  <1>1. Rank(c) \in 1..6
    BY RankFacts
  <1> QED BY <1>1

\* The loop of Worst: what the code is after each round.
IsLoop(n, codes, skipped, g) ==
  /\ g[0] = "Healthy"
  /\ \A i \in 1..n :
       g[i] = IF codes[i] \notin skipped /\ IsWorse(g[i - 1], codes[i]) THEN codes[i] ELSE g[i - 1]

LEMMA WorstLoop ==
  ASSUME NEW n \in Nat, NEW codes \in [1..n -> Codes], NEW skipped,
         \A i \in 1..n : codes[i] \in skipped \/ codes[i] \in Ranked
  PROVE  \E g : IsLoop(n, codes, skipped, g) /\ Worst(codes, skipped) = g[n]
  <1> DEFINE Body(f) == [i \in 0..n |->
                           IF i = 0 THEN "Healthy"
                           ELSE IF codes[i] \notin skipped /\ IsWorse(f[i - 1], codes[i]) THEN codes[i]
                           ELSE f[i - 1]]
             code == CHOOSE f : f = Body(f)
             step == [i \in 1..n |-> [c \in Ranked |->
                        IF codes[i] \notin skipped /\ IsWorse(c, codes[i]) THEN codes[i] ELSE c]]
  <1>1. Len(codes) = n
    OBVIOUS
  <1>2. "Healthy" \in Ranked
    BY RankFacts
  <1>3. step \in [1..n -> [Ranked -> Ranked]]
    OBVIOUS
  <1>4. PICK g : Rounds(n, Ranked, "Healthy", step, g)
    <2> HIDE DEF step
    <2> QED BY <1>2, <1>3, LoopExists
  <1>5. ASSUME NEW i \in 0..n, i # 0
        PROVE  step[i][g[i - 1]] =
                 IF codes[i] \notin skipped /\ IsWorse(g[i - 1], codes[i]) THEN codes[i]
                 ELSE g[i - 1]
    <2>1. i \in 1..n /\ i - 1 \in 0..n
      BY <1>5
    <2>2. g[i - 1] \in Ranked
      BY <1>4, <2>1 DEF Rounds
    <2> QED BY <2>1, <2>2
  <1> HIDE DEF step
  <1>6. g = Body(g)
    BY <1>4, <1>5 DEF Rounds
  <1>7. code = Body(code)
    BY <1>6
  <1>8. Worst(codes, skipped) = code[n]
    BY <1>1 DEF Worst
  <1>9. IsLoop(n, codes, skipped, code)
    <2> HIDE DEF code
    <2>1. code[0] = "Healthy"
      BY <1>7
    <2>2. ASSUME NEW i \in 1..n
          PROVE  code[i] = IF codes[i] \notin skipped /\ IsWorse(code[i - 1], codes[i]) THEN codes[i]
                           ELSE code[i - 1]
      <3>1. i \in 0..n /\ i # 0
        OBVIOUS
      <3> QED BY <1>7, <3>1
    <2> QED BY <2>1, <2>2 DEF IsLoop
  <1> HIDE DEF code
  <1> QED BY <1>8, <1>9

\* Worst is the worst of the codes that count, or healthy.
LEMMA WorstFacts ==
  ASSUME NEW n \in Nat, NEW codes \in [1..n -> Codes], NEW skipped,
         \A i \in 1..n : codes[i] \in skipped \/ codes[i] \in Ranked
  PROVE  /\ Worst(codes, skipped) \in { codes[i] : i \in { j \in 1..n : codes[j] \notin skipped } }
                                      \cup {"Healthy"}
         /\ \A i \in 1..n : codes[i] \notin skipped => ~IsWorse(Worst(codes, skipped), codes[i])
  <1>1. PICK g : IsLoop(n, codes, skipped, g) /\ Worst(codes, skipped) = g[n]
    BY WorstLoop
  <1> DEFINE Counted == { j \in 1..n : codes[j] \notin skipped }
             Right(i) == /\ g[i] = "Healthy" \/ \E j \in Counted : g[i] = codes[j]
                         /\ \A j \in 1..i : j \in Counted => ~IsWorse(g[i], codes[j])
             Good == { i \in 0..n : Right(i) }
  <1>2. \A j \in Counted : codes[j] \in Ranked
    OBVIOUS
  <1>3. 0 \in Good
    BY <1>1 DEF IsLoop
  <1>4. ASSUME NEW m \in 1..n, m - 1 \in Good PROVE m \in Good
    <2>1. /\ m \in 0..n /\ Right(m - 1)
          /\ \A j \in 1..m : j = m \/ j \in 1..(m - 1)
      BY <1>4
    <2>2. g[m] = IF m \in Counted /\ IsWorse(g[m - 1], codes[m]) THEN codes[m] ELSE g[m - 1]
      BY <1>1 DEF IsLoop
    <2>3. g[m - 1] \in Ranked
      BY <1>2, <2>1, RankFacts
    <2>4. CASE m \in Counted /\ IsWorse(g[m - 1], codes[m])
      <3>1. g[m] = codes[m] /\ codes[m] \in Ranked
        BY <1>2, <2>2, <2>4
      <3>2. Rank(codes[m]) > Rank(g[m - 1]) /\ ~IsWorse(codes[m], codes[m])
        BY <2>3, <2>4, <3>1, RankFacts
      <3>3. ASSUME NEW j \in 1..(m - 1), j \in Counted PROVE ~IsWorse(codes[m], codes[j])
        <4>1. ~IsWorse(g[m - 1], codes[j]) /\ codes[j] \in Ranked
          BY <1>2, <2>1, <3>3
        <4>2. Rank(codes[j]) \in Int /\ Rank(g[m - 1]) \in Int /\ Rank(codes[m]) \in Int
          BY <2>3, <3>1, <4>1, RankInt
        <4> QED BY <3>2, <4>1, <4>2 DEF IsWorse
      <3>4. Right(m)
        BY <2>1, <2>4, <3>1, <3>2, <3>3
      <3> QED BY <2>1, <3>4
    <2>5. CASE ~(m \in Counted /\ IsWorse(g[m - 1], codes[m]))
      <3>1. g[m] = g[m - 1]
        BY <2>2, <2>5
      <3>2. Right(m)
        BY <2>1, <2>5, <3>1
      <3> QED BY <2>1, <3>2
    <2> QED BY <2>4, <2>5
  <1> HIDE DEF Good
  <1>5. 0..n \subseteq Good
    BY <1>3, <1>4, CountUp
  <1>6. n \in Good
    BY <1>5
  <1>7. Right(n)
    BY <1>6 DEF Good
  <1> QED BY <1>1, <1>7

\* The two computations start from the same codes, but for resources without health:
\* not to count and to be healthy is the same.
LEMMA WorstAgree ==
  ASSUME NEW n \in Nat, NEW codes \in [1..n -> Codes], NEW others \in [1..n -> Codes],
         \A i \in 1..n : /\ codes[i] # "error"
                         /\ others[i] = IF codes[i] = "nil" THEN "Healthy" ELSE codes[i]
  PROVE  Worst(codes, {"nil"}) = Worst(others, {"error"})
  <1> DEFINE one == Worst(codes, {"nil"})
             two == Worst(others, {"error"})
  <1>1. /\ \A i \in 1..n : codes[i] \in {"nil"} \/ codes[i] \in Ranked
        /\ \A i \in 1..n : others[i] # "error" /\ others[i] \in Ranked
    BY RankFacts DEF Codes, Ranked
  <1>2. /\ one \in { codes[i] : i \in { j \in 1..n : codes[j] \notin {"nil"} } } \cup {"Healthy"}
        /\ \A i \in 1..n : codes[i] \notin {"nil"} => ~IsWorse(one, codes[i])
    BY <1>1, WorstFacts
  <1>3. /\ two \in { others[i] : i \in { j \in 1..n : others[j] \notin {"error"} } } \cup {"Healthy"}
        /\ \A i \in 1..n : others[i] \notin {"error"} => ~IsWorse(two, others[i])
    BY <1>1, WorstFacts
  <1> HIDE DEF one, two
  <1>4. one \in Ranked /\ two \in Ranked
    BY <1>1, <1>2, <1>3, RankFacts
  <1>5. ~IsWorse(two, one)
    BY <1>1, <1>2, <1>3, <1>4, RankFacts
  <1>6. ~IsWorse(one, two)
    BY <1>1, <1>2, <1>3, <1>4, RankFacts
  <1>7. Rank(one) \in Int /\ Rank(two) \in Int
    BY <1>4, RankFacts
  <1>8. Rank(one) = Rank(two)
    BY <1>5, <1>6, <1>7 DEF IsWorse
  <1>9. one = two
    BY <1>4, <1>8, RankFacts
  <1> QED BY <1>9 DEF one, two

\* HealthsAgree needs no more than the types.
LEMMA TypesSuffice == TypeOK => HealthsAgree
  <1> SUFFICES ASSUME TypeOK, NEW v \in AllPresentVersions PROVE
        LET Status(k) == IF k \in FindAvailable THEN GetResourceHealth(k) ELSE "Missing"
            codes == { Status(k) : k \in Expected(v) }
            ordinary == /\ Expected(v) # {} /\ Expected(v) \cap FindAvailable \subseteq Listed(v)
                        /\ "error" \notin codes
        IN  ordinary => /\ DetermineState(v) = AggregatedStatus(v)
                        /\ DetermineState(v) \in (codes \ {"nil"}) \cup {"Healthy"}
                        /\ \A c \in codes \ {"nil"} : ~IsWorse(DetermineState(v), c)
    BY DEF HealthsAgree
  <1> DEFINE Status(k) == IF k \in FindAvailable THEN GetResourceHealth(k) ELSE "Missing"
             Counted(k) == IF k \notin FindAvailable THEN "Missing"
                           ELSE IF GetResourceHealth(k) = "nil" THEN "Healthy"
                           ELSE GetResourceHealth(k)
             codes == { Status(k) : k \in Expected(v) }
             n == Len(Manifest[v])
             one == [i \in 1..n |-> Status(Manifest[v][i])]
             two == [i \in 1..n |-> Counted(Manifest[v][i])]
  <1>1. SUFFICES ASSUME Expected(v) # {}, Expected(v) \cap FindAvailable \subseteq Listed(v),
                        "error" \notin codes
                 PROVE  /\ DetermineState(v) = AggregatedStatus(v)
                        /\ DetermineState(v) \in (codes \ {"nil"}) \cup {"Healthy"}
                        /\ \A c \in codes \ {"nil"} : ~IsWorse(DetermineState(v), c)
    OBVIOUS
  <1>2. /\ Manifest[v] \in Seq(Roots) /\ n \in Nat /\ DOMAIN Manifest[v] = 1..n
        /\ Expected(v) = { Manifest[v][i] : i \in 1..n } /\ Expected(v) \subseteq Roots
    <2>1. v \in Versions
      BY DEF AllPresentVersions
    <2>2. Manifest[v] \in Seq(Roots)
      BY <2>1, AppSyncAssumption
    <2>3. n \in Nat /\ DOMAIN Manifest[v] = 1..n /\ \A i \in 1..n : Manifest[v][i] \in Roots
      BY <2>2
    <2>4. Expected(v) = { Manifest[v][i] : i \in 1..n }
      BY <2>3 DEF Expected, Range
    <2> QED BY <2>2, <2>3, <2>4
  <1>3. \A k \in Expected(v) : Status(k) \in Codes /\ Counted(k) \in Codes
    <2>1. {"Healthy", "Missing", "Progressing"} \subseteq Codes
      BY RankFacts DEF Codes, Ranked
    <2>2. \A k \in Expected(v) : health[k] \in Codes
      BY <1>2 DEF TypeOK, Keys, Own
    <2> QED BY <2>1, <2>2 DEF GetResourceHealth
  <1>4. \A k \in Expected(v) : k \in Listed(v) <=> k \in FindAvailable
    BY <1>1 DEF Listed, OfVersion
  <1>5. \A i \in 1..n : Manifest[v][i] \in Expected(v)
    BY <1>2
  <1>6. one \in [1..n -> Codes] /\ two \in [1..n -> Codes]
    BY <1>3, <1>5
  <1>7. \A i \in 1..n : /\ one[i] # "error" /\ one[i] \in codes
                        /\ two[i] = IF one[i] = "nil" THEN "Healthy" ELSE one[i]
    BY <1>1, <1>5
  <1>8. DetermineState(v) = Worst(one, {"nil"})
    <2>1. ~HealthFails(v)
      BY <1>1, <1>4 DEF HealthFails
    <2>2. one = [i \in 1..n |-> IF Manifest[v][i] \in Listed(v) THEN GetResourceHealth(Manifest[v][i])
                                ELSE "Missing"]
      BY <1>4, <1>5
    <2> QED BY <2>1, <2>2 DEF DetermineState
  <1>9. AggregatedStatus(v) = Worst(two, {"error"})
    <2>1. PICK i \in 1..n : TRUE
      BY <1>1, <1>2
    <2>2. two[i] \in Range(two) /\ two[i] # "error"
      BY <1>7 DEF Range
    <2>3. ~(Range(two) \subseteq {"error"})
      BY <2>2
    <2> QED BY <2>3 DEF AggregatedStatus
  <1>10. codes = { one[i] : i \in 1..n }
    <2>1. \A i \in 1..n : one[i] = Status(Manifest[v][i])
      OBVIOUS
    <2> HIDE DEF Status, one, n
    <2>2. ASSUME NEW k \in Expected(v)
          PROVE  Status(k) \in { one[i] : i \in 1..n }
      <3>1. PICK i \in 1..n : k = Manifest[v][i]
        BY <1>2
      <3>2. one[i] = Status(k)
        BY <2>1, <3>1
      <3> QED BY <3>2
    <2>3. ASSUME NEW i \in 1..n
          PROVE  one[i] \in codes
      BY <1>5, <2>1
    <2> QED BY <2>2, <2>3
  <1>11. \A i \in 1..n : one[i] \in {"nil"} \/ one[i] \in Ranked
    BY <1>6, <1>7 DEF Codes, Ranked
  <1> HIDE DEF one, two, codes, n
  <1>12. Worst(one, {"nil"}) = Worst(two, {"error"})
    BY <1>2, <1>6, <1>7, WorstAgree
  <1>13. /\ Worst(one, {"nil"}) \in { one[i] : i \in { j \in 1..n : one[j] \notin {"nil"} } }
                                     \cup {"Healthy"}
         /\ \A i \in 1..n : one[i] \notin {"nil"} => ~IsWorse(Worst(one, {"nil"}), one[i])
    BY <1>2, <1>6, <1>11, WorstFacts
  <1> QED BY <1>8, <1>9, <1>10, <1>12, <1>13

-----------------------------------------------------------------------------
(***************************************************************************)
(* The theorems.                                                           *)
(***************************************************************************)

\* The inductive invariant.
THEOREM Invariance == Spec => []IInv
  <1>1. Init => IInv
    BY InitIInv
  <1>2. IInv /\ [Next]_vars => IInv'
    BY NextIInv
  <1> QED BY <1>1, <1>2, PTL DEF Spec

\* Every variable keeps its type, and a job holds a rendered chart exactly while it
\* syncs it.
THEOREM TypeCorrect == Spec => []TypeOK
  <1>1. IInv => TypeOK
    BY DEF IInv
  <1> QED BY <1>1, Invariance, PTL

\* Whatever charts, jobs and applications there are: neither sync nor cleanup takes
\* away a resource of an application with another instance id.
THEOREM Isolation == Spec => []Isolated
  <1>1. IInv => Isolated
    BY DEF IInv, AliensKept, Kept, Alien, Isolated
  <1> QED BY <1>1, Invariance, PTL

\* An undeployment that reports success leaves nothing but what it could not know of.
THEOREM UndeploymentThorough == Spec => []DoneMeansDoomed
  <1>1. IInv => DoneMeansDoomed
    BY DEF IInv, JobsOK, JobOK, AllDoomed, Doomed, DoneMeansDoomed
  <1> QED BY <1>1, Invariance, PTL

\* Whatever charts, lag and health there are: the health in the status and the one
\* the operation job acts on are the same worst health of the rendered resources, but
\* for the cases named.
THEOREM OneHealth == Spec => []HealthsAgree
  <1>1. TypeOK => HealthsAgree
    BY TypesSuffice
  <1> QED BY <1>1, TypeCorrect, PTL
=============================================================================
