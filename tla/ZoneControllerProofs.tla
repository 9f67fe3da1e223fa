------------------------ MODULE ZoneControllerProofs ------------------------
(***************************************************************************)
(* The controller of a zone, for any zones, chart versions, initial        *)
(* statuses, placements, reports of other zones, lag of the cache and      *)
(* numbers of events: the safety invariants of ZoneController.             *)
(***************************************************************************)
EXTENDS ZoneController, AppFsmProofs

\* The pass has loaded the application; it is cleaning up.
Working == pass.pc \in {"derive", "stop", "write", "execute"}

Cleaning == pass.pc \in {"cleanup", "release"}

\* The pass holds what it needs; while it cleans up the job is stopped, and the
\* cache shows that the object is being deleted.
PassOK ==
  /\ Working => pass.app # None
  /\ pass.pc = "write" => pass.new # None
  /\ pass.new # None =>
       Working /\ pass.app # None /\ pass.new.placements = pass.app.status.placements
  /\ Cleaning => /\ job = None /\ ~Gone(pass.seen)
                 /\ \A i \in 1..Len(states) : states[i].deleting

\* From one state of the object to a later one a deletion is not taken back, and the
\* finalizer only goes with the object.
Follows(a, b) ==
  /\ a.deleting => b.deleting
  /\ Gone(a) => Gone(b)
  /\ a.finalizer /\ ~Gone(b) => b.finalizer

\* The states between the cache and the newest one; once the object is gone none of
\* them makes a pass derive anything.
HistoryOK ==
  /\ \A i, j \in 1..Len(states) : i <= j => Follows(states[i], states[j])
  /\ \A i \in 1..Len(states) : Gone(states[i]) => states[i].deleting
  /\ \A i \in 1..Len(states) :
       Gone(Newest) => Gone(states[i]) \/ states[i].deleting \/ ~states[i].finalizer

\* Whatever runs for the application or is there of it has been preceded by the
\* finalizer, so the object cannot disappear on its own.
FinalizerOK ==
  /\ job # None \/ Working => ~Gone(Newest) /\ Newest.finalizer
  /\ PresentVersions # {} \/ stray # None \/ untracked # None =>
       Gone(Newest) \/ Newest.finalizer

\* Resources that are there are on their way out, or one of the three events accounts
\* for them.
Explained ==
  PresentVersions \subseteq going \/ Happened("fault") \/ Happened("stray") \/ Happened("race")

\* OrphansExplained, from the deletion of the resources on; and what goes on beside the
\* registered job goes back to an event.
OrphansOK ==
  /\ Gone(Newest) \/ pass.pc = "release" => Explained
  /\ stray # None => Happened("stray")
  /\ untracked # None \/ late => Happened("race")

\* A chart version is recorded only in an application that has placements, in every
\* copy of the status.
ChartPlaced(st) == ChartOf(st) # None => PlacementExists(st)

ChartOK ==
  /\ \A i \in 1..Len(states) : ~Gone(states[i]) => ChartPlaced(states[i].status)
  /\ pass.app # None => ChartPlaced(pass.app.status)
  /\ pass.new # None => ChartPlaced(pass.new)

\* Nobody has asked for a change of what is deployed.
Undisturbed == \A kind \in {"move", "upgrade", "delete"} : ~Happened(kind)

\* The first chart version is recorded, where the application is placed here, or none.
Steady(st) ==
  /\ ChartOf(st) \in {None, Charts[1]}
  /\ ChartOf(st) # None => PlacementsContainZone(st, Self)

\* Then every copy of the status is steady, a placement here is not lost, and the only
\* resources are those of the first chart version.
SteadyStates ==
  /\ \A i \in 1..Len(states) : ~states[i].deleting /\ Steady(states[i].status)
  /\ \A i, j \in 1..Len(states) :
       i <= j /\ PlacementsContainZone(states[i].status, Self)
         => PlacementsContainZone(states[j].status, Self)

SteadyPass ==
  /\ pass.app # None =>
       /\ Steady(pass.app.status) /\ pass.app.target = Charts[1]
       /\ pass.app.present \subseteq {Charts[1]}
       /\ PlacementsContainZone(pass.app.status, Self)
            => PlacementsContainZone(Newest.status, Self)
  /\ pass.new # None => Steady(pass.new)
  /\ pass.job # "Undeployment"

SteadyCluster ==
  /\ target = 1
  /\ PresentVersions \subseteq {Charts[1]}
  /\ stray \in {None, Charts[1]}
  /\ \A j \in {job, untracked} : j # None =>
       j.type # "Undeployment" /\ (j.type = "Deployment" => j.chart = Charts[1])
  /\ going = {}

SteadyOK == Undisturbed => SteadyStates /\ SteadyPass /\ SteadyCluster

\* A deployment is of a chart version.
JobOK ==
  \A j \in {job, untracked} : j # None /\ j.type = "Deployment" => j.chart \in Versions

\* Every upgrade uses up one of the chart versions.
BudgetOK == target + budget.left["upgrade"] <= Len(Charts)

IInv == /\ TypeOK /\ BudgetOK /\ JobOK /\ PassOK /\ HistoryOK /\ FinalizerOK /\ OrphansOK
        /\ ChartOK /\ SteadyOK /\ NoDoubleSchedule

-----------------------------------------------------------------------------
(***************************************************************************)
(* The states of the object.                                               *)
(***************************************************************************)

\* The newest state is one of the states.
LEMMA NewestType ==
  ASSUME TypeOK
  PROVE  /\ Len(states) \in Nat /\ Len(states) >= 1
         /\ Len(states) \in 1..Len(states) /\ 1 \in 1..Len(states)
         /\ Newest \in Objects /\ Cached \in Objects
         /\ \A i \in 1..Len(states) : states[i] \in Objects
  <1>1. Len(states) \in Nat /\ Len(states) >= 1
    BY ZoneAssumption DEF TypeOK
  <1> QED BY <1>1 DEF TypeOK, Newest, Cached

\* Publish appends a state, or replaces the only one.
LEMMA PublishFacts ==
  ASSUME TypeOK, NEW o \in Objects, Publish(o)
  PROVE  /\ states' \in Seq(Objects) /\ Len(states') \in 1..(MaxLag + 1)
         /\ Newest' = o
         /\ \A i \in 1..Len(states') :
              \/ i = Len(states') /\ states'[i] = o
              \/ i < Len(states') /\ i \in 1..Len(states) /\ states'[i] = states[i]
         /\ queued' \in BOOLEAN
  <1>1. Len(states) \in Nat /\ Len(states) >= 1 /\ MaxLag \in Nat
    BY NewestType, ZoneAssumption
  <1>2. CASE MaxLag = 0
    <2>1. states' = <<o>> /\ queued' = TRUE
      BY <1>2 DEF Publish
    <2>2. states' \in Seq(Objects) /\ Len(states') = 1 /\ states'[1] = o
      BY <2>1
    <2> QED BY <1>2, <2>1, <2>2 DEF Newest
  <1>3. CASE MaxLag # 0
    <2>1. Len(states) <= MaxLag /\ states' = Append(states, o) /\ queued' = queued
      BY <1>3 DEF Publish
    <2>2. /\ states' \in Seq(Objects) /\ Len(states') = Len(states) + 1
          /\ states'[Len(states) + 1] = o
          /\ \A i \in 1..Len(states) : states'[i] = states[i]
      BY <2>1 DEF TypeOK
    <2> QED BY <1>1, <2>1, <2>2 DEF Newest, TypeOK
  <1> QED BY <1>2, <1>3

\* Every state of the object after a step is a new one, the newest, or one that was
\* there, in the order they had.
Later(o) ==
  \/ /\ states' = states
  \/ /\ Len(states) > 1 /\ states' = Tail(states)
  \/ /\ states' = <<Newest>>
  \/ /\ ~Gone(Newest) /\ Publish(o)

\* What a predicate of the states, and of pairs of them, needs to hold after a step.
LEMMA LaterFacts ==
  ASSUME TypeOK, NEW o \in Objects, Later(o)
  PROVE  /\ states' \in Seq(Objects) /\ Len(states') \in 1..(MaxLag + 1)
         /\ Newest' \in {Newest, o}
         /\ Newest' = o \/ \A i \in 1..Len(states') : \E k \in 1..Len(states) :
                             states'[i] = states[k]
         /\ \A i \in 1..Len(states') :
              (\E k \in 1..Len(states) : states'[i] = states[k]) \/ states'[i] = o
         /\ \A i, j \in 1..Len(states') : i <= j =>
              \/ \E k, l \in 1..Len(states) :
                   k <= l /\ states'[i] = states[k] /\ states'[j] = states[l]
              \/ \E k \in 1..Len(states) : states'[i] = states[k] /\ states'[j] = o
              \/ states'[i] = o /\ states'[j] = o
  <1> DEFINE n == Len(states)
  <1>1. n \in Nat /\ n >= 1 /\ MaxLag \in Nat /\ n \in 1..n /\ Newest = states[n]
        /\ states \in Seq(Objects) /\ n <= MaxLag + 1 /\ Newest \in Objects
    BY NewestType, ZoneAssumption DEF Newest, TypeOK
  <1>2. CASE states' = states
    BY <1>1, <1>2 DEF Newest
  <1>3. CASE n > 1 /\ states' = Tail(states)
    <2>1. /\ states' \in Seq(Objects) /\ Len(states') = n - 1
          /\ \A i \in 1..(n - 1) : states'[i] = states[i + 1]
      BY <1>1, <1>3
    <2>2. Newest' = Newest
      BY <1>1, <1>3, <2>1 DEF Newest
    <2>3. \A i \in 1..Len(states') : i + 1 \in 1..n /\ states'[i] = states[i + 1]
      BY <1>1, <2>1
    <2>4. \A i, j \in 1..Len(states') : i <= j => i + 1 <= j + 1
      BY <1>1, <2>1
    <2> HIDE DEF n
    <2> QED BY <1>1, <1>3, <2>1, <2>2, <2>3, <2>4 DEF n
  <1>4. CASE states' = <<Newest>>
    <2>1. states' \in Seq(Objects) /\ Len(states') = 1 /\ states'[1] = Newest
      BY <1>1, <1>4
    <2> QED BY <1>1, <2>1 DEF Newest
  <1>5. CASE ~Gone(Newest) /\ Publish(o)
    <2>1. /\ states' \in Seq(Objects) /\ Len(states') \in 1..(MaxLag + 1)
          /\ Newest' = o
          /\ \A i \in 1..Len(states') :
               \/ i = Len(states') /\ states'[i] = o
               \/ i < Len(states') /\ i \in 1..n /\ states'[i] = states[i]
      BY <1>5, PublishFacts
    <2>2. ASSUME NEW i \in 1..Len(states'), NEW j \in 1..Len(states'), i <= j
          PROVE  \/ \E k, l \in 1..n :
                      k <= l /\ states'[i] = states[k] /\ states'[j] = states[l]
                 \/ \E k \in 1..n : states'[i] = states[k] /\ states'[j] = o
                 \/ states'[i] = o /\ states'[j] = o
      <3>1. \/ i = Len(states') /\ states'[i] = o
            \/ i < Len(states') /\ i \in 1..n /\ states'[i] = states[i]
        BY <2>1
      <3>2. \/ j = Len(states') /\ states'[j] = o
            \/ j < Len(states') /\ j \in 1..n /\ states'[j] = states[j]
        BY <2>1
      <3>3. i = Len(states') => j = Len(states')
        BY <1>1, <2>1, <2>2
      <3> HIDE DEF n
      <3> QED BY <2>2, <3>1, <3>2, <3>3
    <2>3. \A i \in 1..Len(states') :
            (\E k \in 1..n : states'[i] = states[k]) \/ states'[i] = o
      BY <2>1
    <2> HIDE DEF n
    <2> QED BY <2>1, <2>2, <2>3 DEF n
  <1> QED BY <1>2, <1>3, <1>4, <1>5 DEF Later

\* A state of the object that a step may publish.
WriteOK(o) ==
  /\ Follows(Newest, o)
  /\ Gone(o) => o.deleting /\ (~Newest.finalizer \/ (pass.pc = "release" /\ pass' = IdlePass))
  /\ ~Gone(o) => ChartPlaced(o.status)
  /\ Undisturbed' =>
       /\ ~o.deleting /\ Steady(o.status)
       /\ PlacementsContainZone(Newest.status, Self) => PlacementsContainZone(o.status, Self)

\* What a step does to the states of the object.
ObjectStep(o) == Later(o) /\ (o = Newest \/ (~Gone(Newest) /\ WriteOK(o)))

\* A request the controller makes: a merge is of what the pass has derived.
Requested(r) ==
  r \in AllRequests /\ (r.kind = "merge" => pass.new # None /\ r.new = pass.new)

\* UpdateStatus with an update function of the controller.
LEMMA UpdatedStep ==
  ASSUME IInv, NEW r, Requested(r), Updated(r)
  PROVE  \E o \in Objects : ObjectStep(o)
  <1> DEFINE st == Newest.status
             new == Effect(r, st).status
             o == [Newest EXCEPT !.status = new]
  <1>1. /\ Newest \in Objects /\ st \in Statuses /\ ~Gone(Newest)
        /\ Publish(o) /\ Len(states) \in 1..Len(states) /\ Newest = states[Len(states)]
    BY NewestType DEF Updated, IInv, Objects, Gone, Newest
  <1>2. new \in Statuses
    BY <1>1, EffectType DEF Requested
  <1>3. /\ r.kind # "merge" =>
             /\ ChartOf(new) = ChartOf(st)
             /\ new.placements \in {st.placements, {Self}}
        /\ r.kind = "merge" =>
             /\ ChartOf(new) = ChartOf(pass.new)
             /\ new.placements = IF st.placements = None THEN pass.new.placements
                                 ELSE st.placements
    BY <1>1, EffectChart DEF Requested
  <1> HIDE DEF new, st
  <1>4. /\ o \in Objects /\ o.status = new /\ ~Gone(o)
        /\ o.deleting = Newest.deleting /\ o.finalizer = Newest.finalizer
    BY <1>1, <1>2, ZoneAssumption DEF Objects, Gone
  <1>5. {Self} # None /\ Self \in {Self}
    BY AbsentAssumption, ZoneAssumption
  <1> HIDE DEF o
  <1>6. ChartPlaced(new)
    <2>1. CASE r.kind = "merge"
      <3>1. ChartPlaced(pass.new)
        BY <2>1 DEF IInv, ChartOK, Requested
      <3> QED BY <1>3, <2>1, <3>1 DEF ChartPlaced, PlacementExists
    <2>2. CASE r.kind # "merge"
      <3>1. ChartPlaced(st)
        BY <1>1 DEF IInv, ChartOK, st
      <3> QED BY <1>3, <1>5, <2>2, <3>1 DEF ChartPlaced, PlacementExists
    <2> QED BY <2>1, <2>2
  <1>7. ASSUME Undisturbed'
        PROVE  /\ ~o.deleting /\ Steady(new)
               /\ PlacementsContainZone(st, Self) => PlacementsContainZone(new, Self)
    <2>1. Undisturbed
      BY <1>7 DEF Undisturbed, Updated, Happened
    <2>2. SteadyStates /\ SteadyPass
      BY <2>1 DEF IInv, SteadyOK
    <2>3. ~o.deleting /\ Steady(st)
      BY <1>1, <1>4, <2>2 DEF SteadyStates, st
    <2>4. CASE r.kind = "merge"
      <3>1. /\ pass.new # None /\ pass.app # None
            /\ pass.new.placements = pass.app.status.placements
        BY <2>4 DEF Requested, IInv, PassOK
      <3>2. /\ Steady(pass.new)
            /\ PlacementsContainZone(pass.new, Self) => PlacementsContainZone(st, Self)
        BY <2>2, <3>1 DEF SteadyPass, PlacementsContainZone, PlacementExists, st
      <3> QED BY <1>3, <2>3, <2>4, <3>2 DEF Steady, PlacementsContainZone, PlacementExists
    <2>5. CASE r.kind # "merge"
      BY <1>3, <1>5, <2>3, <2>5 DEF Steady, PlacementsContainZone, PlacementExists
    <2> QED BY <2>3, <2>4, <2>5
  <1>8. Follows(Newest, o)
    BY <1>1, <1>4 DEF Follows
  <1>9. WriteOK(o)
    BY <1>4, <1>6, <1>7, <1>8 DEF WriteOK, st
  <1> QED BY <1>1, <1>4, <1>9 DEF ObjectStep, Later, o

\* A step that leaves the object alone.
LEMMA NoWriteStep ==
  ASSUME IInv, UNCHANGED states
  PROVE  \E o \in Objects : ObjectStep(o)
  BY NewestType DEF ObjectStep, Later, IInv

\* The requests of a pass and of a job.
LEMMA RequestFacts ==
  ASSUME IInv
  PROVE  /\ Requested([kind |-> "initialize"])
         /\ \A later \in SUBSET pass.fresh : pass.pc = "write" =>
              Requested([kind |-> "merge", new |-> pass.new, later |-> later])
         /\ \A j \in Jobs : Requested(ReportRequest(j))
  <1>1. Requested([kind |-> "initialize"])
    BY DEF Requested, AllRequests
  <1>2. ASSUME NEW later \in SUBSET pass.fresh, pass.pc = "write"
        PROVE  Requested([kind |-> "merge", new |-> pass.new, later |-> later])
    <2>1. pass.new # None /\ pass.new \in Statuses /\ later \in SUBSET CondTypes
      BY <1>2 DEF IInv, TypeOK, PassOK, Passes
    <2> QED BY <2>1 DEF Requested, AllRequests
  <1>3. ASSUME NEW j \in Jobs
        PROVE  Requested(ReportRequest(j))
    <2> DEFINE cond == [word |-> j.word, msg |-> j.msg]
    <2>2. cond \in Conditions /\ j.type \in CondTypes
      BY DEF Jobs, Conditions
    <2>3. {"Deployment", "Undeployment", "Local"} \ {j.type} \in SUBSET CondTypes
      BY DEF CondTypes
    <2> HIDE DEF cond
    <2>4. CASE j.type = "Placement"
      <3>1. ReportRequest(j) = [kind |-> "placement", cond |-> cond]
        BY <2>4 DEF ReportRequest, cond
      <3> QED BY <2>2, <3>1 DEF Requested, AllRequests
    <2>5. CASE j.type # "Placement"
      <3>1. ReportRequest(j) = [kind |-> "condition", type |-> j.type, cond |-> cond,
                                remove |-> {"Deployment", "Undeployment", "Local"} \ {j.type}]
        BY <2>5 DEF ReportRequest, cond
      <3> QED BY <2>2, <2>3, <3>1 DEF Requested, AllRequests
    <2> QED BY <2>4, <2>5
  <1> QED BY <1>1, <1>2, <1>3

\* addFinalizer, and the removal of the finalizer, with which the object is gone.
LEMMA FinalizerStep ==
  ASSUME IInv, PassAddFinalizer \/ PassRelease
  PROVE  \E o \in Objects : ObjectStep(o)
  <1>0. /\ Newest \in Objects /\ Len(states) \in 1..Len(states)
        /\ Newest = states[Len(states)] /\ Len(states) \in Nat
    BY NewestType DEF IInv, Newest
  <1>1. CASE PassAddFinalizer
    <2>1. CASE Len(states) = 1
      <3> DEFINE o == [Newest EXCEPT !.finalizer = TRUE]
      <3>1. Publish(o) /\ ~Gone(Newest) /\ UNCHANGED budget
        BY <1>1, <2>1 DEF PassAddFinalizer, Branch, Cached, Newest
      <3>2. /\ o \in Objects /\ o.status = Newest.status /\ o.deleting = Newest.deleting
            /\ o.finalizer
        BY <1>0 DEF Objects
      <3> HIDE DEF o
      <3>3. Follows(Newest, o) /\ ~Gone(o) /\ ChartPlaced(o.status)
        BY <1>0, <3>1, <3>2 DEF Follows, Gone, IInv, ChartOK
      <3>4. Undisturbed' => ~o.deleting /\ Steady(o.status)
        BY <1>0, <3>1, <3>2 DEF Undisturbed, Happened, IInv, SteadyOK, SteadyStates
      <3>5. WriteOK(o)
        BY <3>2, <3>3, <3>4 DEF WriteOK
      <3> QED BY <3>1, <3>2, <3>5 DEF ObjectStep, Later
    <2>2. CASE Len(states) # 1
      BY <1>1, <2>2, NoWriteStep DEF PassAddFinalizer
    <2> QED BY <2>1, <2>2
  <1>2. CASE PassRelease
    <2>1. CASE pass.seen = Newest
      <3> DEFINE o == [status |-> None, finalizer |-> FALSE, deleting |-> TRUE]
      <3>1. /\ Publish(o) /\ pass.pc = "release" /\ pass' = IdlePass /\ UNCHANGED budget
        BY <1>2, <2>1 DEF PassRelease
      <3>2. o \in Objects /\ Gone(o) /\ o.deleting
        BY DEF Objects, Gone
      <3>3. Newest.deleting
        BY <1>0, <3>1 DEF IInv, PassOK, Cleaning
      <3>4. ~Undisturbed'
        BY <1>0, <3>1, <3>3 DEF IInv, SteadyOK, SteadyStates, Undisturbed, Happened
      <3> HIDE DEF o
      <3>5. WriteOK(o)
        BY <3>1, <3>2, <3>4 DEF WriteOK, Follows
      <3>6. ~Gone(Newest)
        BY <2>1, <3>1 DEF IInv, PassOK, Cleaning
      <3> QED BY <3>1, <3>2, <3>5, <3>6 DEF ObjectStep, Later
    <2>2. CASE pass.seen # Newest
      BY <1>2, <2>2, NoWriteStep DEF PassRelease
    <2> QED BY <2>1, <2>2
  <1> QED BY <1>1, <1>2

\* The scheduler, other zones, the user and a restart.
LEMMA EnvironmentStep ==
  ASSUME IInv,
         \/ \E places \in Places : Move(places)
         \/ \E z \in Zones, section \in PeerSections : PeerReport(z, section)
         \/ Delete \/ Crash
  PROVE  \E o \in Objects : ObjectStep(o)
  <1>0. /\ Newest \in Objects /\ Len(states) \in 1..Len(states)
        /\ Newest = states[Len(states)] /\ Len(states) \in Nat
    BY NewestType DEF IInv, Newest
  <1>s. ~Gone(Newest) => Newest.status \in Statuses
    BY <1>0 DEF Objects, Gone
  <1>1. ASSUME NEW places \in Places, Move(places)
        PROVE  \E o \in Objects : ObjectStep(o)
    <2> DEFINE o == [Newest EXCEPT !.status.placements = places]
               new == [Newest.status EXCEPT !.placements = places]
    <2>1. Publish(o) /\ ~Gone(Newest) /\ Spend("move")
      BY <1>1 DEF Move
    <2>2. places \in (SUBSET Zones) \ {{}} /\ places # None
      BY ZoneAssumption
    <2>3. new \in Statuses /\ new.zones = Newest.status.zones /\ new.placements = places
      BY <1>s, <2>1, <2>2 DEF Statuses
    <2>4. /\ o.status = new /\ o.deleting = Newest.deleting
          /\ o.finalizer = Newest.finalizer /\ o \in Objects
      BY <1>0, <2>3 DEF Objects
    <2> HIDE DEF o, new
    <2>5. ~Gone(o) /\ Follows(Newest, o)
      BY <2>1, <2>3, <2>4, ZoneAssumption DEF Gone, Follows
    <2>6. ChartPlaced(o.status)
      BY <2>2, <2>3, <2>4 DEF ChartPlaced, PlacementExists
    <2>7. ~Undisturbed'
      BY <2>1 DEF Undisturbed, Happened, Spend
    <2>8. WriteOK(o)
      BY <2>5, <2>6, <2>7 DEF WriteOK
    <2> QED BY <2>1, <2>4, <2>8 DEF ObjectStep, Later, o
  <1>2. ASSUME NEW z \in Zones, NEW section \in PeerSections, PeerReport(z, section)
        PROVE  \E o \in Objects : ObjectStep(o)
    <2> DEFINE o == [Newest EXCEPT !.status.zones[z] = section]
               new == [Newest.status EXCEPT !.zones[z] = section]
    <2>1. Publish(o) /\ ~Gone(Newest) /\ Spend("report") /\ z # Self
      BY <1>2 DEF PeerReport
    <2>2. section \in ZoneStatus
      BY ZoneAssumption
    <2>3. /\ new \in Statuses /\ new.zones[Self] = Newest.status.zones[Self]
          /\ new.placements = Newest.status.placements
      BY <1>s, <2>1, <2>2, AbsentAssumption DEF Statuses
    <2>4. /\ o.status = new /\ o.deleting = Newest.deleting
          /\ o.finalizer = Newest.finalizer /\ o \in Objects
      BY <1>0, <2>3 DEF Objects
    <2> HIDE DEF o, new
    <2>5. ~Gone(o) /\ Follows(Newest, o)
      BY <2>1, <2>3, <2>4, ZoneAssumption DEF Gone, Follows
    <2>6. /\ ChartOf(new) = ChartOf(Newest.status)
          /\ PlacementExists(new) = PlacementExists(Newest.status)
          /\ PlacementsContainZone(new, Self) = PlacementsContainZone(Newest.status, Self)
      BY <2>3 DEF ChartOf, ZoneExists, PlacementExists, PlacementsContainZone
    <2>7. ChartPlaced(o.status)
      BY <1>0, <2>1, <2>4, <2>6 DEF ChartPlaced, IInv, ChartOK
    <2>8. Undisturbed' => Undisturbed
      BY <2>1 DEF Undisturbed, Happened, Spend
    <2>9. Undisturbed => ~o.deleting /\ Steady(o.status)
      BY <1>0, <2>4, <2>6 DEF IInv, SteadyOK, SteadyStates, Steady
    <2>10. WriteOK(o)
      BY <2>4, <2>5, <2>6, <2>7, <2>8, <2>9 DEF WriteOK
    <2> QED BY <2>1, <2>4, <2>10 DEF ObjectStep, Later, o
  <1>3. CASE Delete
    <2> DEFINE st == IF Newest.finalizer THEN Newest.status ELSE None
               o == [Newest EXCEPT !.deleting = TRUE,
                                   !.status = IF Newest.finalizer THEN @ ELSE None]
    <2>1. Publish(o) /\ ~Gone(Newest) /\ Spend("delete")
      BY <1>3 DEF Delete
    <2>2. /\ o.status = st /\ o.deleting /\ o.finalizer = Newest.finalizer /\ o \in Objects
      BY <1>0 DEF Objects
    <2> HIDE DEF o
    <2>3. Follows(Newest, o) /\ (Gone(o) => ~Newest.finalizer)
      BY <2>1, <2>2 DEF Gone, Follows
    <2>4. ~Gone(o) => ChartPlaced(o.status)
      BY <1>0, <2>1, <2>2 DEF Gone, IInv, ChartOK
    <2>5. ~Undisturbed'
      BY <2>1 DEF Undisturbed, Happened, Spend
    <2>6. WriteOK(o)
      BY <2>2, <2>3, <2>4, <2>5 DEF WriteOK
    <2> QED BY <2>1, <2>2, <2>6 DEF ObjectStep, Later, o
  <1>4. CASE Crash
    BY <1>0, <1>4 DEF Crash, ObjectStep, Later
  <1> QED BY <1>1, <1>2, <1>3, <1>4

\* A job reports its condition, and does nothing else to the object.
LEMMA RunObject ==
  ASSUME IInv, NEW j \in {job, untracked}, NEW j2, RunStep(j, j2)
  PROVE  \E o \in Objects : ObjectStep(o)
  <1>1. CASE JobReport(j, j2)
    <2>1. j \in Jobs
      BY <1>1 DEF JobReport, IInv, TypeOK
    <2>2. Requested(ReportRequest(j))
      BY <2>1, RequestFacts
    <2>3. Updated(ReportRequest(j)) \/ NothingToDo(ReportRequest(j)) \/ UpdateFails
      BY <1>1 DEF JobReport
    <2> QED BY <2>2, <2>3, UpdatedStep, NoWriteStep DEF NothingToDo, UpdateFails
  <1>2. CASE ~JobReport(j, j2)
    <2>1. UNCHANGED states
      BY <1>2 DEF RunStep, PlacementRun, DeploySync, DeploySucceeds, DeployFails,
         DeployIncomplete, UndeploySucceeds, UndeployFails, UndeployProgress,
         OperationCheck, OperationFails
    <2> QED BY <2>1, NoWriteStep
  <1> QED BY <1>1, <1>2

\* Every step.
LEMMA ObjectSteps ==
  ASSUME IInv, Next
  PROVE  \E o \in Objects : ObjectStep(o)
  <1>1. CASE PassStep
    <2>1. CASE PassSkip \/ PassCleanup \/ PassDelete \/ PassLoad \/ PassDerive \/ PassStop
               \/ PassExecute
      <3>1. UNCHANGED states
        BY <2>1 DEF PassSkip, PassCleanup, PassDelete, PassLoad, PassDerive, PassStop,
                    PassExecute
      <3> QED BY <3>1, NoWriteStep
    <2>2. CASE PassInitialize
      <3> DEFINE r == [kind |-> "initialize"]
      <3>1. Requested(r)
        BY RequestFacts
      <3>2. Updated(r) \/ NothingToDo(r) \/ UpdateFails
        BY <2>2 DEF PassInitialize
      <3> HIDE DEF r
      <3> QED BY <3>1, <3>2, UpdatedStep, NoWriteStep DEF NothingToDo, UpdateFails
    <2>3. CASE PassWrite
      <3>1. CASE UpdateFails
        BY <3>1, NoWriteStep DEF UpdateFails
      <3>2. CASE \E later \in SUBSET pass.fresh :
                   LET r == [kind |-> "merge", new |-> pass.new, later |-> later]
                   IN  Updated(r) \/ NothingToDo(r)
        <4>1. PICK later \in SUBSET pass.fresh :
                LET r == [kind |-> "merge", new |-> pass.new, later |-> later]
                IN  Updated(r) \/ NothingToDo(r)
          BY <3>2
        <4> DEFINE r == [kind |-> "merge", new |-> pass.new, later |-> later]
        <4>2. Requested(r)
          BY <2>3, RequestFacts DEF PassWrite
        <4>3. Updated(r) \/ NothingToDo(r)
          BY <4>1
        <4> HIDE DEF r
        <4> QED BY <4>2, <4>3, UpdatedStep, NoWriteStep DEF NothingToDo
      <3> QED BY <2>3, <3>1, <3>2 DEF PassWrite
    <2>4. CASE PassAddFinalizer \/ PassRelease
      BY <2>4, FinalizerStep
    <2> QED BY <1>1, <2>1, <2>2, <2>3, <2>4 DEF PassStep
  <1>2. CASE JobStep \/ UntrackedStep \/ LateDelete
    <2>1. CASE RunStep(job, job') \/ RunStep(untracked, untracked')
      BY <2>1, RunObject
    <2>2. CASE ~(RunStep(job, job') \/ RunStep(untracked, untracked'))
      <3>1. UNCHANGED states
        BY <1>2, <2>2 DEF JobStep, UntrackedStep, LateDelete
      <3> QED BY <3>1, NoWriteStep
    <2> QED BY <2>1, <2>2
  <1>3. CASE CacheCatchUp
    BY <1>3, NewestType DEF CacheCatchUp, ObjectStep, Later, IInv
  <1>4. CASE Resync \/ StrayLands \/ Upgrade \/ HealthChange
    BY <1>4, NoWriteStep DEF Resync, StrayLands, Upgrade, HealthChange
  <1>5. CASE \E v \in Versions, left \in {"some", "absent"} : Vanish(v, left) \/ Loss(v, left)
    BY <1>5, NoWriteStep DEF Vanish, Loss
  <1>6. CASE \/ \E places \in Places : Move(places)
             \/ \E z \in Zones, section \in PeerSections : PeerReport(z, section)
             \/ Delete \/ Crash
    BY <1>6, EnvironmentStep
  <1> QED BY <1>1, <1>2, <1>3, <1>4, <1>5, <1>6 DEF Next, Progress, Environment

-----------------------------------------------------------------------------
(***************************************************************************)
(* What is in the cluster, and the events.                                 *)
(***************************************************************************)

\* Resources come from a job or a sync that was stopped; without a job resources that
\* are on their way out stay so; undisturbed, there are only those of the first chart.
ClusterStep ==
  /\ budget.happened \subseteq budget'.happened
  /\ PresentVersions' # {} \/ stray' # None =>
       PresentVersions # {} \/ stray # None \/ job # None \/ untracked # None
  /\ job = None /\ Explained => Explained'
  /\ stray' # None => stray # None \/ Happened("stray")'
  /\ Undisturbed' => /\ target' = 1 /\ going' = {}
                     /\ PresentVersions' \subseteq {Charts[1]}
                     /\ stray' \in {None, Charts[1]}

ClusterType ==
  /\ stray \in Versions \cup {None}
  /\ res \in [Versions -> Levels]
  /\ going \in SUBSET Versions
  /\ health \in Healths
  /\ target \in 1..Len(Charts)
  /\ budget \in [left : [EventKinds -> Nat], happened : SUBSET EventKinds]
  /\ target + budget.left["upgrade"] <= Len(Charts)

\* Spend counts an event.
LEMMA SpendFacts ==
  ASSUME NEW kind \in EventKinds, Spend(kind), IInv
  PROVE  /\ budget' \in [left : [EventKinds -> Nat], happened : SUBSET EventKinds]
         /\ budget'.happened = budget.happened \cup {kind}
         /\ budget'.left["upgrade"] =
              IF kind = "upgrade" THEN budget.left["upgrade"] - 1 ELSE budget.left["upgrade"]
         /\ budget.left["upgrade"] \in Nat
         /\ kind = "upgrade" => budget.left["upgrade"] > 0
  <1>1. budget.left \in [EventKinds -> Nat] /\ budget.happened \in SUBSET EventKinds
    BY DEF IInv, TypeOK
  <1>2. "upgrade" \in EventKinds
    BY DEF EventKinds
  <1>3. /\ budget.left[kind] > 0 /\ budget.left[kind] \in Nat
        /\ budget'.left = [budget.left EXCEPT ![kind] = @ - 1]
        /\ budget'.happened = budget.happened \cup {kind}
        /\ budget' = [left |-> budget'.left, happened |-> budget'.happened]
    BY <1>1 DEF Spend
  <1>4. budget'.left \in [EventKinds -> Nat] /\ budget'.happened \in SUBSET EventKinds
    BY <1>1, <1>3
  <1> QED BY <1>1, <1>2, <1>3, <1>4

\* A step that changes neither the resources nor the chart version.
LEMMA CalmStep ==
  ASSUME IInv, UNCHANGED <<res, going, target>>, health' \in Healths,
         \/ UNCHANGED budget
         \/ \E kind \in EventKinds \ {"upgrade"} : Spend(kind),
         \/ UNCHANGED stray
         \/ stray' = None
         \/ /\ job # None /\ job.type = "Deployment" /\ Spend("stray") /\ stray' = job.chart
  PROVE  ClusterStep /\ ClusterType'
  <1>1. /\ budget' \in [left : [EventKinds -> Nat], happened : SUBSET EventKinds]
        /\ budget.happened \subseteq budget'.happened
        /\ budget'.left["upgrade"] = budget.left["upgrade"]
    <2>1. CASE UNCHANGED budget
      BY <2>1 DEF IInv, TypeOK
    <2>2. CASE \E kind \in EventKinds \ {"upgrade"} : Spend(kind)
      BY <2>2, SpendFacts
    <2> QED BY <2>1, <2>2
  <1>2. stray' # None => stray # None \/ (job # None /\ Happened("stray")')
    BY SpendFacts DEF Happened, EventKinds, Spend
  <1>3. stray' \in Versions \cup {None}
    BY DEF IInv, TypeOK, Jobs
  <1>4. ClusterType'
    BY <1>1, <1>3 DEF ClusterType, IInv, TypeOK, BudgetOK
  <1>5. PresentVersions' = PresentVersions
    BY DEF PresentVersions
  <1>6. Undisturbed' => Undisturbed
    BY <1>1 DEF Undisturbed, Happened
  <1>7. Undisturbed' => /\ target' = 1 /\ going' = {}
                        /\ PresentVersions' \subseteq {Charts[1]}
                        /\ stray' \in {None, Charts[1]}
    BY <1>5, <1>6 DEF IInv, SteadyOK, SteadyCluster
  <1>8. Explained => Explained'
    BY <1>1, <1>5 DEF Explained, Happened
  <1> QED BY <1>1, <1>2, <1>4, <1>5, <1>7, <1>8 DEF ClusterStep

\* Sync with pruning leaves the resources of one version.
LEMMA SyncedStep ==
  ASSUME IInv, NEW v \in Versions, Synced(v), UNCHANGED <<health, target, budget>>,
         stray' \in {stray, None},
         \/ \E j \in {job, untracked} : j # None /\ j.type = "Deployment" /\ j.chart = v
         \/ stray # None /\ stray = v
  PROVE  ClusterStep /\ ClusterType'
  <1>1. /\ res' \in [Versions -> Levels] /\ going' \in SUBSET Versions
        /\ PresentVersions' \subseteq {v}
        /\ going = {} => going' = {}
    BY DEF Synced, Levels, PresentVersions
  <1>2. ClusterType'
    BY <1>1 DEF ClusterType, IInv, TypeOK, BudgetOK
  <1>3. job = None => Happened("stray")' \/ Happened("race")'
    BY DEF IInv, OrphansOK, Happened
  <1>4. ASSUME Undisturbed'
        PROVE  /\ target' = 1 /\ going' = {}
               /\ PresentVersions' \subseteq {Charts[1]}
               /\ stray' \in {None, Charts[1]}
    <2>1. SteadyCluster
      BY <1>4 DEF Undisturbed, Happened, IInv, SteadyOK
    <2> QED BY <1>1, <2>1 DEF SteadyCluster
  <1> QED BY <1>2, <1>3, <1>4 DEF ClusterStep, Explained

\* Some resources appear, or disappear.
LEMMA ResourcesStep ==
  ASSUME IInv, NEW v \in Versions, NEW level \in Levels,
         res' = [res EXCEPT ![v] = level] \/ res' = res,
         \/ UNCHANGED going
         \/ res'[v] = "absent" /\ going' = going \ {v},
         UNCHANGED <<health, target, stray>>,
         \/ UNCHANGED budget
         \/ \E kind \in EventKinds \ {"upgrade"} : Spend(kind),
         \/ v \in PresentVersions \/ level = "absent"
         \/ \E j \in {job, untracked} :
              /\ j # None
              /\ j.type = "Undeployment" \/ (j.type = "Deployment" /\ j.chart = v)
  PROVE  ClusterStep /\ ClusterType'
  <1>1. /\ budget' \in [left : [EventKinds -> Nat], happened : SUBSET EventKinds]
        /\ budget.happened \subseteq budget'.happened
        /\ budget'.left["upgrade"] = budget.left["upgrade"]
    <2>1. CASE UNCHANGED budget
      BY <2>1 DEF IInv, TypeOK
    <2>2. CASE \E kind \in EventKinds \ {"upgrade"} : Spend(kind)
      BY <2>2, SpendFacts
    <2> QED BY <2>1, <2>2
  <1>2. res' \in [Versions -> Levels] /\ going' \in SUBSET Versions /\ going' \subseteq going
    BY DEF IInv, TypeOK
  <1>3. ClusterType'
    BY <1>1, <1>2 DEF ClusterType, IInv, TypeOK, BudgetOK
  <1>4. /\ PresentVersions' \subseteq PresentVersions \cup {v}
        /\ job = None /\ untracked = None => PresentVersions' \subseteq PresentVersions
        /\ going' # going => v \notin PresentVersions' /\ going' = going \ {v}
    BY DEF PresentVersions, IInv, TypeOK
  <1>5. job = None /\ Explained => Explained'
    <2>1. untracked # None => Happened("race")'
      BY <1>1 DEF IInv, OrphansOK, Happened
    <2> QED BY <1>1, <1>4, <2>1 DEF Explained, Happened
  <1>6. ASSUME Undisturbed'
        PROVE  /\ target' = 1 /\ going' = {}
               /\ PresentVersions' \subseteq {Charts[1]}
               /\ stray' \in {None, Charts[1]}
    <2>1. SteadyCluster
      BY <1>1, <1>6 DEF Undisturbed, Happened, IInv, SteadyOK
    <2>2. v \in PresentVersions \/ level = "absent" \/ v = Charts[1]
      BY <2>1 DEF SteadyCluster
    <2>3. PresentVersions' \subseteq {Charts[1]}
      BY <2>1, <2>2, <1>2 DEF SteadyCluster, PresentVersions, IInv, TypeOK
    <2> QED BY <1>2, <2>1, <2>3 DEF SteadyCluster
  <1> QED BY <1>1, <1>3, <1>4, <1>5, <1>6 DEF ClusterStep

\* Stopping a job, or not.
LEMMA StopCalm ==
  ASSUME IInv, UNCHANGED <<res, going, health, target>>,
         StopJob \/ UNCHANGED <<job, beside, budget>>
  PROVE  ClusterStep /\ ClusterType'
  <1>1. health' \in Healths
    BY DEF IInv, TypeOK
  <1>2. {"stray", "race"} \subseteq EventKinds \ {"upgrade"}
    BY DEF EventKinds
  <1>3. CASE UNCHANGED stray /\ (UNCHANGED budget \/ Spend("race"))
    BY <1>1, <1>2, <1>3, CalmStep
  <1>4. CASE ~(UNCHANGED stray /\ (UNCHANGED budget \/ Spend("race")))
    <2>1. job # None /\ job.type = "Deployment" /\ Spend("stray") /\ stray' = job.chart
      BY <1>4 DEF StopJob, beside
    <2> QED BY <1>1, <1>2, <2>1, CalmStep
  <1> QED BY <1>3, <1>4

\* Deletion of all resources, by an undeployment or with the object.
LEMMA DeleteAllStep ==
  ASSUME IInv, going' = PresentVersions, UNCHANGED <<res, stray, health, target, budget>>,
         ~Undisturbed
  PROVE  ClusterStep /\ ClusterType'
  <1>1. going' \in SUBSET Versions /\ PresentVersions' = PresentVersions
    BY DEF PresentVersions
  <1>2. ClusterType'
    BY <1>1 DEF ClusterType, IInv, TypeOK, BudgetOK
  <1>3. ~Undisturbed'
    BY DEF Undisturbed, Happened
  <1> QED BY <1>1, <1>2, <1>3 DEF ClusterStep, Explained

\* The steps of a pass.
LEMMA PassCluster ==
  ASSUME IInv, PassStep
  PROVE  ClusterStep /\ ClusterType'
  <1>h. health \in Healths
    BY DEF IInv, TypeOK
  <1>e. {"unwritten", "fault"} \subseteq EventKinds \ {"upgrade"}
    BY DEF EventKinds
  <1>1. CASE PassSkip \/ PassAddFinalizer \/ PassRelease \/ PassLoad \/ PassDerive
             \/ PassExecute
    <2>1. UNCHANGED <<cluster, beside, budget>>
      BY <1>1 DEF PassSkip, PassAddFinalizer, PassRelease, PassLoad, PassDerive, PassExecute
    <2> QED BY <1>h, <2>1, CalmStep DEF cluster, beside
  <1>2. CASE PassInitialize \/ PassWrite
    <2>1. UNCHANGED <<cluster, beside>> /\ (UNCHANGED budget \/ Spend("unwritten"))
      BY <1>2 DEF PassInitialize, PassWrite, Updated, NothingToDo, UpdateFails
    <2> QED BY <1>h, <1>e, <2>1, CalmStep DEF cluster, beside
  <1>3. CASE PassCleanup \/ PassStop
    <2>1. /\ UNCHANGED <<res, going, health, target>>
          /\ StopJob \/ UNCHANGED <<job, beside, budget>>
      BY <1>3 DEF PassCleanup, PassStop
    <2> QED BY <2>1, StopCalm
  <1>4. CASE PassDelete
    <2>1. ~Undisturbed
      <3>1. 1 \in 1..Len(states) /\ pass.pc = "cleanup"
        BY <1>4, NewestType DEF IInv, PassDelete
      <3> QED BY <3>1 DEF IInv, PassOK, Cleaning, SteadyOK, SteadyStates
    <2>2. UNCHANGED <<stray, res, health, target>>
      BY <1>4 DEF PassDelete, beside
    <2>3. \/ going' = PresentVersions /\ UNCHANGED budget
          \/ Spend("fault") /\ UNCHANGED going
      BY <1>4 DEF PassDelete
    <2>4. CASE going' = PresentVersions /\ UNCHANGED budget
      BY <2>1, <2>2, <2>4, DeleteAllStep
    <2>5. CASE Spend("fault") /\ UNCHANGED going
      BY <1>h, <1>e, <2>2, <2>5, CalmStep
    <2> QED BY <2>3, <2>4, <2>5
  <1> QED BY <1>1, <1>2, <1>3, <1>4 DEF PassStep

\* The steps of a job.
LEMMA RunCluster ==
  ASSUME IInv, NEW j \in {job, untracked}, NEW j2, RunStep(j, j2), UNCHANGED stray
  PROVE  ClusterStep /\ ClusterType'
  <1>h. health \in Healths
    BY DEF IInv, TypeOK
  <1>e. {"unwritten", "fault"} \subseteq EventKinds \ {"upgrade"} /\ "some" \in Levels
    BY DEF EventKinds, Levels
  <1>1. CASE PlacementRun(j, j2) \/ DeploySync(j, j2) \/ OperationCheck(j, j2)
    <2>1. UNCHANGED <<cluster, budget>>
      BY <1>1 DEF PlacementRun, DeploySync, OperationCheck
    <2> QED BY <1>h, <2>1, CalmStep DEF cluster
  <1>2. CASE JobReport(j, j2) \/ OperationFails(j, j2)
    <2>1. UNCHANGED cluster /\ (UNCHANGED budget \/ Spend("unwritten") \/ Spend("fault"))
      BY <1>2 DEF JobReport, Updated, NothingToDo, UpdateFails, OperationFails
    <2> QED BY <1>h, <1>e, <2>1, CalmStep DEF cluster
  <1>d. ASSUME Applying(j)
        PROVE  j # None /\ j.type = "Deployment" /\ j.chart \in Versions
    BY <1>d DEF Applying, IInv, JobOK
  <1>3. CASE DeploySucceeds(j, j2)
    <2>1. /\ Applying(j) /\ Synced(j.chart)
          /\ UNCHANGED <<health, target, budget>>
      BY <1>3 DEF DeploySucceeds
    <2> QED BY <1>d, <2>1, SyncedStep
  <1>4. CASE DeployFails(j, j2) \/ DeployIncomplete(j, j2)
    <2>1. /\ Applying(j) /\ Spend("fault")
          /\ UNCHANGED <<going, health, target>>
          /\ res' = [res EXCEPT ![j.chart] = "some"] \/ res' = res
      BY <1>4 DEF DeployFails, DeployIncomplete, Partly
    <2> QED BY <1>d, <1>e, <2>1, ResourcesStep
  <1>5. CASE UndeploySucceeds(j, j2)
    <2>1. ~Undisturbed
      BY <1>5 DEF UndeploySucceeds, Ready, IInv, SteadyOK, SteadyCluster
    <2> QED BY <1>5, <2>1, DeleteAllStep DEF UndeploySucceeds
  <1>6. CASE UndeployFails(j, j2) \/ UndeployProgress(j, j2)
    <2>1. PICK v \in Versions : Partly(v, "all")
      BY <1>6 DEF UndeployFails, UndeployProgress
    <2>2. /\ j # None /\ j.type = "Undeployment" /\ Spend("fault")
          /\ UNCHANGED <<going, health, target>>
      BY <1>6 DEF UndeployFails, UndeployProgress, Ready
    <2>3. res' = [res EXCEPT ![v] = "some"] \/ res' = res
      BY <2>1 DEF Partly
    <2> QED BY <1>e, <2>2, <2>3, ResourcesStep
  <1> QED BY <1>1, <1>2, <1>3, <1>4, <1>5, <1>6 DEF RunStep

\* A job runs, ends, or is evicted.
LEMMA JobCluster ==
  ASSUME IInv, JobStep \/ UntrackedStep \/ LateDelete
  PROVE  ClusterStep /\ ClusterType'
  <1>1. UNCHANGED stray
    BY DEF JobStep, UntrackedStep, LateDelete, beside
  <1>2. CASE RunStep(job, job') \/ RunStep(untracked, untracked')
    BY <1>1, <1>2, RunCluster
  <1>3. CASE ~(RunStep(job, job') \/ RunStep(untracked, untracked'))
    <2>1. UNCHANGED <<cluster, budget>>
      BY <1>3 DEF JobStep, UntrackedStep, LateDelete
    <2>2. health \in Healths
      BY DEF IInv, TypeOK
    <2> QED BY <1>1, <2>1, <2>2, CalmStep DEF cluster
  <1> QED BY <1>2, <1>3

\* Every step.
LEMMA ClusterSteps ==
  ASSUME IInv, Next
  PROVE  ClusterStep /\ ClusterType'
  <1>h. health \in Healths
    BY DEF IInv, TypeOK
  <1>e. {"move", "report", "delete", "sick", "crash", "loss"} \subseteq EventKinds \ {"upgrade"}
    BY DEF EventKinds
  <1>1. CASE CacheCatchUp \/ Resync
    <2>1. UNCHANGED <<cluster, beside, budget>>
      BY <1>1 DEF CacheCatchUp, Resync
    <2> QED BY <1>h, <2>1, CalmStep DEF cluster, beside
  <1>2. CASE \/ \E places \in Places : Move(places)
             \/ \E z \in Zones, section \in PeerSections : PeerReport(z, section)
             \/ Delete
    <2>1. UNCHANGED <<cluster, beside>> /\ (Spend("move") \/ Spend("report") \/ Spend("delete"))
      BY <1>2 DEF Move, PeerReport, Delete
    <2> QED BY <1>h, <1>e, <2>1, CalmStep DEF cluster, beside
  <1>3. CASE HealthChange
    <2>1. Spend("sick") /\ health' \in Healths /\ UNCHANGED <<stray, res, going, target>>
      BY <1>3 DEF HealthChange, beside
    <2> QED BY <1>e, <2>1, CalmStep
  <1>4. CASE Crash
    <2>1. Spend("crash") /\ stray' = None /\ UNCHANGED <<health, res, going, target>>
      BY <1>4 DEF Crash
    <2> QED BY <1>h, <1>e, <2>1, CalmStep
  <1>5. CASE Upgrade
    <2>1. Spend("upgrade") /\ target' = target + 1 /\ UNCHANGED <<stray, res, going, health>>
      BY <1>5 DEF Upgrade, beside
    <2>2. "upgrade" \in EventKinds
      BY DEF EventKinds
    <2>3. /\ budget' \in [left : [EventKinds -> Nat], happened : SUBSET EventKinds]
          /\ budget'.happened = budget.happened \cup {"upgrade"}
          /\ budget'.left["upgrade"] = budget.left["upgrade"] - 1
          /\ budget.left["upgrade"] \in Nat /\ budget.left["upgrade"] > 0
      BY <2>1, <2>2, SpendFacts
    <2>4. Len(Charts) \in Nat /\ target \in 1..Len(Charts)
      BY ZoneAssumption DEF IInv, TypeOK
    <2>5. target' \in 1..Len(Charts) /\ target' + budget'.left["upgrade"] <= Len(Charts)
      BY <2>1, <2>3, <2>4 DEF IInv, BudgetOK
    <2>6. ClusterType'
      BY <2>1, <2>3, <2>5 DEF ClusterType, IInv, TypeOK
    <2>7. ~Undisturbed' /\ PresentVersions' = PresentVersions
      BY <2>1, <2>3 DEF Undisturbed, Happened, PresentVersions
    <2>8. Explained => Explained'
      BY <2>1, <2>3, <2>7 DEF Explained, Happened
    <2> QED BY <2>1, <2>3, <2>6, <2>7, <2>8 DEF ClusterStep
  <1>6. ASSUME NEW v \in Versions, NEW left \in {"some", "absent"}, Loss(v, left)
        PROVE  ClusterStep /\ ClusterType'
    <2>1. /\ res' = [res EXCEPT ![v] = left] /\ Spend("loss")
          /\ UNCHANGED <<stray, going, health, target>>
          /\ v \in PresentVersions /\ left \in Levels
      BY <1>6 DEF Loss, PresentVersions, Levels, beside
    <2> QED BY <1>e, <2>1, ResourcesStep
  <1>7. ASSUME NEW v \in Versions, NEW left \in {"some", "absent"}, Vanish(v, left)
        PROVE  ClusterStep /\ ClusterType'
    <2>1. /\ res' = [res EXCEPT ![v] = left] /\ left \in Levels
          /\ UNCHANGED <<stray, health, target, budget>>
          /\ going' = going \/ (left = "absent" /\ going' = going \ {v})
          /\ v \in PresentVersions \/ left = "absent"
      BY <1>7 DEF Vanish, PresentVersions, Levels, beside
    <2>2. left = "absent" => res'[v] = "absent"
      BY <2>1 DEF IInv, TypeOK
    <2> QED BY <2>1, <2>2, ResourcesStep
  <1>8. CASE StrayLands
    <2>1. stray \in Versions /\ stray # None /\ Synced(stray) /\ stray' = None
          /\ UNCHANGED <<health, target, budget>>
      BY <1>8 DEF StrayLands, IInv, TypeOK
    <2> QED BY <2>1, SyncedStep
  <1> QED BY <1>1, <1>2, <1>3, <1>4, <1>5, <1>6, <1>7, <1>8, PassCluster, JobCluster
          DEF Next, Progress, Environment

-----------------------------------------------------------------------------
(***************************************************************************)
(* The job and the pass.                                                   *)
(***************************************************************************)

\* A job keeps its type and its chart version.
Same(j, j2) == j # None /\ j2 \in Jobs /\ j2.type = j.type /\ j2.chart = j.chart

\* A new job is what the pass asks for.
JobChange ==
  \/ job' = job \/ job' = None \/ Same(job, job')
  \/ /\ pass.pc = "execute" /\ pass.job # None /\ pass.app # None /\ job' \in Jobs
     /\ job'.type = pass.job
     /\ job'.type = "Deployment" => job'.chart = pass.app.target

\* An untracked job is one that was registered, and comes of a race.
UntrackedChange ==
  /\ \/ untracked' = untracked \/ untracked' = None
     \/ Same(untracked, untracked') \/ Same(job, untracked')
  /\ late' \in BOOLEAN
  /\ untracked' # None \/ late' => untracked # None \/ late \/ Happened("race")'

\* What a step makes of a job.
LEMMA RunJob ==
  ASSUME IInv, NEW j \in {job, untracked}, NEW j2, RunStep(j, j2)
  PROVE  Same(j, j2)
  <1>m. Messages \subseteq Msgs
    BY ZoneAssumption
  <1>r. RetryAttempts \in Nat \ {0}
    BY ZoneAssumption
  <1>j. j # None => j \in Jobs
    BY DEF IInv, TypeOK
  <1>s. ASSUME j # None, NEW pc \in {"run", "report"}, NEW word \in Words, NEW msg \in Messages,
               NEW done \in BOOLEAN,
               j2 = [j EXCEPT !.pc = pc, !.word = word, !.msg = msg, !.isDone = done]
        PROVE  Same(j, j2)
    BY <1>j, <1>m, <1>s DEF Jobs, Same
  <1>p. ASSUME j # None, NEW pc \in {"run", "sync", "finished"}, j2 = [j EXCEPT !.pc = pc]
        PROVE  Same(j, j2)
    BY <1>j, <1>p DEF Jobs, Same
  <1>t. ASSUME j # None, NEW word \in Words, MaybeRetry(j, j2, word)
        PROVE  Same(j, j2)
    <2>1. j.attempt \in 1..RetryAttempts
      BY <1>j, <1>t DEF Jobs
    <2>2. CASE j.attempt < RetryAttempts
      <3>1. j2 = [j EXCEPT !.pc = "report", !.word = word, !.msg = "retry",
                           !.attempt = j.attempt + 1]
        BY <1>t, <2>2 DEF MaybeRetry
      <3>2. j.attempt + 1 \in 1..RetryAttempts /\ "retry" \in Msgs
        BY <1>m, <1>r, <2>1, <2>2 DEF Messages
      <3> QED BY <1>j, <1>t, <3>1, <3>2 DEF Jobs, Same
    <2>3. CASE ~(j.attempt < RetryAttempts)
      <3>1. j2 = [j EXCEPT !.pc = "report", !.word = "Failure", !.msg = "failed",
                           !.isDone = TRUE]
        BY <1>t, <2>3 DEF MaybeRetry
      <3>2. "failed" \in Msgs /\ "Failure" \in Words
        BY <1>m DEF Messages, Words
      <3> QED BY <1>j, <1>t, <3>1, <3>2 DEF Jobs, Same
    <2> QED BY <2>2, <2>3
  <1>w. /\ {"Done", "Failure", "Pull", "Undeploy", "Progressing", "Missing", "Degraded"}
             \subseteq Words
        /\ Healths \subseteq Words
        /\ {"initial", "done", "failed", "progress", "newVersion", "state", "health"}
             \subseteq Messages
    BY DEF Words, Healths, Messages
  <1>1. CASE \/ PlacementRun(j, j2) \/ DeploySucceeds(j, j2) \/ DeployFails(j, j2)
             \/ UndeploySucceeds(j, j2) \/ OperationFails(j, j2)
    <2>1. j # None /\ \/ Show(j, j2, "Done", "initial", TRUE) \/ Show(j, j2, "Done", "done", TRUE)
                      \/ Show(j, j2, "Failure", "failed", TRUE)
                      \/ Show(j, j2, "Degraded", "failed", TRUE)
      BY <1>1 DEF PlacementRun, DeploySucceeds, DeployFails, UndeploySucceeds,
                  OperationFails, Ready, Applying
    <2> QED BY <1>s, <1>w, <2>1 DEF Show
  <1>2. CASE DeploySync(j, j2)
    BY <1>p, <1>2 DEF DeploySync, Ready
  <1>3. CASE DeployIncomplete(j, j2) \/ UndeployFails(j, j2)
    <2>1. j # None /\ \/ j2 = [j EXCEPT !.pc = "run"]
                      \/ MaybeRetry(j, j2, "Pull") \/ MaybeRetry(j, j2, "Undeploy")
      BY <1>3 DEF DeployIncomplete, UndeployFails, Ready, Applying
    <2> QED BY <1>p, <1>t, <1>w, <2>1
  <1>4. CASE UndeployProgress(j, j2)
    <2>1. j # None /\ Show(j, j2, j.word, "progress", FALSE)
      BY <1>4 DEF UndeployProgress, Ready
    <2>2. j.word \in Words
      BY <1>j, <2>1 DEF Jobs
    <2> QED BY <1>s, <1>w, <2>1, <2>2 DEF Show
  <1>5. CASE OperationCheck(j, j2)
    <2> DEFINE word == AggregatedStatus(j.chart)
    <2>1. word \in Words
      BY <1>w DEF AggregatedStatus, IInv, TypeOK
    <2>2. j # None /\ \/ Show(j, j2, "Progressing", "newVersion", TRUE)
                      \/ Show(j, j2, word, "state", FALSE)
                      \/ Show(j, j2, word, "failed", TRUE)
                      \/ j2 = [j EXCEPT !.pc = "run", !.word = word, !.msg = "health"]
      BY <1>5 DEF OperationCheck, Ready
    <2> HIDE DEF word
    <2>3. CASE j2 = [j EXCEPT !.pc = "run", !.word = word, !.msg = "health"]
      BY <1>j, <1>m, <1>w, <2>1, <2>2, <2>3 DEF Jobs, Same
    <2> QED BY <1>s, <1>w, <2>1, <2>2, <2>3 DEF Show
  <1>6. CASE JobReport(j, j2)
    <2> DEFINE pc == IF j.isDone THEN "finished" ELSE "run"
    <2>1. j # None /\ \/ j2 = [j EXCEPT !.pc = pc]
                      \/ j2 = [j EXCEPT !.pc = pc, !.word = "Failure", !.msg = "failed"]
      BY <1>6 DEF JobReport
    <2>2. pc \in {"run", "sync", "finished"}
      OBVIOUS
    <2> HIDE DEF pc
    <2>3. CASE j2 = [j EXCEPT !.pc = pc]
      BY <1>p, <2>1, <2>2, <2>3
    <2>4. CASE j2 = [j EXCEPT !.pc = pc, !.word = "Failure", !.msg = "failed"]
      <3>1. "failed" \in Msgs /\ "Failure" \in Words
        BY <1>m, <1>w
      <3> QED BY <1>j, <2>1, <2>2, <2>4, <3>1 DEF Jobs, Same
    <2> QED BY <2>1, <2>3, <2>4
  <1> QED BY <1>1, <1>2, <1>3, <1>4, <1>5, <1>6 DEF RunStep

\* Every step changes the registered job that way.
LEMMA JobSteps ==
  ASSUME IInv, Next
  PROVE  JobChange
  <1>r. RetryAttempts \in Nat \ {0} /\ "initial" \in Msgs
    BY ZoneAssumption DEF Messages
  <1>1. CASE PassStep
    <2>1. CASE PassCleanup \/ PassStop
      BY <2>1 DEF PassCleanup, PassStop, StopJob, JobChange
    <2>2. CASE PassExecute
      <3>1. CASE pass.job = None \/ (job # None /\ job.type = pass.job)
        BY <2>2, <3>1 DEF PassExecute, JobChange
      <3>2. CASE ~(pass.job = None \/ (job # None /\ job.type = pass.job))
        <4>1. /\ pass.pc = "execute" /\ pass.job # None /\ pass.app # None
              /\ job' = CreateJob(pass.job, pass.app)
          BY <2>2, <3>2 DEF PassExecute, IInv, PassOK, Working
        <4>2. pass.job \in CondTypes /\ pass.app \in Apps
          BY <4>1 DEF IInv, TypeOK, Passes
        <4>3. ActiveVersion(pass.app) \in Versions \cup {None}
              /\ DeriveTargetVersion(pass.app) = pass.app.target
              /\ pass.app.target \in Versions
          BY <4>2, VersionFacts DEF Apps
        <4>4. \A type \in CondTypes, chart \in Versions \cup {None} :
                /\ Job(type, chart) \in Jobs
                /\ Job(type, chart).type = type /\ Job(type, chart).chart = chart
          <5> SUFFICES ASSUME NEW type \in CondTypes, NEW chart \in Versions \cup {None}
                       PROVE  /\ Job(type, chart) \in Jobs
                              /\ Job(type, chart).type = type
                              /\ Job(type, chart).chart = chart
            OBVIOUS
          <5>1. InitialCondition(type).word \in Words /\ "initial" \in Msgs
                /\ 1 \in 1..RetryAttempts
            BY <1>r, InitialConditionType, StrategyAssumption DEF Conditions
          <5> QED BY <5>1 DEF Job, Jobs
        <4>5. /\ job' \in Jobs /\ job'.type = pass.job
              /\ job'.type = "Deployment" => job'.chart = pass.app.target
          BY <4>1, <4>2, <4>3, <4>4 DEF CreateJob, NewDeployJob, NewUndeployJob,
             NewLocalOperationJob, NewLocalPlacementJob, CondTypes
        <4> QED BY <4>1, <4>5 DEF JobChange
      <3> QED BY <3>1, <3>2
    <2>3. CASE ~PassCleanup /\ ~PassStop /\ ~PassExecute
      <3>1. job' = job
        BY <1>1, <2>3 DEF PassStep, PassSkip, PassInitialize, PassAddFinalizer, PassDelete,
           PassRelease, PassLoad, PassDerive, PassWrite
      <3> QED BY <3>1 DEF JobChange
    <2> QED BY <2>1, <2>2, <2>3
  <1>2. CASE JobStep \/ UntrackedStep \/ LateDelete
    <2>1. CASE RunStep(job, job')
      BY <2>1, RunJob DEF JobChange
    <2>2. CASE ~RunStep(job, job')
      <3>1. job' = job \/ job' = None
        BY <1>2, <2>2 DEF JobStep, UntrackedStep, LateDelete
      <3> QED BY <3>1 DEF JobChange
    <2> QED BY <2>1, <2>2
  <1>3. CASE ~PassStep /\ ~JobStep /\ ~UntrackedStep /\ ~LateDelete
    <2>1. job' = job \/ job' = None
      BY <1>3 DEF Next, Progress, Environment, CacheCatchUp, Resync, StrayLands, Vanish,
         Move, PeerReport, Delete, Upgrade, HealthChange, Crash, Loss
    <2> QED BY <2>1 DEF JobChange
  <1> QED BY <1>1, <1>2, <1>3

\* And the untracked one.
LEMMA UntrackedSteps ==
  ASSUME IInv, Next
  PROVE  UntrackedChange
  <1>t. late \in BOOLEAN /\ (job # None => job \in Jobs)
    BY DEF IInv, TypeOK
  <1>1. CASE StopJob
    <2>1. CASE UNCHANGED beside
      BY <1>t, <2>1 DEF beside, UntrackedChange
    <2>2. CASE ~UNCHANGED beside
      <3>1. CASE UNCHANGED <<untracked, late>>
        BY <1>t, <3>1 DEF UntrackedChange
      <3>2. CASE ~UNCHANGED <<untracked, late>>
        <4>1. /\ job # None /\ Spend("race")
              /\ \/ untracked' = [job EXCEPT !.stopped = TRUE] /\ late' = late
                 \/ untracked' = untracked /\ late' = TRUE
          BY <1>1, <2>2, <3>2 DEF StopJob
        <4>2. Happened("race")'
          BY <4>1 DEF Spend, Happened
        <4>3. Same(job, [job EXCEPT !.stopped = TRUE])
          BY <1>t, <4>1 DEF Jobs, Same
        <4> QED BY <1>t, <4>1, <4>2, <4>3 DEF UntrackedChange
      <3> QED BY <3>1, <3>2
    <2> QED BY <2>1, <2>2
  <1>2. CASE UntrackedStep
    <2>1. CASE RunStep(untracked, untracked') /\ late' = late
      <3>1. Same(untracked, untracked')
        BY <2>1, RunJob
      <3> QED BY <1>t, <2>1, <3>1 DEF UntrackedChange, Same
    <2>2. CASE ~(RunStep(untracked, untracked') /\ late' = late)
      <3>1. untracked # None /\ untracked' = None /\ late' \in BOOLEAN
        BY <1>2, <2>2 DEF UntrackedStep
      <3> QED BY <3>1 DEF UntrackedChange
    <2> QED BY <2>1, <2>2
  <1>3. CASE LateDelete
    <2>1. late /\ late' = FALSE /\ untracked' = job
      BY <1>3 DEF LateDelete
    <2>2. job = None \/ Same(job, job)
      BY <1>t DEF Same
    <2> QED BY <2>1, <2>2 DEF UntrackedChange
  <1>4. CASE Crash
    BY <1>4 DEF Crash, UntrackedChange
  <1>5. CASE ~StopJob /\ ~UntrackedStep /\ ~LateDelete /\ ~Crash
    <2>1. UNCHANGED <<untracked, late>>
      BY <1>5 DEF Next, Progress, Environment, PassStep, PassSkip, PassInitialize,
         PassAddFinalizer, PassCleanup, PassDelete, PassRelease, PassLoad, PassDerive,
         PassStop, PassWrite, PassExecute, JobStep, CacheCatchUp, Resync, StrayLands, Vanish,
         Move, PeerReport, Delete, Upgrade, HealthChange, Loss, beside
    <2> QED BY <1>t, <2>1 DEF UntrackedChange
  <1> QED BY <1>1, <1>2, <1>3, <1>4, <1>5

\* How a pass goes on.
PassLoads ==
  /\ Branch(Cached) = "derive" /\ states' = states /\ job' = job
  /\ pass' = [IdlePass EXCEPT !.pc = "derive", !.app = Load(Cached)]

PassDecides ==
  /\ pass.pc = "derive" /\ pass'.pc = "stop" /\ pass'.app = pass.app /\ states' = states
  /\ \E result : /\ DerivedOK(pass.app, result)
                 /\ pass'.new \in {None, result.status}
                 /\ pass'.job = None \/ result.jobs = {pass'.job}

PassGoesOn ==
  /\ Working /\ pass'.pc \in {"write", "execute"}
  /\ pass'.app = pass.app /\ pass'.job = pass.job /\ pass'.new \in {pass.new, None}
  /\ pass'.pc = "write" => pass'.new # None

PassCleans ==
  /\ Branch(Cached) = "cleanup" /\ states' = states /\ job' = None
  /\ pass' = [IdlePass EXCEPT !.pc = "cleanup", !.seen = Cached]

PassDeletes ==
  /\ pass.pc = "cleanup" /\ states' = states
  /\ pass' = [pass EXCEPT !.pc = "release"]
  /\ (going' = PresentVersions /\ res' = res) \/ Happened("fault")'

PassChange ==
  \/ pass' = pass \/ pass' = IdlePass
  \/ PassLoads \/ PassDecides \/ PassGoesOn \/ PassCleans \/ PassDeletes

\* The application a pass loads.
LEMMA LoadType ==
  ASSUME IInv, ~Gone(Cached)
  PROVE  /\ Load(Cached) \in Apps
         /\ Load(Cached).status = Cached.status
         /\ Load(Cached).present = PresentVersions /\ Load(Cached).target = Charts[target]
  <1>1. Cached.status \in Statuses
    BY NewestType DEF IInv, Objects, Gone
  <1>2. Charts[target] \in Versions
    BY ZoneAssumption DEF IInv, TypeOK
  <1>3. health \in Words
    BY DEF IInv, TypeOK, Healths, Words
  <1> QED BY <1>1, <1>2, <1>3 DEF Load, Apps, PresentVersions, DeployedVersions, Target

\* DoReconcile decides on at most one job (NextJobs.Add does not panic).
LEMMA DeriveStep ==
  ASSUME IInv, PassDerive
  PROVE  PassDecides /\ pass' \in Passes /\ panicked' = panicked /\ queued' = queued
  <1> DEFINE result == DeriveNewStatus(pass.app, JobCondition)
             old == GetOrCreateStatusFor(pass.app.status, Self)
             section == GetOrCreateStatusFor(result.status, Self)
             new == IF result.updated THEN result.status ELSE None
             type == IF result.jobs = {} THEN None ELSE CHOOSE t \in result.jobs : TRUE
             fresh == { c \in CondTypes : old.conds[c] = None /\ section.conds[c] # None }
  <1>1. pass.pc = "derive" /\ pass.app # None /\ pass.app \in Apps /\ pass \in Passes
    BY DEF PassDerive, IInv, PassOK, Working, TypeOK, Passes
  <1>2. JobCondition \in Reports \cup {None}
    BY DEF JobCondition, IInv, TypeOK, Jobs, Reports, Conditions
  <1>3. DerivedOK(pass.app, result)
    BY <1>1, <1>2, DeriveFacts
  <1>4. ChartOf(pass.app.status) # None => PlacementExists(pass.app.status)
    BY <1>1 DEF IInv, ChartOK, ChartPlaced
  <1>5. /\ result.jobs = {} \/ \E t \in CondTypes : result.jobs = {t}
        /\ Cardinality(result.jobs) <= 1
    BY <1>1, <1>3, <1>4, OneJob
  <1>6. ~(Cardinality(result.jobs) > 1)
    <2> HIDE DEF result
    <2>1. Cardinality(result.jobs) \in Nat
      <3>1. CASE result.jobs = {}
        BY <3>1, FS_EmptySet
      <3>2. ASSUME NEW t, result.jobs = {t} PROVE Cardinality(result.jobs) = 1
        BY <3>2, FS_Singleton
      <3> QED BY <1>5, <3>1, <3>2
    <2> QED BY <1>5, <2>1
  <1>7. /\ pass' = [pass EXCEPT !.pc = "stop", !.new = new, !.job = type, !.fresh = fresh]
        /\ queued' = queued /\ panicked' = panicked /\ states' = states
    BY <1>6 DEF PassDerive
  <1>8. new \in {None, result.status} /\ result.status \in Statuses
    BY <1>3 DEF DerivedOK
  <1>9. type = None \/ (result.jobs = {type} /\ type \in CondTypes)
    <2>1. CASE result.jobs = {}
      BY <2>1
    <2>2. CASE \E t \in CondTypes : result.jobs = {t}
      BY <2>2
    <2> QED BY <1>5, <2>1, <2>2
  <1>10. fresh \in SUBSET CondTypes
    OBVIOUS
  <1> HIDE DEF new, type, fresh, result
  <1>11. pass' \in Passes /\ pass'.pc = "stop" /\ pass'.app = pass.app /\ pass'.new = new
         /\ pass'.job = type
    BY <1>1, <1>7, <1>8, <1>9, <1>10 DEF Passes
  <1> QED BY <1>1, <1>3, <1>7, <1>8, <1>9, <1>11 DEF PassDecides

\* Every step changes the pass that way.
LEMMA PassSteps ==
  ASSUME IInv, Next
  PROVE  PassChange /\ pass' \in Passes /\ queued' \in BOOLEAN /\ panicked' = panicked
  <1>0. pass \in Passes /\ queued \in BOOLEAN
    BY DEF IInv, TypeOK
  <1>i. IdlePass \in Passes
    BY DEF IdlePass, Passes
  <1>1. CASE PassSkip \/ PassInitialize \/ PassAddFinalizer
    <2>1. pass' = pass /\ panicked' = panicked
      BY <1>0, <1>1 DEF PassSkip, PassInitialize, PassAddFinalizer
    <2>2. queued' \in BOOLEAN
      BY <1>0, <1>1 DEF PassSkip, PassInitialize, PassAddFinalizer, Updated, NothingToDo,
                        UpdateFails, Publish
    <2> QED BY <1>0, <2>1, <2>2 DEF PassChange
  <1>2. CASE PassCleanup
    <2>1. /\ PassCleans /\ queued' = FALSE /\ panicked' = panicked
          /\ pass' = [IdlePass EXCEPT !.pc = "cleanup", !.seen = Cached]
      BY <1>2 DEF PassCleanup, PassCleans, StopJob
    <2>2. Cached \in Objects
      BY NewestType DEF IInv
    <2>3. pass' \in Passes
      BY <1>i, <2>1, <2>2 DEF Passes
    <2> QED BY <1>0, <2>1, <2>3 DEF PassChange
  <1>3. CASE PassDelete
    <2>1. CASE pass' = IdlePass
      BY <1>0, <1>3, <1>i, <2>1 DEF PassDelete, PassChange
    <2>2. CASE pass' # IdlePass
      <3>1. /\ pass.pc = "cleanup" /\ states' = states
            /\ pass' = [pass EXCEPT !.pc = "release"] /\ res' = res
            /\ going' = PresentVersions \/ Spend("fault")
            /\ queued' = queued /\ panicked' = panicked
        BY <1>3, <2>2 DEF PassDelete
      <3>2. pass' \in Passes
        BY <1>0, <3>1 DEF Passes
      <3>3. PassDeletes
        BY <3>1 DEF PassDeletes, Happened, Spend
      <3> QED BY <1>0, <3>1, <3>2, <3>3 DEF PassChange
    <2> QED BY <2>1, <2>2
  <1>4. CASE PassRelease
    <2>1. pass' = IdlePass /\ panicked' = panicked /\ queued' \in BOOLEAN
      BY <1>0, <1>4 DEF PassRelease, Publish
    <2> QED BY <1>0, <1>i, <2>1 DEF PassChange
  <1>5. CASE PassLoad
    <2>1. PassLoads /\ queued' = FALSE /\ panicked' = panicked
      BY <1>5 DEF PassLoad, PassLoads
    <2>2. Load(Cached) \in Apps
      BY <2>1, LoadType DEF PassLoads, Branch
    <2>3. pass' \in Passes
      BY <1>i, <2>1, <2>2 DEF Passes, PassLoads
    <2> QED BY <1>0, <2>1, <2>3 DEF PassChange
  <1>6. CASE PassDerive
    BY <1>0, <1>6, DeriveStep DEF PassChange
  <1>7. CASE PassStop
    <2>1. /\ pass.pc = "stop"
          /\ pass' = [pass EXCEPT !.pc = IF pass.new = None THEN "execute" ELSE "write"]
          /\ queued' = queued /\ panicked' = panicked
      BY <1>7 DEF PassStop
    <2>2. /\ pass' \in Passes /\ pass'.app = pass.app /\ pass'.job = pass.job
          /\ pass'.new = pass.new /\ pass'.pc \in {"write", "execute"}
          /\ pass'.pc = "write" => pass'.new # None
      BY <1>0, <2>1 DEF Passes
    <2> QED BY <1>0, <2>1, <2>2 DEF PassChange, PassGoesOn, Working
  <1>8. CASE PassWrite
    <2>1. /\ pass.pc = "write" /\ panicked' = panicked
          /\ \E again \in BOOLEAN :
               pass' = [pass EXCEPT !.pc = "execute", !.new = None, !.fresh = {},
                                    !.again = again]
      <3>1. pass = [pass EXCEPT !.again = pass.again] /\ pass.again \in BOOLEAN
        BY <1>0 DEF Passes
      <3>2. CASE pass' = [pass EXCEPT !.pc = "execute", !.new = None, !.fresh = {}]
        <4>1. pass' = [pass EXCEPT !.pc = "execute", !.new = None, !.fresh = {},
                                   !.again = pass.again]
          BY <1>0, <3>2 DEF Passes
        <4> QED BY <1>8, <3>1, <4>1 DEF PassWrite
      <3>3. CASE pass' # [pass EXCEPT !.pc = "execute", !.new = None, !.fresh = {}]
        BY <1>8, <3>3 DEF PassWrite
      <3> QED BY <3>2, <3>3
    <2>2. /\ pass' \in Passes /\ pass'.app = pass.app /\ pass'.job = pass.job
          /\ pass'.new = None /\ pass'.pc = "execute"
      BY <1>0, <2>1 DEF Passes
    <2>3. queued' \in BOOLEAN
      BY <1>0, <1>8 DEF PassWrite, Updated, NothingToDo, UpdateFails, Publish
    <2> QED BY <1>0, <2>1, <2>2, <2>3 DEF PassChange, PassGoesOn, Working
  <1>9. CASE PassExecute
    <2>1. pass' = IdlePass /\ queued' = (queued \/ pass.again) /\ panicked' = panicked
      BY <1>9 DEF PassExecute
    <2> QED BY <1>0, <1>i, <2>1 DEF PassChange, Passes
  <1>10. CASE JobStep \/ UntrackedStep \/ LateDelete
    <2>1. pass' = pass /\ panicked' = panicked
      BY <1>10 DEF JobStep, UntrackedStep, LateDelete
    <2>2. ASSUME NEW j, NEW j2, RunStep(j, j2)
          PROVE  queued' \in BOOLEAN
      BY <1>0, <2>2 DEF RunStep, PlacementRun, DeploySync, DeploySucceeds, DeployFails,
         DeployIncomplete, UndeploySucceeds, UndeployFails, UndeployProgress,
         OperationCheck, OperationFails, JobReport, Updated, NothingToDo, UpdateFails, Publish
    <2>3. queued' \in BOOLEAN
      BY <1>0, <1>10, <2>2 DEF JobStep, UntrackedStep, LateDelete
    <2> QED BY <1>0, <2>1, <2>3 DEF PassChange
  <1>11. CASE ~PassStep /\ ~JobStep /\ ~UntrackedStep /\ ~LateDelete
    <2>1. (pass' = pass \/ pass' = IdlePass) /\ panicked' = panicked
      BY <1>11 DEF Next, Progress, Environment, CacheCatchUp, Resync, StrayLands, Vanish,
         Move, PeerReport, Delete, Upgrade, HealthChange, Crash, Loss
    <2>2. queued' \in BOOLEAN
      BY <1>0, <1>11 DEF Next, Progress, Environment, CacheCatchUp, Resync, StrayLands,
         Vanish, Move, PeerReport, Delete, Upgrade, HealthChange, Crash, Loss, Publish
    <2> QED BY <1>0, <1>i, <2>1, <2>2 DEF PassChange
  <1> QED BY <1>1, <1>2, <1>3, <1>4, <1>5, <1>6, <1>7, <1>8, <1>9, <1>10, <1>11 DEF PassStep

-----------------------------------------------------------------------------
(***************************************************************************)
(* The parts of the invariant.                                             *)
(***************************************************************************)

\* Types.
LEMMA TypeStep ==
  ASSUME IInv, Next
  PROVE  TypeOK' /\ BudgetOK' /\ JobOK'
  <1>1. PICK o \in Objects : ObjectStep(o)
    BY ObjectSteps
  <1>2. states' \in Seq(Objects) /\ Len(states') \in 1..(MaxLag + 1)
    BY <1>1, LaterFacts DEF ObjectStep, IInv
  <1>3. ClusterType'
    BY ClusterSteps
  <1>4. job' \in Jobs \cup {None}
    BY JobSteps DEF JobChange, Same, IInv, TypeOK
  <1>u. untracked' \in Jobs \cup {None} /\ late' \in BOOLEAN
    BY UntrackedSteps DEF UntrackedChange, Same, IInv, TypeOK
  <1>5. pass' \in Passes /\ queued' \in BOOLEAN /\ panicked' \in BOOLEAN
    BY PassSteps DEF IInv, TypeOK
  <1>6. JobOK'
    <2>1. pass.app # None => pass.app.target \in Versions
      BY DEF IInv, TypeOK, Passes, Apps
    <2>2. job' # None /\ job'.type = "Deployment" => job'.chart \in Versions
      BY <2>1, JobSteps DEF JobChange, Same, JobOK, IInv
    <2>3. untracked' # None /\ untracked'.type = "Deployment" => untracked'.chart \in Versions
      BY UntrackedSteps DEF UntrackedChange, Same, JobOK, IInv
    <2> QED BY <2>2, <2>3 DEF JobOK
  <1> QED BY <1>2, <1>3, <1>4, <1>5, <1>6, <1>u DEF TypeOK, ClusterType, BudgetOK

\* The states of the object.
LEMMA HistoryStep ==
  ASSUME IInv, Next
  PROVE  HistoryOK'
  <1>1. PICK o \in Objects : ObjectStep(o)
    BY ObjectSteps
  <1> DEFINE n == Len(states)
  <1>2. n \in Nat /\ n \in 1..n /\ Newest = states[n] /\ \A k \in 1..n : k <= n
    BY NewestType DEF IInv, Newest
  <1>3. /\ Newest' \in {Newest, o}
        /\ \A i \in 1..Len(states') :
             (\E k \in 1..n : states'[i] = states[k]) \/ states'[i] = o
        /\ \A i, j \in 1..Len(states') : i <= j =>
             \/ \E k, l \in 1..n :
                  k <= l /\ states'[i] = states[k] /\ states'[j] = states[l]
             \/ \E k \in 1..n : states'[i] = states[k] /\ states'[j] = o
             \/ states'[i] = o /\ states'[j] = o
    BY <1>1, LaterFacts DEF ObjectStep, IInv
  <1> HIDE DEF n
  <1>4. \A k, l \in 1..n : k <= l => Follows(states[k], states[l])
    BY DEF IInv, HistoryOK, n
  <1>5. Follows(Newest, o)
    BY <1>1, <1>2, <1>4 DEF ObjectStep, WriteOK, Follows
  <1>6. \A k \in 1..n : Follows(states[k], o)
    BY <1>2, <1>4, <1>5 DEF Follows
  <1>7. ASSUME NEW i \in 1..Len(states'), NEW j \in 1..Len(states'), i <= j
        PROVE  Follows(states'[i], states'[j])
    <2>1. Follows(o, o)
      BY DEF Follows
    <2>2. \/ \E k, l \in 1..n : k <= l /\ states'[i] = states[k] /\ states'[j] = states[l]
          \/ \E k \in 1..n : states'[i] = states[k] /\ states'[j] = o
          \/ states'[i] = o /\ states'[j] = o
      BY <1>3, <1>7
    <2> QED BY <1>4, <1>6, <2>1, <2>2
  <1>8. Gone(o) => o.deleting
    <2>1. WriteOK(o) \/ o = Newest
      BY <1>1 DEF ObjectStep
    <2>2. Gone(Newest) => Newest.deleting
      BY <1>2 DEF IInv, HistoryOK, n
    <2> QED BY <2>1, <2>2 DEF WriteOK
  <1>9. \A i \in 1..Len(states') : Gone(states'[i]) => states'[i].deleting
    <2>1. \A k \in 1..n : Gone(states[k]) => states[k].deleting
      BY DEF IInv, HistoryOK, n
    <2> SUFFICES ASSUME NEW i \in 1..Len(states'), Gone(states'[i])
                 PROVE  states'[i].deleting
      OBVIOUS
    <2>2. (\E k \in 1..n : states'[i] = states[k]) \/ states'[i] = o
      BY <1>3
    <2> QED BY <1>8, <2>1, <2>2
  <1>10. ASSUME NEW i \in 1..Len(states'), Gone(Newest')
         PROVE  Gone(states'[i]) \/ states'[i].deleting \/ ~states'[i].finalizer
    <2>1. CASE Gone(Newest)
      <3>1. o = Newest
        BY <1>1, <2>1 DEF ObjectStep
      <3>2. PICK k \in 1..n : states'[i] = states[k]
        BY <1>2, <1>3, <3>1
      <3> QED BY <2>1, <3>2 DEF IInv, HistoryOK, n
    <2>2. CASE ~Gone(Newest)
      <3>1. /\ Newest' = o /\ Gone(o)
            /\ ~Newest.finalizer \/ pass.pc = "release"
        BY <1>1, <1>3, <1>10, <2>2 DEF ObjectStep, WriteOK
      <3>2. CASE states'[i] = o
        BY <3>1, <3>2
      <3>3. CASE \E k \in 1..n : states'[i] = states[k]
        <4>1. PICK k \in 1..n : states'[i] = states[k]
          BY <3>3
        <4>2. CASE ~Newest.finalizer
          <5>1. Follows(states[k], Newest)
            BY <1>2, <1>4
          <5> QED BY <2>2, <4>1, <4>2, <5>1 DEF Follows
        <4>3. CASE pass.pc = "release"
          BY <4>1, <4>3 DEF IInv, PassOK, Cleaning, n
        <4> QED BY <3>1, <4>2, <4>3
      <3> QED BY <1>3, <3>2, <3>3
    <2> QED BY <2>1, <2>2
  <1> QED BY <1>7, <1>9, <1>10 DEF HistoryOK

\* A pass that derives something works on an object that is there.
LEMMA DeriveFromLive ==
  ASSUME IInv, Branch(Cached) = "derive"
  PROVE  /\ ~Gone(Cached) /\ ~Gone(Newest) /\ Newest.finalizer
  <1>1. /\ Len(states) \in 1..Len(states) /\ 1 \in 1..Len(states) /\ 1 <= Len(states)
        /\ Newest = states[Len(states)] /\ Cached = states[1]
    BY NewestType DEF IInv, Newest, Cached
  <1>2. ~Gone(Cached) /\ ~Cached.deleting /\ Cached.finalizer
    BY DEF Branch
  <1>3. ~Gone(Newest)
    BY <1>1, <1>2 DEF IInv, HistoryOK
  <1>4. Follows(Cached, Newest)
    BY <1>1 DEF IInv, HistoryOK
  <1> QED BY <1>2, <1>3, <1>4 DEF Follows

\* The finalizer precedes passes, jobs and resources.
LEMMA FinalizerKept ==
  ASSUME IInv, Next
  PROVE  FinalizerOK'
  <1>1. PICK o \in Objects : ObjectStep(o)
    BY ObjectSteps
  <1>2. Newest' \in {Newest, o}
    BY <1>1, LaterFacts DEF ObjectStep, IInv
  <1>3. ASSUME job' # None \/ Working'
        PROVE  \/ job # None \/ Working
               \/ Branch(Cached) = "derive" /\ states' = states
    <2>1. Working' => Working \/ (Branch(Cached) = "derive" /\ states' = states)
      <3>1. PassDeletes => pass'.pc = "release"
        BY DEF PassDeletes, IInv, TypeOK, Passes
      <3>2. PassCleans => pass'.pc = "cleanup"
        BY DEF PassCleans, IdlePass
      <3>3. IdlePass.pc = "idle"
        BY DEF IdlePass
      <3> QED BY <3>1, <3>2, <3>3, PassSteps DEF PassChange, PassLoads, PassDecides, PassGoesOn,
              Working
    <2>2. job' # None => job # None \/ Working
      BY JobSteps DEF JobChange, Same, Working
    <2> QED BY <1>3, <2>1, <2>2
  <1>4. ASSUME job' # None \/ Working'
        PROVE  ~Gone(Newest') /\ Newest'.finalizer
    <2>1. CASE Branch(Cached) = "derive" /\ states' = states
      BY <2>1, DeriveFromLive DEF Newest
    <2>2. CASE job # None \/ Working
      <3>1. ~Gone(Newest) /\ Newest.finalizer
        BY <2>2 DEF IInv, FinalizerOK
      <3>2. CASE Newest' = Newest
        BY <3>1, <3>2
      <3>3. CASE Newest' = o /\ Newest' # Newest
        <4>1. Follows(Newest, o) /\ (Gone(o) => pass.pc = "release" /\ pass' = IdlePass)
          BY <1>1, <3>1, <3>3 DEF ObjectStep, WriteOK
        <4>2. ASSUME Gone(o) PROVE FALSE
          <5>1. pass.pc = "release" /\ pass' = IdlePass /\ job = None
            BY <4>1, <4>2 DEF IInv, PassOK, Cleaning
          <5>2. job' = None
            BY <5>1, JobSteps DEF JobChange, Same
          <5> QED BY <1>4, <5>1, <5>2 DEF Working, IdlePass
        <4> QED BY <3>1, <3>3, <4>1, <4>2 DEF Follows
      <3> QED BY <1>2, <3>2, <3>3
    <2> QED BY <1>3, <1>4, <2>1, <2>2
  <1>5. ASSUME PresentVersions' # {} \/ stray' # None \/ untracked' # None
        PROVE  Gone(Newest') \/ Newest'.finalizer
    <2>1. PresentVersions # {} \/ stray # None \/ job # None \/ untracked # None
      BY <1>5, ClusterSteps, UntrackedSteps DEF ClusterStep, UntrackedChange, Same
    <2>2. Gone(Newest) \/ Newest.finalizer
      BY <2>1 DEF IInv, FinalizerOK
    <2> QED BY <1>1, <1>2, <2>2 DEF ObjectStep, WriteOK, Follows
  <1> QED BY <1>4, <1>5 DEF FinalizerOK

\* The pass.
LEMMA PassKept ==
  ASSUME IInv, Next
  PROVE  PassOK'
  <1>1. PICK o \in Objects : ObjectStep(o)
    BY ObjectSteps
  <1>2. \A i \in 1..Len(states') :
          (\E k \in 1..Len(states) : states'[i] = states[k]) \/ states'[i] = o
    BY <1>1, LaterFacts DEF ObjectStep, IInv
  <1>3. PassChange
    BY PassSteps
  <1>4. CASE pass' = pass \/ PassDeletes
    <2>1. /\ pass'.app = pass.app /\ pass'.new = pass.new /\ pass'.seen = pass.seen
          /\ pass'.pc = pass.pc \/ (pass.pc = "cleanup" /\ pass'.pc = "release")
      BY <1>4 DEF PassDeletes, IInv, TypeOK, Passes
    <2>2. ASSUME Cleaning
          PROVE  /\ job' = None
                 /\ \A i \in 1..Len(states') : states'[i].deleting
      <3>1. job = None /\ pass.pc # "execute"
        BY <2>2 DEF Cleaning, IInv, PassOK
      <3>2. job' = None
        BY <3>1, JobSteps DEF JobChange, Same
      <3>3. \A k \in 1..Len(states) : states[k].deleting
        BY <2>2 DEF IInv, PassOK
      <3>4. Newest.deleting
        BY <3>3, NewestType DEF IInv, Newest
      <3>5. o.deleting
        BY <1>1, <3>4 DEF ObjectStep, WriteOK, Follows
      <3> QED BY <1>2, <3>2, <3>3, <3>5
    <2>3. Cleaning' => Cleaning
      BY <2>1 DEF Cleaning
    <2>4. Cleaning => ~Gone(pass'.seen)
      BY <2>1 DEF IInv, PassOK, Gone
    <2> QED BY <2>1, <2>2, <2>3, <2>4 DEF PassOK, Working, Cleaning, IInv
  <1>5. CASE pass' = IdlePass
    BY <1>5 DEF PassOK, Working, Cleaning, IdlePass
  <1>6. CASE PassLoads
    <2>1. ~Gone(Cached)
      BY <1>6, DeriveFromLive DEF PassLoads
    <2>2. Load(Cached) # None
      BY <2>1, LoadType, ZoneAssumption
    <2>3. pass'.pc = "derive" /\ pass'.app = Load(Cached) /\ pass'.new = None
      BY <1>6 DEF PassLoads, IdlePass
    <2> QED BY <2>2, <2>3 DEF PassOK, Working, Cleaning
  <1>7. CASE PassDecides
    <2>1. pass.app # None
      BY <1>7 DEF PassDecides, IInv, PassOK, Working
    <2>2. /\ pass'.pc = "stop" /\ pass'.app = pass.app
          /\ pass'.new # None => pass'.new.placements = pass.app.status.placements
      BY <1>7 DEF PassDecides, DerivedOK
    <2> QED BY <2>1, <2>2 DEF PassOK, Working, Cleaning
  <1>8. CASE PassGoesOn
    BY <1>8 DEF PassGoesOn, IInv, PassOK, Working, Cleaning
  <1>9. CASE PassCleans
    <2>1. /\ pass'.pc = "cleanup" /\ pass'.seen = Cached /\ pass'.new = None
          /\ job' = None /\ states' = states
      BY <1>9 DEF PassCleans, IdlePass
    <2>2. ~Gone(Cached) /\ Cached.deleting
      BY <1>9 DEF PassCleans, Branch
    <2>3. \A i \in 1..Len(states) : states[i].deleting
      <3>1. 1 \in 1..Len(states) /\ \A i \in 1..Len(states) : 1 <= i
        BY NewestType DEF IInv
      <3> QED BY <2>2, <3>1 DEF Cached, IInv, HistoryOK, Follows
    <2>4. ~Gone(pass'.seen)
      BY <2>1, <2>2 DEF Gone
    <2> QED BY <2>1, <2>3, <2>4 DEF PassOK, Working, Cleaning
  <1> QED BY <1>3, <1>4, <1>5, <1>6, <1>7, <1>8, <1>9 DEF PassChange

\* What is left of the resources.
LEMMA OrphansKept ==
  ASSUME IInv, Next
  PROVE  OrphansOK'
  <1>1. PICK o \in Objects : ObjectStep(o)
    BY ObjectSteps
  <1>2. Newest' \in {Newest, o}
    BY <1>1, LaterFacts DEF ObjectStep, IInv
  <1>3. ClusterStep
    BY ClusterSteps
  <1>4. /\ stray' # None => Happened("stray")'
        /\ untracked' # None \/ late' => Happened("race")'
    BY <1>3, UntrackedSteps DEF ClusterStep, UntrackedChange, IInv, OrphansOK, Happened
  <1>5. CASE Gone(Newest) \/ pass.pc = "release"
    <2>1. job = None
      BY <1>5 DEF IInv, FinalizerOK, PassOK, Cleaning
    <2>2. Explained
      BY <1>5 DEF IInv, OrphansOK
    <2>3. Explained'
      BY <1>3, <2>1, <2>2 DEF ClusterStep
    <2> QED BY <1>4, <2>3 DEF OrphansOK
  <1>6. CASE ~Gone(Newest) /\ pass.pc # "release"
    <2>1. ASSUME Gone(Newest)'
          PROVE  Explained'
      <3>1. ~Newest.finalizer
        BY <1>1, <1>2, <1>6, <2>1 DEF ObjectStep, WriteOK, Gone
      <3>2. PresentVersions = {} /\ stray = None /\ job = None /\ untracked = None
        BY <1>6, <3>1 DEF IInv, FinalizerOK
      <3>3. PresentVersions' = {}
        BY <1>3, <3>2 DEF ClusterStep
      <3> QED BY <3>3 DEF Explained
    <2>2. ASSUME pass'.pc = "release"
          PROVE  Explained'
      <3>1. PassDeletes
        <4>1. PassCleans => pass'.pc = "cleanup"
          BY DEF PassCleans, IdlePass
        <4>2. PassLoads => pass'.pc = "derive"
          BY DEF PassLoads, IdlePass
        <4>3. IdlePass.pc = "idle"
          BY DEF IdlePass
        <4> QED BY <1>6, <2>2, <4>1, <4>2, <4>3, PassSteps DEF PassChange, PassDecides, PassGoesOn
      <3> QED BY <3>1 DEF PassDeletes, Explained, PresentVersions
    <2> QED BY <1>4, <2>1, <2>2 DEF OrphansOK
  <1> QED BY <1>5, <1>6

\* A pass keeps the application and the status it derived, or it starts anew.
LEMMA PassHolds ==
  ASSUME IInv, Next
  PROVE  /\ pass'.app \in {None, pass.app} \/ PassLoads
         /\ PassLoads => pass'.app = Load(Cached) /\ pass'.new = None /\ pass'.job = None
         /\ pass'.new \in {None, pass.new} \/ PassDecides
         /\ pass'.job \in {None, pass.job} \/ PassDecides
  <1>1. PassChange
    BY PassSteps
  <1>2. CASE PassDeletes
    <2>1. pass'.app = pass.app /\ pass'.new = pass.new /\ pass'.job = pass.job
          /\ pass'.pc = "release"
      BY <1>2 DEF PassDeletes, IInv, TypeOK, Passes
    <2>2. PassLoads => pass'.pc = "derive"
      BY DEF PassLoads, IdlePass
    <2> QED BY <2>1, <2>2
  <1>3. CASE PassLoads
    BY <1>3 DEF PassLoads, IdlePass
  <1>4. CASE PassCleans \/ pass' = IdlePass
    <2>1. PassCleans => pass'.app = None /\ pass'.new = None /\ pass'.job = None
                        /\ pass'.pc = "cleanup"
      BY DEF PassCleans, IdlePass
    <2>2. /\ IdlePass.app = None /\ IdlePass.new = None /\ IdlePass.job = None
          /\ IdlePass.pc = "idle"
      BY DEF IdlePass
    <2>3. PassLoads => pass'.pc = "derive"
      BY DEF PassLoads, IdlePass
    <2> QED BY <1>4, <2>1, <2>2, <2>3
  <1>5. CASE pass' = pass \/ PassDecides \/ PassGoesOn
    <2>1. PassLoads => pass'.app = Load(Cached) /\ pass'.new = None /\ pass'.job = None
      BY DEF PassLoads, IdlePass
    <2> QED BY <1>5, <2>1 DEF PassDecides, PassGoesOn
  <1> QED BY <1>1, <1>2, <1>3, <1>4, <1>5 DEF PassChange

\* Chart versions are recorded where there are placements.
LEMMA ChartKept ==
  ASSUME IInv, Next
  PROVE  ChartOK'
  <1>1. PICK o \in Objects : ObjectStep(o)
    BY ObjectSteps
  <1>2. /\ \A i \in 1..Len(states') :
             (\E k \in 1..Len(states) : states'[i] = states[k]) \/ states'[i] = o
    BY <1>1, LaterFacts DEF ObjectStep, IInv
  <1>3. \A k \in 1..Len(states) : ~Gone(states[k]) => ChartPlaced(states[k].status)
    BY DEF IInv, ChartOK
  <1>4. ~Gone(o) => ChartPlaced(o.status)
    BY <1>1, <1>3, NewestType DEF ObjectStep, WriteOK, IInv, Newest
  <1>5. \A i \in 1..Len(states') : ~Gone(states'[i]) => ChartPlaced(states'[i].status)
    BY <1>2, <1>3, <1>4
  <1>6. pass'.app # None => ChartPlaced(pass'.app.status)
    <2>1. CASE PassLoads
      <3>1. ~Gone(Cached)
        BY <2>1, DeriveFromLive DEF PassLoads
      <3>2. ChartPlaced(Cached.status)
        BY <1>3, <3>1, NewestType DEF IInv, Cached
      <3>3. pass'.app = Load(Cached)
        BY <2>1, PassHolds
      <3> QED BY <3>1, <3>2, <3>3, LoadType
    <2>2. CASE pass'.app \in {None, pass.app}
      BY <2>2 DEF IInv, ChartOK
    <2> QED BY <2>1, <2>2, PassHolds
  <1>7. pass'.new # None => ChartPlaced(pass'.new)
    <2>1. CASE PassDecides
      <3>1. PICK result : DerivedOK(pass.app, result) /\ pass'.new \in {None, result.status}
        BY <2>1 DEF PassDecides
      <3>2. pass.app # None /\ pass.app \in Apps
        BY <2>1 DEF PassDecides, IInv, PassOK, Working, TypeOK, Passes
      <3>3. ChartPlaced(pass.app.status)
        BY <3>2 DEF IInv, ChartOK
      <3>4. IsPresent(pass.app) => ChartOf(pass.app.status) # None
        BY <3>2, VersionFacts
      <3>5. /\ result.status.placements = pass.app.status.placements
            /\ ChartOf(result.status) # None =>
                 \/ ChartOf(pass.app.status) # None
                 \/ PlacementsContainZone(pass.app.status, Self)
        BY <3>1, <3>4 DEF DerivedOK
      <3>6. ChartPlaced(result.status)
        BY <3>3, <3>5 DEF ChartPlaced, PlacementExists, PlacementsContainZone
      <3> QED BY <3>1, <3>6
    <2>2. CASE pass'.new \in {None, pass.new}
      BY <2>2 DEF IInv, ChartOK
    <2> QED BY <2>1, <2>2, PassHolds
  <1> QED BY <1>5, <1>6, <1>7 DEF ChartOK

\* With the first chart version alone, recorded where the application is placed, the
\* state machines do not ask for an undeployment.
LEMMA SteadyDecision ==
  ASSUME IInv, Undisturbed, PassDecides
  PROVE  /\ pass'.new # None => Steady(pass'.new)
         /\ pass'.job # "Undeployment"
  <1> DEFINE app == pass.app
             placed == PlacementsContainZone(app.status, Self)
  <1>1. PICK result : /\ DerivedOK(app, result)
                      /\ pass'.new \in {None, result.status}
                      /\ pass'.job = None \/ result.jobs = {pass'.job}
    BY DEF PassDecides
  <1>2. app # None /\ app \in Apps
    BY DEF PassDecides, IInv, PassOK, Working, TypeOK, Passes
  <1>3. Steady(app.status) /\ app.target = Charts[1] /\ app.present \subseteq {Charts[1]}
    BY <1>2 DEF IInv, SteadyOK, SteadyPass
  <1>4. IsPresent(app) => ChartOf(app.status) = Charts[1] /\ placed
    BY <1>2, <1>3, VersionFacts DEF Steady
  <1>5. Steady(result.status)
    <2>1. /\ result.status.placements = app.status.placements
          /\ \/ ChartOf(result.status) \in {None, ChartOf(app.status)}
             \/ ChartOf(result.status) = Charts[1] /\ placed
      BY <1>1, <1>3, <1>4 DEF DerivedOK
    <2>2. PlacementsContainZone(result.status, Self) = placed
      BY <2>1 DEF PlacementsContainZone, PlacementExists
    <2> QED BY <1>3, <2>1, <2>2 DEF Steady
  <1>6. ~(IsPresent(app) /\ (~placed \/ NonActiveVersionsPresent(app) \/ NewVersion(app) # None))
    <2>1. SUFFICES ASSUME IsPresent(app)
                   PROVE  placed /\ ~NonActiveVersionsPresent(app) /\ NewVersion(app) = None
      OBVIOUS
    <2>2. ActiveVersion(app) = Charts[1] /\ placed
      BY <1>2, <1>4, <2>1, VersionFacts
    <2> QED BY <1>3, <2>2 DEF NonActiveVersionsPresent, NewVersion
  <1>7. ASSUME pass'.job = "Undeployment"
        PROVE  FALSE
    <2>1. result.jobs = {"Undeployment"}
      BY <1>1, <1>7, StrategyAssumption DEF CondTypes
    <2>2. PICK local, global \in CondTypes \cup {None} :
            /\ result.jobs = {local, global} \ {None}
            /\ global # None => global = "Placement"
            /\ local # "Undeployment"
      BY <1>1, <1>6 DEF DerivedOK, NextJobs
    <2>3. "Undeployment" \in {local, global} /\ global # "Undeployment"
      BY <2>1, <2>2, StrategyAssumption DEF CondTypes
    <2> QED BY <2>2, <2>3
  <1> QED BY <1>1, <1>5, <1>7

\* Nobody asks, and the application stays.
LEMMA SteadyKept ==
  ASSUME IInv, Next
  PROVE  SteadyOK'
  <1> SUFFICES ASSUME Undisturbed'
               PROVE  SteadyStates' /\ SteadyPass' /\ SteadyCluster'
    BY DEF SteadyOK
  <1>1. PICK o \in Objects : ObjectStep(o)
    BY ObjectSteps
  <1>2. ClusterStep
    BY ClusterSteps
  <1>3. Undisturbed
    BY <1>2 DEF ClusterStep, Undisturbed, Happened
  <1>4. SteadyStates /\ SteadyPass /\ SteadyCluster
    BY <1>3 DEF IInv, SteadyOK
  <1> DEFINE n == Len(states)
             In(x) == PlacementsContainZone(x.status, Self)
  <1>5. n \in Nat /\ n \in 1..n /\ Newest = states[n] /\ \A k \in 1..n : 1 <= k /\ k <= n
    BY NewestType DEF IInv, Newest
  <1>6. /\ Newest' \in {Newest, o}
        /\ \A i \in 1..Len(states') :
             (\E k \in 1..n : states'[i] = states[k]) \/ states'[i] = o
        /\ \A i, j \in 1..Len(states') : i <= j =>
             \/ \E k, l \in 1..n :
                  k <= l /\ states'[i] = states[k] /\ states'[j] = states[l]
             \/ \E k \in 1..n : states'[i] = states[k] /\ states'[j] = o
             \/ states'[i] = o /\ states'[j] = o
    BY <1>1, LaterFacts DEF ObjectStep, IInv
  <1> HIDE DEF n
  <1>7. /\ \A k \in 1..n : ~states[k].deleting /\ Steady(states[k].status)
        /\ \A k, l \in 1..n : k <= l /\ In(states[k]) => In(states[l])
    BY <1>4 DEF SteadyStates, n
  <1>8. ~o.deleting /\ Steady(o.status) /\ (In(Newest) => In(o))
    BY <1>1, <1>5, <1>7 DEF ObjectStep, WriteOK
  <1> HIDE DEF In
  <1>9. SteadyStates'
    <2>1. \A i \in 1..Len(states') : ~states'[i].deleting /\ Steady(states'[i].status)
      BY <1>6, <1>7, <1>8
    <2>2. \A k \in 1..n : In(states[k]) => In(o)
      BY <1>5, <1>7, <1>8
    <2>3. \A i, j \in 1..Len(states') : i <= j /\ In(states'[i]) => In(states'[j])
      BY <1>6, <1>7, <2>2
    <2> QED BY <2>1, <2>3 DEF SteadyStates, In
  <1>10. In(Newest) => In(Newest')
    BY <1>6, <1>8
  <1>11. SteadyPass'
    <2>1. pass'.app # None =>
            /\ Steady(pass'.app.status) /\ pass'.app.target = Charts[1]
            /\ pass'.app.present \subseteq {Charts[1]}
            /\ PlacementsContainZone(pass'.app.status, Self)
                 => PlacementsContainZone(Newest'.status, Self)
      <3>1. CASE PassLoads
        <4>1. ~Gone(Cached) /\ Newest' = Newest
          BY <3>1, DeriveFromLive DEF PassLoads, Newest
        <4>2. /\ pass'.app = Load(Cached)
              /\ Load(Cached).status = Cached.status
              /\ Load(Cached).present = PresentVersions /\ Load(Cached).target = Charts[target]
          BY <3>1, <4>1, LoadType, PassHolds
        <4>3. Steady(Cached.status) /\ (In(Cached) => In(Newest))
          BY <1>5, <1>7 DEF Cached
        <4> QED BY <1>4, <4>1, <4>2, <4>3 DEF SteadyCluster, In
      <3>2. CASE pass'.app \in {None, pass.app}
        <4>1. pass.app # None =>
                /\ Steady(pass.app.status) /\ pass.app.target = Charts[1]
                /\ pass.app.present \subseteq {Charts[1]}
                /\ PlacementsContainZone(pass.app.status, Self) => In(Newest)
          BY <1>4 DEF SteadyPass, In
        <4> QED BY <1>10, <3>2, <4>1 DEF In
      <3> QED BY <3>1, <3>2, PassHolds
    <2>2. (pass'.new # None => Steady(pass'.new)) /\ pass'.job # "Undeployment"
      <3>1. CASE PassDecides
        BY <1>3, <3>1, SteadyDecision
      <3>2. CASE ~PassDecides
        <4>1. pass'.new \in {None, pass.new} /\ pass'.job \in {None, pass.job}
          BY <3>2, PassHolds
        <4>2. None # "Undeployment"
          BY StrategyAssumption DEF CondTypes
        <4> QED BY <1>4, <4>1, <4>2 DEF SteadyPass
      <3> QED BY <3>1, <3>2
    <2> QED BY <2>1, <2>2 DEF SteadyPass
  <1>12. SteadyCluster'
    <2>1. job' # None => /\ job'.type # "Undeployment"
                         /\ job'.type = "Deployment" => job'.chart = Charts[1]
      BY <1>4, JobSteps DEF JobChange, Same, SteadyCluster, SteadyPass
    <2>2. untracked' # None => /\ untracked'.type # "Undeployment"
                               /\ untracked'.type = "Deployment" => untracked'.chart = Charts[1]
      BY <1>4, UntrackedSteps DEF UntrackedChange, Same, SteadyCluster
    <2> QED BY <1>2, <2>1, <2>2 DEF ClusterStep, SteadyCluster
  <1> QED BY <1>9, <1>11, <1>12

-----------------------------------------------------------------------------
(***************************************************************************)
(* The theorems.                                                           *)
(***************************************************************************)

\* The invariant holds in the beginning: the object is new and nothing runs.
LEMMA InitIInv ==
  ASSUME Init
  PROVE  IInv
  <1>1. PICK st \in InitialStatuses :
          states = <<[status |-> st, finalizer |-> FALSE, deleting |-> FALSE]>>
    BY DEF Init
  <1> DEFINE o == [status |-> st, finalizer |-> FALSE, deleting |-> FALSE]
  <1>2. st \in Statuses /\ ~ZoneExists(st, Self) /\ st # None
    BY ZoneAssumption
  <1>3. o \in Objects /\ o.status = st /\ ~o.finalizer /\ ~o.deleting /\ ~Gone(o)
    BY <1>2 DEF Objects, Gone
  <1> HIDE DEF o
  <1>4. states \in Seq(Objects) /\ Len(states) = 1 /\ states[1] = o
    BY <1>1, <1>3 DEF o
  <1>5. Newest = o /\ \A i \in 1..Len(states) : states[i] = o
    BY <1>4 DEF Newest
  <1>6. ChartOf(st) = None
    BY <1>2 DEF ChartOf
  <1>7. /\ pass.pc = "idle" /\ pass.app = None /\ pass.new = None /\ pass.job = None
        /\ pass \in Passes
    BY DEF Init, IdlePass, Passes
  <1>8. PICK b \in Budgets : budget = [left |-> b, happened |-> {}]
    BY DEF Init
  <1>b. b \in [EventKinds -> Nat]
    BY ZoneAssumption
  <1>9. /\ budget \in [left : [EventKinds -> Nat], happened : SUBSET EventKinds]
        /\ budget.left["upgrade"] = b["upgrade"] /\ b["upgrade"] \in Nat
        /\ budget.happened = {}
    <2>1. "upgrade" \in EventKinds
      BY DEF EventKinds
    <2> QED BY <1>8, <1>b, <2>1
  <1>10. Len(Charts) \in Nat /\ Len(Charts) > b["upgrade"] /\ MaxLag \in Nat
    BY ZoneAssumption
  <1>11. target \in 1..Len(Charts) /\ BudgetOK
    BY <1>9, <1>10 DEF Init, BudgetOK
  <1>12. res \in [Versions -> Levels] /\ PresentVersions = {}
    BY DEF Init, Levels, PresentVersions
  <1>13. TypeOK
    <2>1. /\ queued \in BOOLEAN /\ panicked \in BOOLEAN /\ job \in Jobs \cup {None}
          /\ untracked \in Jobs \cup {None} /\ late \in BOOLEAN
          /\ stray \in Versions \cup {None} /\ going \in SUBSET Versions
          /\ health \in Healths
      BY DEF Init, Healths
    <2>2. Len(states) \in 1..(MaxLag + 1)
      BY <1>4, <1>10
    <2> QED BY <1>4, <1>7, <1>9, <1>11, <1>12, <2>1, <2>2 DEF TypeOK
  <1>14. PassOK /\ JobOK /\ NoDoubleSchedule /\ FinalizerOK
    BY <1>7, <1>12 DEF Init, PassOK, JobOK, NoDoubleSchedule, FinalizerOK, Working, Cleaning
  <1>15. HistoryOK
    BY <1>3, <1>5 DEF HistoryOK, Follows
  <1>16. OrphansOK
    BY <1>3, <1>5, <1>7 DEF Init, OrphansOK
  <1>17. ChartOK
    BY <1>3, <1>5, <1>6, <1>7 DEF ChartOK, ChartPlaced
  <1>18. SteadyOK
    <2>1. Steady(st)
      BY <1>6 DEF Steady
    <2>2. SteadyStates
      BY <1>3, <1>5, <2>1 DEF SteadyStates
    <2>3. SteadyPass
      BY <1>7, StrategyAssumption DEF SteadyPass, CondTypes
    <2>4. SteadyCluster
      BY <1>12 DEF Init, SteadyCluster
    <2> QED BY <2>2, <2>3, <2>4 DEF SteadyOK
  <1> QED BY <1>11, <1>13, <1>14, <1>15, <1>16, <1>17, <1>18 DEF IInv

\* Every step preserves it.
LEMMA NextIInv ==
  ASSUME IInv, [Next]_vars
  PROVE  IInv'
  <1>1. CASE Next
    <2>1. NoDoubleSchedule'
      BY <1>1, PassSteps DEF IInv, NoDoubleSchedule
    <2> QED BY <1>1, <2>1, TypeStep, HistoryStep, FinalizerKept, PassKept, OrphansKept,
            ChartKept, SteadyKept DEF IInv
  <1>2. CASE UNCHANGED vars
    BY <1>2 DEF vars, IInv, TypeOK, BudgetOK, JobOK, PassOK, HistoryOK, FinalizerOK,
       OrphansOK, Explained, ChartOK, SteadyOK, NoDoubleSchedule, Working, Cleaning, Newest,
       PresentVersions, Happened, Undisturbed, SteadyStates, SteadyPass, SteadyCluster
  <1> QED BY <1>1, <1>2

\* The inductive invariant of the controller.
THEOREM Invariance == Spec => []IInv
  <1>1. Init => IInv
    BY InitIInv
  <1>2. IInv /\ [Next]_vars => IInv'
    BY NextIInv
  <1> QED BY <1>1, <1>2, PTL DEF Spec

\* Every variable keeps its type; in particular the cache is never further behind than
\* MaxLag and the target never leaves the chart versions.
THEOREM TypeCorrect == Spec => []TypeOK
  <1>1. IInv => TypeOK
    BY DEF IInv
  <1> QED BY <1>1, Invariance, PTL

\* NextJobs.Add never panics: the local state machine asks for a job only in a zone where
\* the application is placed or present, and present means that a chart version was
\* recorded and so that there are placements, with which the global state machine asks
\* for none.
THEOREM NoPanic == Spec => []NoDoubleSchedule
  <1>1. IInv => NoDoubleSchedule
    BY DEF IInv
  <1> QED BY <1>1, Invariance, PTL

\* When the object is gone no job is registered, and one goes on elsewhere only if the
\* registry missed its cancellation or evicted it or if its sync was stopped half-way:
\* passes and jobs begin after the finalizer was set, and resourceCleanup, which alone
\* removes it, has stopped the job.
THEOREM JobsEndWithObject == Spec => []NoJobWithoutObject
  <1>1. IInv => NoJobWithoutObject
    BY DEF IInv, FinalizerOK, OrphansOK, NoJobWithoutObject
  <1> QED BY <1>1, Invariance, PTL

\* When the object is gone its resources are on their way out, unless a deletion failed,
\* a stopped sync went on, or a job that the registry lost did.
THEOREM NoOrphans == Spec => []OrphansExplained
  <1>1. IInv => OrphansExplained
    BY DEF IInv, OrphansOK, Explained, OrphansExplained
  <1> QED BY <1>1, Invariance, PTL

\* Without a move, an upgrade or a deletion nothing is ever undeployed, whatever restarts,
\* stale copies, failed writes, lost resources and failing health there are.
THEOREM UndeployOnRequest == Spec => []NoUnaskedUndeploy
  <1>1. IInv => NoUnaskedUndeploy
    BY DEF IInv, SteadyOK, SteadyCluster, Undisturbed, NoUnaskedUndeploy
  <1> QED BY <1>1, Invariance, PTL
=============================================================================
