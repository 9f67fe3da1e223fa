---------------------------- MODULE AppFsmProofs ----------------------------
(***************************************************************************)
(* What the state machines of a pass may do: the status they derive, the   *)
(* jobs they ask for, and the chart version they record.                   *)
(***************************************************************************)
EXTENDS AppFsm, AppStatusProofs, FiniteSetTheorems

\* The chart version recorded in the own section of a status.
ChartOf(st) == IF ZoneExists(st, Self) THEN st.zones[Self].chart ELSE None

\* The condition a running job reports, with its type.
Reports == [type : CondTypes, cond : Conditions]

\* AddIfAbsent and Remove change the conditions of a section and nothing else.
LEMMA ConditionsOnly ==
  ASSUME NEW s \in ZoneStatus, NEW c \in CondTypes, NEW cond \in Conditions,
         NEW types \in SUBSET CondTypes
  PROVE  /\ AddIfAbsent(s, c, cond) \in ZoneStatus
         /\ AddIfAbsent(s, c, cond).chart = s.chart
         /\ Remove(s, types) \in ZoneStatus
         /\ Remove(s, types).chart = s.chart
  <1>1. /\ AddOrUpdate(s, c, cond) \in ZoneStatus
        /\ AddOrUpdate(s, c, cond).chart = s.chart
    BY DEF AddOrUpdate, ZoneStatus
  <1>2. Remove(s, types) \in ZoneStatus /\ Remove(s, types).chart = s.chart
    BY DEF Remove, ZoneStatus
  <1> QED BY <1>1, <1>2 DEF AddIfAbsent

\* The section GetOrCreateStatusFor gives has the chart version of the status.
LEMMA OwnSectionFacts ==
  ASSUME NEW st \in Statuses
  PROVE  /\ GetOrCreateStatusFor(st, Self) \in ZoneStatus
         /\ GetOrCreateStatusFor(st, Self).chart = ChartOf(st)
         /\ ChartOf(st) \in Versions \cup {None}
  <1>1. GetOrCreateStatusFor(st, Self) \in ZoneStatus
    BY GetOrCreateType, AbsentAssumption
  <1>2. GetOrCreateStatusFor(st, Self).chart = ChartOf(st)
    BY DEF GetOrCreateStatusFor, ChartOf, NewZone
  <1> QED BY <1>1, <1>2 DEF ZoneStatus

\* Replacing or removing the own section.
LEMMA SetOwn ==
  ASSUME NEW st \in Statuses, NEW s \in ZoneStatus
  PROVE  /\ SetZone(st, Self, s) \in Statuses
         /\ SetZone(st, Self, s).placements = st.placements
         /\ SetZone(st, Self, s).owner = st.owner
         /\ SetZone(st, Self, s).zones[Self] = s
         /\ ChartOf(SetZone(st, Self, s)) = s.chart
         /\ RemoveZone(st, Self) \in Statuses
         /\ RemoveZone(st, Self).placements = st.placements
         /\ ChartOf(RemoveZone(st, Self)) = None
  <1>1. /\ SetZone(st, Self, s) \in Statuses
        /\ SetZone(st, Self, s).placements = st.placements
        /\ SetZone(st, Self, s).owner = st.owner
        /\ SetZone(st, Self, s).zones[Self] = s
    BY AbsentAssumption DEF SetZone, Statuses
  <1>2. s # None
    BY SectionAssumption
  <1>3. ChartOf(SetZone(st, Self, s)) = s.chart
    BY <1>1, <1>2 DEF ChartOf, ZoneExists
  <1>4. /\ RemoveZone(st, Self) \in Statuses
        /\ RemoveZone(st, Self).placements = st.placements
        /\ RemoveZone(st, Self).zones[Self] = None
    BY AbsentAssumption DEF RemoveZone, Statuses
  <1> QED BY <1>1, <1>3, <1>4 DEF ChartOf, ZoneExists

\* The condition of a new job.
LEMMA InitialConditionType ==
  ASSUME NEW type \in CondTypes
  PROVE  InitialCondition(type) \in Conditions
  BY StrategyAssumption DEF InitialCondition, Conditions, CondTypes, Words

\* localStateMachine: the section keeps its chart version or gets the new one, and the
\* job is the one asked for.
LEMMA OutcomeFacts ==
  ASSUME NEW s \in ZoneStatus, NEW remove \in SUBSET CondTypes,
         NEW job \in CondTypes \cup {None}, NEW chart \in Versions \cup {None}
  PROVE  LET out == Outcome(s, remove, job, chart)
         IN  /\ out.section \in ZoneStatus
             /\ out.section.chart = IF chart = None THEN s.chart ELSE chart
             /\ out.job = job
             /\ out.updated \in BOOLEAN
  <1> DEFINE found == { c \in remove : s.conds[c] # None }
             kept == Remove(s, found)
             added == IF job = None THEN kept ELSE AddIfAbsent(kept, job, InitialCondition(job))
             section == IF chart = None THEN added ELSE [added EXCEPT !.chart = chart]
  <1>0. PICK c0 \in CondTypes, cond0 \in Conditions : TRUE
    BY InitialConditionType DEF CondTypes
  <1>1. kept \in ZoneStatus /\ kept.chart = s.chart
    <2>1. found \in SUBSET CondTypes
      OBVIOUS
    <2> HIDE DEF found
    <2> QED BY <1>0, <2>1, ConditionsOnly
  <1> HIDE DEF kept
  <1>2. added \in ZoneStatus /\ added.chart = s.chart
    <2>1. CASE job = None
      BY <1>1, <2>1
    <2>2. CASE job # None
      BY <1>1, <2>2, ConditionsOnly, InitialConditionType
    <2> QED BY <2>1, <2>2
  <1> HIDE DEF added
  <1>3. section \in ZoneStatus /\ section.chart = IF chart = None THEN s.chart ELSE chart
    BY <1>2 DEF ZoneStatus
  <1>4. Outcome(s, remove, job, chart)
          = [section |-> section, job |-> job, updated |-> found # {} \/ job # None]
    BY DEF Outcome, section, added, kept
  <1> HIDE DEF section, found
  <1> QED BY <1>3, <1>4

\* NewVersion is a version or None, and the deployment is of the target version.
LEMMA VersionFacts ==
  ASSUME NEW app \in Apps
  PROVE  /\ ActiveVersion(app) = ChartOf(app.status)
         /\ ActiveVersion(app) \in Versions \cup {None}
         /\ NewVersion(app) \in Versions \cup {None}
         /\ NewVersion(app) # None => NewVersion(app) = app.target
         /\ DeriveTargetVersion(app) = app.target
         /\ IsPresent(app) => ActiveVersion(app) # None
  <1>1. app.status \in Statuses /\ app.target \in Versions /\ app.present \subseteq Versions
    BY DEF Apps
  <1>2. ActiveVersion(app) = ChartOf(app.status)
    BY DEF ActiveVersion, ChartOf
  <1>3. ActiveVersion(app) \in Versions \cup {None}
    BY <1>1, <1>2, OwnSectionFacts
  <1> QED BY <1>1, <1>2, <1>3, AbsentAssumption
          DEF NewVersion, DeriveTargetVersion, IsPresent

\* LocalFSM.NextState: an undeployment is asked for only if resources of the active
\* version are there and there is a reason for it; any other job only if the
\* application is placed here; and the chart version changes only in these cases.
LEMMA LocalFacts ==
  ASSUME NEW app \in Apps, NEW st \in Statuses, NEW running \in CondTypes \cup {None}
  PROVE  LET next == LocalNextState(app, st, running)
             placed == PlacementsContainZone(st, Self)
         IN  /\ next.section \in ZoneStatus
             /\ next.job \in CondTypes \cup {None}
             /\ next.updated \in BOOLEAN
             /\ \/ next.section.chart = ChartOf(st)
                \/ next.section.chart = app.target /\ (placed \/ IsPresent(app))
             /\ next.job # None /\ next.job # "Undeployment" => placed
             /\ next.job = "Undeployment" =>
                  /\ IsPresent(app)
                  /\ \/ ~placed \/ NonActiveVersionsPresent(app) \/ NewVersion(app) # None
  <1> DEFINE s == GetOrCreateStatusFor(st, Self)
             next == LocalNextState(app, st, running)
             placed == PlacementsContainZone(st, Self)
             undeploy == \/ ~placed /\ IsPresent(app)
                         \/ NonActiveVersionsPresent(app)
                         \/ IsPresent(app) /\ NewVersion(app) # None
             out(remove, job, chart) == Outcome(s, remove, job, chart)
  <1>1. s \in ZoneStatus /\ s.chart = ChartOf(st)
    BY OwnSectionFacts
  <1>2. /\ NewVersion(app) \in Versions \cup {None}
        /\ NewVersion(app) # None => NewVersion(app) = app.target
    BY VersionFacts
  <1>c. /\ {"Local", "Undeployment", "Deployment", "Placement"} = CondTypes
        /\ None \notin CondTypes
    BY StrategyAssumption DEF CondTypes
  <1> HIDE DEF s
  <1>3. CASE undeploy
    <2>1. next = HandleUndeploy(app, s, running)
      BY <1>3 DEF LocalNextState, s
    <2>2. \/ /\ IsPresent(app)
             /\ next = out({"Local", "Deployment"}, "Undeployment", NewVersion(app))
          \/ \E remove \in SUBSET CondTypes : next = out(remove, None, None)
      BY <2>1, <1>c DEF HandleUndeploy
    <2>3. CASE /\ IsPresent(app)
               /\ next = out({"Local", "Deployment"}, "Undeployment", NewVersion(app))
      BY <1>1, <1>2, <1>3, <1>c, <2>3, OutcomeFacts
    <2>4. CASE \E remove \in SUBSET CondTypes : next = out(remove, None, None)
      BY <1>1, <2>4, OutcomeFacts, <1>c
    <2> QED BY <2>2, <2>3, <2>4
  <1>4. CASE ~undeploy
    <2>1. \/ placed /\ next = out({"Local", "Undeployment"}, "Deployment", NewVersion(app))
          \/ placed /\ next = out({"Undeployment"}, "Local", None)
          \/ \E remove \in SUBSET CondTypes : next = out(remove, None, None)
      <3>1. CASE placed /\ ~IsDeployed(app)
        <4>1. next = HandleDeploy(app, s, running)
          BY <1>4, <3>1 DEF LocalNextState, s
        <4> QED BY <3>1, <4>1, <1>c DEF HandleDeploy
      <3>2. CASE placed /\ IsDeployed(app)
        <4>1. next = HandleOperation(s, running)
          BY <1>4, <3>2 DEF LocalNextState, s
        <4> QED BY <3>2, <4>1, <1>c DEF HandleOperation
      <3>3. CASE ~placed
        BY <1>4, <3>3 DEF LocalNextState, s
      <3> QED BY <3>1, <3>2, <3>3
    <2>2. CASE placed /\ next = out({"Local", "Undeployment"}, "Deployment", NewVersion(app))
      BY <1>1, <1>2, <1>c, <2>2, OutcomeFacts
    <2>3. CASE placed /\ next = out({"Undeployment"}, "Local", None)
      BY <1>1, <1>c, <2>3, OutcomeFacts
    <2>4. CASE \E remove \in SUBSET CondTypes : next = out(remove, None, None)
      BY <1>1, <2>4, OutcomeFacts, <1>c
    <2> QED BY <2>1, <2>2, <2>3, <2>4
  <1> QED BY <1>3, <1>4

\* globalStateMachine: a placement is asked for only while there is none, and only the
\* conditions of the own section and the state change.
LEMMA GlobalFacts ==
  ASSUME NEW st \in Statuses, NEW running \in CondTypes \cup {None}
  PROVE  LET global == GlobalStateMachine(st, running)
         IN  /\ global.status \in Statuses
             /\ global.status.placements = st.placements
             /\ ChartOf(global.status) = ChartOf(st)
             /\ global.job \in {"Placement", None}
             /\ global.job # None => ~PlacementExists(st)
             /\ global.updated \in BOOLEAN
  <1> DEFINE next == GlobalNextState(st, running)
             s == GetOrCreateStatusFor(st, Self)
             section == AddIfAbsent(s, next.job, InitialCondition(next.job))
             added == IF next.job = None THEN st ELSE SetZone(st, Self, section)
             new == [added EXCEPT !.state = next.state]
  <1>1. /\ next.job \in {"Placement", None}
        /\ next.job # None => ~PlacementExists(st)
        /\ next.state \in GlobalStates
    <2>1. CASE PlacementExists(st)
      BY <2>1 DEF GlobalNextState, GetGlobalState, GlobalStates
    <2>2. CASE ~PlacementExists(st)
      BY <2>2 DEF GlobalNextState, HandlePlacement, GlobalStates
    <2> QED BY <2>1, <2>2
  <1> HIDE DEF next
  <1>2. s \in ZoneStatus /\ s.chart = ChartOf(st)
    BY OwnSectionFacts
  <1> HIDE DEF s
  <1>3. /\ added \in Statuses /\ added.placements = st.placements
        /\ ChartOf(added) = ChartOf(st)
    <2>1. CASE next.job = None
      BY <2>1
    <2>2. CASE next.job # None
      <3>1. next.job \in CondTypes
        BY <1>1, <2>2 DEF CondTypes
      <3>2. section \in ZoneStatus /\ section.chart = s.chart
        BY <1>2, <3>1, ConditionsOnly, InitialConditionType
      <3> HIDE DEF section
      <3> QED BY <1>2, <2>2, <3>2, SetOwn
    <2> QED BY <2>1, <2>2
  <1> HIDE DEF added
  <1>4. new \in Statuses /\ new.placements = st.placements /\ new.zones = added.zones
    BY <1>1, <1>3 DEF Statuses
  <1>5. ChartOf(new) = ChartOf(added)
    BY <1>4 DEF ChartOf, ZoneExists
  <1>6. GlobalStateMachine(st, running)
          = [status |-> new, job |-> next.job,
             updated |-> next.job # None \/ next.state # st.state]
    BY DEF GlobalStateMachine, next, added, s
  <1> HIDE DEF new
  <1> QED BY <1>1, <1>3, <1>4, <1>5, <1>6

\* What the state machines may make of an application: the placements stay; a chart
\* version is recorded only where the application is placed or present; the jobs are
\* what one or the other asks for.
DerivedOK(app, result) ==
  LET placed == PlacementsContainZone(app.status, Self)
  IN  /\ result.status \in Statuses
      /\ result.status.placements = app.status.placements
      /\ \/ ChartOf(result.status) \in {None, ChartOf(app.status)}
         \/ ChartOf(result.status) = app.target /\ (placed \/ IsPresent(app))
      /\ result.updated \in BOOLEAN
      /\ \E local, global \in CondTypes \cup {None} :
           /\ result.jobs = NextJobs(local, global)
           /\ global # None => global = "Placement" /\ ~PlacementExists(app.status)
           /\ local # None /\ local # "Undeployment" => placed
           /\ local = "Undeployment" =>
                /\ IsPresent(app)
                /\ \/ ~placed \/ NonActiveVersionsPresent(app) \/ NewVersion(app) # None

\* updateState: the local state machine, then the global one, then an empty section is
\* dropped.
LEMMA UpdateStateFacts ==
  ASSUME NEW app \in Apps, NEW st \in Statuses, NEW running \in CondTypes \cup {None},
         st.placements = app.status.placements, ChartOf(st) = ChartOf(app.status)
  PROVE  DerivedOK(app, UpdateState(app, st, running))
  <1> DEFINE runsLocal == \/ PlacementsContainZone(st, Self) \/ IsPresent(app)
                          \/ ZoneExists(st, Self)
             placed == PlacementsContainZone(st, Self)
             skip == [status |-> st, job |-> None, updated |-> FALSE]
             next == LocalNextState(app, st, running)
             local == IF runsLocal
                      THEN [status |-> SetZone(st, Self, next.section), job |-> next.job,
                            updated |-> next.updated]
                      ELSE skip
             global == IF st.owner = Self THEN GlobalStateMachine(local.status, running)
                       ELSE [skip EXCEPT !.status = local.status]
             section == global.status.zones[Self]
             empty == section # None /\ EmptyConditions(section)
             new == IF empty THEN RemoveZone(global.status, Self) ELSE global.status
             result == UpdateState(app, st, running)
  <1>1. /\ next.section \in ZoneStatus
        /\ next.job \in CondTypes \cup {None}
        /\ next.updated \in BOOLEAN
        /\ \/ next.section.chart = ChartOf(st)
           \/ next.section.chart = app.target /\ (placed \/ IsPresent(app))
        /\ next.job # None /\ next.job # "Undeployment" => placed
        /\ next.job = "Undeployment" =>
             /\ IsPresent(app)
             /\ \/ ~placed \/ NonActiveVersionsPresent(app) \/ NewVersion(app) # None
    BY LocalFacts
  <1> HIDE DEF next
  <1>2. /\ local.status \in Statuses
        /\ local.status.placements = st.placements
        /\ local.job \in CondTypes \cup {None}
        /\ local.updated \in BOOLEAN
        /\ \/ ChartOf(local.status) = ChartOf(st)
           \/ ChartOf(local.status) = app.target /\ (placed \/ IsPresent(app))
        /\ local.job # None => local.job = next.job
    <2>1. CASE runsLocal
      <3>1. /\ SetZone(st, Self, next.section) \in Statuses
            /\ SetZone(st, Self, next.section).placements = st.placements
            /\ ChartOf(SetZone(st, Self, next.section)) = next.section.chart
        BY <1>1, SetOwn
      <3> QED BY <1>1, <2>1, <3>1
    <2>2. CASE ~runsLocal
      BY <2>2
    <2> QED BY <2>1, <2>2
  <1> HIDE DEF local
  <1>3. /\ global.status \in Statuses
        /\ global.status.placements = local.status.placements
        /\ ChartOf(global.status) = ChartOf(local.status)
        /\ global.job \in {"Placement", None}
        /\ global.job # None => ~PlacementExists(local.status)
        /\ global.updated \in BOOLEAN
    <2>1. CASE st.owner = Self
      <3> DEFINE machine == GlobalStateMachine(local.status, running)
      <3>1. /\ machine.status \in Statuses
            /\ machine.status.placements = local.status.placements
            /\ ChartOf(machine.status) = ChartOf(local.status)
            /\ machine.job \in {"Placement", None}
            /\ machine.job # None => ~PlacementExists(local.status)
            /\ machine.updated \in BOOLEAN
        BY <1>2, GlobalFacts
      <3> HIDE DEF machine
      <3>2. global = machine
        BY <2>1 DEF machine
      <3> QED BY <3>1, <3>2
    <2>2. CASE st.owner # Self
      <3>1. global = [status |-> local.status, job |-> None, updated |-> FALSE]
        BY <2>2
      <3> HIDE DEF global
      <3> QED BY <1>2, <3>1
    <2> QED BY <2>1, <2>2
  <1>4. result = [status |-> new, jobs |-> NextJobs(local.job, global.job),
                  updated |-> local.updated \/ global.updated \/ empty]
    BY DEF UpdateState, local, next
  <1> HIDE DEF global
  <1>5. /\ new \in Statuses /\ new.placements = st.placements
        /\ ChartOf(new) \in {None, ChartOf(global.status)}
    <2>1. PICK s \in ZoneStatus : TRUE
      BY <1>1
    <2>2. /\ RemoveZone(global.status, Self) \in Statuses
          /\ RemoveZone(global.status, Self).placements = global.status.placements
          /\ ChartOf(RemoveZone(global.status, Self)) = None
      BY <1>3, <2>1, SetOwn
    <2>3. CASE empty
      BY <1>2, <1>3, <2>2, <2>3
    <2>4. CASE ~empty
      BY <1>2, <1>3, <2>4
    <2> QED BY <2>3, <2>4
  <1> HIDE DEF new, empty, result
  <1>6. result.updated \in BOOLEAN
    BY <1>2, <1>3, <1>4
  <1>7. placed = PlacementsContainZone(app.status, Self)
    BY DEF PlacementsContainZone, PlacementExists
  <1>8. /\ global.job # None => global.job = "Placement" /\ ~PlacementExists(app.status)
        /\ global.job \in CondTypes \cup {None}
    BY <1>2, <1>3 DEF PlacementExists, CondTypes
  <1>9. \/ ChartOf(result.status) \in {None, ChartOf(app.status)}
        \/ ChartOf(result.status) = app.target /\ (placed \/ IsPresent(app))
    BY <1>2, <1>3, <1>4, <1>5
  <1> HIDE DEF placed
  <1>10. /\ result.jobs = NextJobs(local.job, global.job)
         /\ result.status \in Statuses
         /\ result.status.placements = app.status.placements
    BY <1>4, <1>5
  <1>11. /\ local.job \in CondTypes \cup {None}
         /\ local.job # None /\ local.job # "Undeployment" => placed
         /\ local.job = "Undeployment" =>
              /\ IsPresent(app)
              /\ \/ ~placed \/ NonActiveVersionsPresent(app) \/ NewVersion(app) # None
    BY <1>1, <1>2, StrategyAssumption DEF CondTypes
  <1>12. DerivedOK(app, result)
    BY <1>6, <1>7, <1>8, <1>9, <1>10, <1>11 DEF DerivedOK
  <1> QED BY <1>12 DEF result

\* DeriveNewStatus: before the state machines run, the pass takes ownership of a new
\* application and adds the conditions of its resources and of its job.
LEMMA DeriveFacts ==
  ASSUME NEW app \in Apps, NEW running \in Reports \cup {None}
  PROVE  DerivedOK(app, DeriveNewStatus(app, running))
  <1> DEFINE type == IF running = None THEN None ELSE running.type
             owned == IF app.status.state # None THEN app.status
                      ELSE [app.status EXCEPT !.owner = Self, !.epoch = 1, !.state = "New"]
             inspected ==
               IF ~IsDeployed(app) THEN owned
               ELSE SetZone(owned, Self, AddIfAbsent(GetOrCreateStatusFor(owned, Self),
                                                     "Local", LocalCondition(app)))
             reported ==
               IF running = None THEN inspected
               ELSE SetZone(inspected, Self,
                            AddIfAbsent(GetOrCreateStatusFor(inspected, Self),
                                        type, running.cond))
             result == UpdateState(app, reported, type)
             Same(st) == /\ st \in Statuses
                         /\ st.placements = app.status.placements
                         /\ ChartOf(st) = ChartOf(app.status)
  <1>1. Same(owned)
    <2>1. app.status \in Statuses
      BY DEF Apps
    <2>2. /\ owned \in Statuses /\ owned.placements = app.status.placements
          /\ owned.zones = app.status.zones
      BY <2>1, AbsentAssumption DEF Statuses, GlobalStates
    <2> HIDE DEF owned
    <2> QED BY <2>2 DEF ChartOf, ZoneExists
  <1> HIDE DEF owned
  <1>2. ASSUME NEW st, Same(st), NEW c \in CondTypes, NEW cond \in Conditions
        PROVE  Same(SetZone(st, Self, AddIfAbsent(GetOrCreateStatusFor(st, Self), c, cond)))
    <2> DEFINE s == GetOrCreateStatusFor(st, Self)
               added == AddIfAbsent(s, c, cond)
    <2>1. s \in ZoneStatus /\ s.chart = ChartOf(st)
      BY <1>2, OwnSectionFacts
    <2> HIDE DEF s
    <2>2. added \in ZoneStatus /\ added.chart = s.chart
      BY <2>1, ConditionsOnly
    <2> HIDE DEF added
    <2>3. Same(SetZone(st, Self, added))
      BY <1>2, <2>1, <2>2, SetOwn
    <2> QED BY <2>3 DEF added, s
  <1>3. Same(inspected)
    <2>1. LocalCondition(app) \in Conditions /\ "Local" \in CondTypes
      BY StrategyAssumption DEF LocalCondition, Conditions, Apps, CondTypes
    <2> HIDE DEF Same
    <2> QED BY <1>1, <1>2, <2>1
  <1> HIDE DEF inspected
  <1>4. Same(reported) /\ type \in CondTypes \cup {None}
    <2>1. running # None => running.type \in CondTypes /\ running.cond \in Conditions
      BY DEF Reports
    <2> HIDE DEF Same
    <2>2. CASE running = None
      BY <1>3, <2>2
    <2>3. CASE running # None
      BY <1>2, <1>3, <2>1, <2>3
    <2> QED BY <2>2, <2>3
  <1> HIDE DEF reported, type
  <1>5. DerivedOK(app, result)
    BY <1>4, UpdateStateFacts
  <1>6. DeriveNewStatus(app, running)
          = [result EXCEPT !.updated = @ \/ IsDeployed(app) \/ running # None]
    BY DEF DeriveNewStatus, reported, inspected, owned, type
  <1>7. result = [status |-> result.status, jobs |-> result.jobs, updated |-> result.updated]
    BY DEF UpdateState
  <1> HIDE DEF result
  <1>8. /\ DeriveNewStatus(app, running).status = result.status
        /\ DeriveNewStatus(app, running).jobs = result.jobs
        /\ DeriveNewStatus(app, running).updated \in BOOLEAN
    BY <1>5, <1>6, <1>7 DEF DerivedOK
  <1> QED BY <1>5, <1>8 DEF DerivedOK

\* NextJobs.Add: where the chart version is recorded only in a placed application, at
\* most one job is asked for.
LEMMA OneJob ==
  ASSUME NEW app \in Apps, NEW result, DerivedOK(app, result),
         ChartOf(app.status) # None => PlacementExists(app.status)
  PROVE  /\ result.jobs = {} \/ \E type \in CondTypes : result.jobs = {type}
         /\ Cardinality(result.jobs) <= 1
  <1>1. PICK local \in CondTypes \cup {None}, global \in CondTypes \cup {None} :
          /\ result.jobs = NextJobs(local, global)
          /\ global # None => global = "Placement" /\ ~PlacementExists(app.status)
          /\ local # None /\ local # "Undeployment"
               => PlacementsContainZone(app.status, Self)
          /\ local = "Undeployment" => IsPresent(app)
    BY DEF DerivedOK
  <1>2. local = None \/ PlacementExists(app.status)
    BY <1>1, VersionFacts DEF PlacementsContainZone
  <1>3. local = None \/ global = None
    BY <1>1, <1>2
  <1>4. result.jobs = {} \/ \E type \in CondTypes : result.jobs = {type}
    BY <1>1, <1>3 DEF NextJobs
  <1>5. Cardinality({}) = 0 /\ \A type : Cardinality({type}) = 1
    BY FS_EmptySet, FS_Singleton
  <1> QED BY <1>4, <1>5

\* What an update function does to the placements and the recorded chart version.
LEMMA EffectChart ==
  ASSUME NEW r \in AllRequests, NEW st \in Statuses
  PROVE  LET new == Effect(r, st).status
         IN  /\ r.kind # "merge" =>
                  /\ ChartOf(new) = ChartOf(st)
                  /\ new.placements \in {st.placements, {Self}}
             /\ r.kind = "merge" =>
                  /\ ChartOf(new) = ChartOf(r.new)
                  /\ new.placements = IF st.placements = None THEN r.new.placements
                                      ELSE st.placements
  <1> DEFINE new == Effect(r, st).status
             s == GetOrCreateStatusFor(st, Self)
  <1>s. s \in ZoneStatus /\ s.chart = ChartOf(st)
    BY OwnSectionFacts
  <1> HIDE DEF s
  <1>1. CASE r.kind = "condition"
    <2>1. r.type \in CondTypes /\ r.cond \in Conditions /\ r.remove \in SUBSET CondTypes
      BY <1>1 DEF AllRequests
    <2> DEFINE upd == AddOrUpdate(s, r.type, r.cond)
               sec == Remove(upd, r.remove)
    <2>2. upd \in ZoneStatus /\ upd.chart = s.chart
      BY <1>s, <2>1 DEF AddOrUpdate, ZoneStatus
    <2> HIDE DEF upd
    <2>3. sec \in ZoneStatus /\ sec.chart = s.chart
      BY <2>1, <2>2, ConditionsOnly
    <2>4. new = SetZone(st, Self, sec)
      BY <1>1 DEF Effect, UpdateCondition, s, upd
    <2> HIDE DEF sec, new
    <2>5. ChartOf(new) = ChartOf(st) /\ new.placements = st.placements
      BY <1>s, <2>3, <2>4, SetOwn
    <2> QED BY <1>1, <2>5 DEF new
  <1>2. CASE r.kind = "placement"
    <2>1. r.cond \in Conditions /\ "Placement" \in CondTypes
      BY <1>2 DEF AllRequests, CondTypes
    <2> DEFINE sec == AddOrUpdate(s, "Placement", r.cond)
               placed == [st EXCEPT !.placements = {Self}]
    <2>2. sec \in ZoneStatus /\ sec.chart = s.chart
      BY <1>s, <2>1 DEF AddOrUpdate, ZoneStatus
    <2>3. placed \in Statuses /\ placed.placements = {Self}
      <3>1. {Self} \in (SUBSET Zones) \ {{}}
        BY AbsentAssumption
      <3> QED BY <3>1 DEF Statuses
    <2>4. Effect(r, st) = PlaceLocally(st, Self, r.cond)
      BY <1>2 DEF Effect
    <2>5. new = SetZone(placed, Self, sec)
      BY <2>4 DEF PlaceLocally, s, new
    <2> HIDE DEF sec, placed, new
    <2>6. ChartOf(new) = ChartOf(st) /\ new.placements = {Self}
      BY <1>s, <2>2, <2>3, <2>5, SetOwn
    <2> QED BY <1>2, <2>6 DEF new
  <1>3. CASE r.kind = "initialize"
    <2>0. Effect(r, st) = InitializeState(st, Self)
      BY <1>3 DEF Effect
    <2>1. new = IF st.state # None THEN st
                ELSE [st EXCEPT !.owner = Self, !.epoch = 1, !.state = "New"]
      BY <2>0 DEF InitializeState, new
    <2>2. new.placements = st.placements /\ new.zones = st.zones
      BY <2>1, AbsentAssumption DEF Statuses, GlobalStates
    <2> HIDE DEF new
    <2> QED BY <1>3, <2>2 DEF ChartOf, ZoneExists, new
  <1>4. CASE r.kind = "merge"
    <2>1. r.new \in Statuses /\ r.later \in SUBSET CondTypes
      BY <1>4 DEF AllRequests
    <2> DEFINE owned == MergeOwnership(st, r.new)
               sec == MergeZone(s, r.new.zones[Self], r.later)
    <2>2. /\ owned \in Statuses
          /\ owned.placements = IF st.placements = None THEN r.new.placements
                                ELSE st.placements
      <3>1. owned \in Statuses
        BY <2>1, MergeOwnershipType
      <3> QED BY <2>1, <3>1 DEF MergeOwnership, Statuses
    <2>3. Effect(r, st) = MergeStatus(st, r.new, Self, r.later)
      BY <1>4 DEF Effect
    <2>4. new = IF ZoneExists(r.new, Self) THEN SetZone(owned, Self, sec)
                ELSE RemoveZone(owned, Self)
      BY <2>3 DEF MergeStatus, s, new
    <2>5. ZoneExists(r.new, Self) => sec \in ZoneStatus /\ sec.chart = ChartOf(r.new)
      <3> SUFFICES ASSUME ZoneExists(r.new, Self)
                   PROVE  sec \in ZoneStatus /\ sec.chart = r.new.zones[Self].chart
        BY DEF ChartOf
      <3>1. r.new.zones[Self] \in ZoneStatus
        BY <2>1, AbsentAssumption DEF ZoneExists, Statuses
      <3>2. sec \in ZoneStatus
        BY <1>s, <2>1, <3>1, MergeZoneType
      <3> QED BY <1>s, <3>1, <3>2 DEF MergeZone, ZoneStatus
    <2> HIDE DEF owned, sec, new
    <2>6. CASE ZoneExists(r.new, Self)
      <3>1. /\ ChartOf(new) = ChartOf(r.new)
            /\ new.placements = owned.placements
        BY <2>2, <2>4, <2>5, <2>6, SetOwn
      <3> QED BY <1>4, <2>2, <3>1 DEF new
    <2>7. CASE ~ZoneExists(r.new, Self)
      <3>1. ChartOf(r.new) = None
        BY <2>7 DEF ChartOf
      <3>2. ChartOf(new) = None /\ new.placements = owned.placements
        BY <1>s, <2>2, <2>4, <2>7, SetOwn
      <3> QED BY <1>4, <2>2, <3>1, <3>2 DEF new
    <2> QED BY <2>6, <2>7
  <1> QED BY <1>1, <1>2, <1>3, <1>4 DEF AllRequests
=============================================================================
