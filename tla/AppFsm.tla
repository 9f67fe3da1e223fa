------------------------------- MODULE AppFsm -------------------------------
(***************************************************************************)
(* The decision of a reconcile pass (internal/controller/global): from the *)
(* status it read, the resources in the cluster and the job running for    *)
(* the application, LocalFSM and GlobalFSM derive a new status and the job *)
(* to start.                                                               *)
(*                                                                         *)
(* What a pass looks at is a record app:                                   *)
(*   status    the status it read,                                         *)
(*   present   the chart versions with resources in the cluster,           *)
(*   deployed  those of which all resources are there,                     *)
(*   health    the aggregated health of the deployed resources,            *)
(*   target    the chart version the application should have.              *)
(* Job types have the names of the condition types they report.            *)
(***************************************************************************)
EXTENDS AppStatus, FiniteSets

CONSTANTS Strategy,    \* spec.placementStrategy: "Local" or "Global"
          Tolerance,   \* spec.recoverStrategy.tolerance
          MaxRetries   \* spec.recoverStrategy.maxRetries

ASSUME StrategyAssumption ==
  /\ Strategy \in {"Local", "Global"} /\ Tolerance \in Nat /\ MaxRetries \in Nat
  /\ "initial" \in Msgs /\ None \notin CondTypes

\* ConditionStatus.RetryAttempt: no job ever sets it.
RetryAttempt == 0

\* GetStatus of a job that has just been created.
InitialCondition(type) ==
  [msg  |-> "initial",
   word |-> CASE type = "Placement"    -> "InProgress"
              [] type = "Deployment"   -> "Pull"
              [] type = "Undeployment" -> "Undeploy"
              [] type = "Local"        -> "Progressing"]

-----------------------------------------------------------------------------
(***************************************************************************)
(* The application as LoadApplication finds it.                            *)
(***************************************************************************)

Apps == [status : Statuses, present : SUBSET Versions, deployed : SUBSET Versions,
         health : Words, target : Versions]

\* GetTargetVersion: the chart version recorded in the own section.
ActiveVersion(app) ==
  IF ZoneExists(app.status, Self) THEN app.status.zones[Self].chart ELSE None

\* Mutant: the target version always counts as new.
NewVersionAlways(app) == app.target

NewVersion(app) == IF ActiveVersion(app) = app.target THEN None ELSE app.target

\* deriveTargetVersion: what a deployment deploys.
DeriveTargetVersion(app) ==
  IF NewVersion(app) # None THEN NewVersion(app) ELSE ActiveVersion(app)

IsPresent(app) == ActiveVersion(app) \in app.present

IsDeployed(app) == ActiveVersion(app) \in app.deployed

NonActiveVersionsPresent(app) == app.present \ {ActiveVersion(app)} # {}

PlacementExists(st) == st.placements # None

\* Mutant: an application without placements counts as placed.
PlacedByDefault(st, z) == ~PlacementExists(st) \/ z \in st.placements

PlacementsContainZone(st, z) == PlacementExists(st) /\ z \in st.placements

-----------------------------------------------------------------------------
(***************************************************************************)
(* The local state machine.                                                *)
(***************************************************************************)

\* addOrUpdateCondition and updateLocalCondition: an existing condition of the
\* type is left as it is (the update goes to a copy).
AddIfAbsent(section, type, cond) ==
  IF section.conds[type] = None THEN AddOrUpdate(section, type, cond) ELSE section

\* Mutant: a failed attempt is always the last one.
FailedOnce(cond) == cond # None /\ cond.word = "Failure"

AttemptsExhausted(cond) ==
  cond # None /\ cond.word = "Failure" /\ RetryAttempt >= MaxRetries

\* localStateMachine on a NextStateResult: conditions are removed, the condition
\* of the new job is added, the new chart version is recorded.
Outcome(section, remove, job, chart) ==
  LET found == { c \in remove : section.conds[c] # None }
      kept  == Remove(section, found)
      added == IF job = None THEN kept
               ELSE AddIfAbsent(kept, job, InitialCondition(job))
  IN  [section |-> IF chart = None THEN added ELSE [added EXCEPT !.chart = chart],
       job     |-> job,
       updated |-> found # {} \/ job # None]

HandleDeploy(app, section, running) ==
  LET starts == /\ running # "Deployment"
                /\ ~AttemptsExhausted(section.conds["Deployment"])
  IN  IF starts
      THEN Outcome(section, {"Local", "Undeployment"}, "Deployment", NewVersion(app))
      ELSE Outcome(section, {"Local", "Undeployment"}, None, None)

HandleUndeploy(app, section, running) ==
  LET cond   == section.conds["Undeployment"]
      starts == running # "Undeployment" /\ IsPresent(app) /\ ~AttemptsExhausted(cond)
      isDone == cond # None /\ cond.word = "Done"
  IN  IF starts
      THEN Outcome(section, {"Local", "Deployment"}, "Undeployment", NewVersion(app))
      ELSE Outcome(section, {"Local", "Deployment"}
                              \cup (IF isDone THEN {"Undeployment"} ELSE {}), None, None)

\* Mutant: a zone that reports a Local condition needs no operation job.
OperationOnce(section, running) ==
  IF running # "Local" /\ section.conds["Local"] = None
  THEN Outcome(section, {"Undeployment"}, "Local", None)
  ELSE Outcome(section, {"Undeployment", "Deployment"}, None, None)

HandleOperation(section, running) ==
  IF running # "Local" THEN Outcome(section, {"Undeployment"}, "Local", None)
  ELSE Outcome(section, {"Undeployment", "Deployment"}, None, None)

\* LocalFSM.NextState
LocalNextState(app, st, running) ==
  LET section == GetOrCreateStatusFor(st, Self)
      placed  == PlacementsContainZone(st, Self)
      undeploy == \/ ~placed /\ IsPresent(app)
                  \/ NonActiveVersionsPresent(app)
                  \/ IsPresent(app) /\ NewVersion(app) # None
  IN  CASE undeploy                              -> HandleUndeploy(app, section, running)
        [] ~undeploy /\ placed /\ ~IsDeployed(app) -> HandleDeploy(app, section, running)
        [] ~undeploy /\ placed /\ IsDeployed(app)  -> HandleOperation(section, running)
        [] OTHER                                 -> Outcome(section, CondTypes, None, None)

-----------------------------------------------------------------------------
(***************************************************************************)
(* The global state machine, run by the zone that owns the application.    *)
(***************************************************************************)

\* isFailureCondition: more zones have failed than tolerated.
FailedZone(section) ==
  LET word(c) == IF section.conds[c] = None THEN None ELSE section.conds[c].word
  IN  \/ word("Local") \in {"Degraded", "Missing"}
      \/ word("Deployment") = "Failure"
      \/ word("Undeployment") = "Failure"

IsFailureCondition(st) ==
  Cardinality({ z \in Zones : ZoneExists(st, z) /\ FailedZone(st.zones[z]) }) > Tolerance

\* getGlobalState: a placement is settled when its zone reports a Local
\* condition, which hides its deployment conditions.
GetGlobalState(st) ==
  IF \A z \in st.placements : ZoneExists(st, z) /\ st.zones[z].conds["Local"] # None
  THEN "Operational" ELSE "Relocation"

\* handlePlacementState
HandlePlacement(st, running) ==
  LET cond   == GetOrCreateStatusFor(st, Self).conds["Placement"]
      starts == Strategy = "Local" /\ (cond = None \/ running # "Placement")
  IN  [job   |-> IF starts THEN "Placement" ELSE None,
       state |-> IF Strategy = "Local" /\ ~starts /\ cond.word = "Failure"
                 THEN "Failure" ELSE "Placement"]

\* GlobalFSM.NextState
GlobalNextState(st, running) ==
  IF ~PlacementExists(st) THEN HandlePlacement(st, running)
  ELSE [job   |-> None,
        state |-> IF IsFailureCondition(st) THEN "Failure" ELSE GetGlobalState(st)]

\* globalStateMachine
GlobalStateMachine(st, running) ==
  LET next  == GlobalNextState(st, running)
      added == IF next.job = None THEN st
               ELSE SetZone(st, Self, AddIfAbsent(GetOrCreateStatusFor(st, Self),
                                                  next.job, InitialCondition(next.job)))
  IN  [status  |-> [added EXCEPT !.state = next.state],
       job     |-> next.job,
       updated |-> next.job # None \/ next.state # st.state]

-----------------------------------------------------------------------------
(***************************************************************************)
(* updateState and DeriveNewStatus.                                        *)
(***************************************************************************)

\* NextJobs.Add, which panics if there are two.
NextJobs(local, global) == {local, global} \ {None}

UpdateState(app, st, running) ==
  LET runsLocal == \/ PlacementsContainZone(st, Self)
                   \/ IsPresent(app)
                   \/ ZoneExists(st, Self)
      skip    == [status |-> st, job |-> None, updated |-> FALSE]
      next    == LocalNextState(app, st, running)
      local   == IF runsLocal
                 THEN [status  |-> SetZone(st, Self, next.section), job |-> next.job,
                       updated |-> next.updated]
                 ELSE skip
      global  == IF st.owner = Self THEN GlobalStateMachine(local.status, running)
                 ELSE [skip EXCEPT !.status = local.status]
      section == global.status.zones[Self]
      empty   == section # None /\ EmptyConditions(section)
  IN  [status  |-> IF empty THEN RemoveZone(global.status, Self) ELSE global.status,
       jobs    |-> NextJobs(local.job, global.job),
       updated |-> local.updated \/ global.updated \/ empty]

\* LocalApplication.GetCondition
LocalCondition(app) == [msg |-> "initial", word |-> app.health]

\* running is the job registered for the application, with the condition it
\* reports, or None.
DeriveNewStatus(app, running) ==
  LET type    == IF running = None THEN None ELSE running.type
      owned   == IF app.status.state # None THEN app.status
                 ELSE [app.status EXCEPT !.owner = Self, !.epoch = 1, !.state = "New"]
      inspected ==
        IF ~IsDeployed(app) THEN owned
        ELSE SetZone(owned, Self, AddIfAbsent(GetOrCreateStatusFor(owned, Self),
                                              "Local", LocalCondition(app)))
      reported ==
        IF running = None THEN inspected
        ELSE SetZone(inspected, Self, AddIfAbsent(GetOrCreateStatusFor(inspected, Self),
                                                  type, running.cond))
      result  == UpdateState(app, reported, type)
  IN  [result EXCEPT !.updated = @ \/ IsDeployed(app) \/ running # None]

\* Reconcile: whether the pass concerns this zone at all.
ShouldHandle(app) ==
  \/ IsDeployed(app)
  \/ app.status.state = None
  \/ ZoneExists(app.status, Self)
  \/ app.status.owner = Self
  \/ PlacementsContainZone(app.status, Self)
=============================================================================
