------------------------------- MODULE MCZone -------------------------------
(* Small instances of the zone controller for TLC. *)
EXTENDS ZoneController

CONSTANTS peer, v1, v2

MCMsgs == Messages

\* The user has just created the object in this zone.
MCNew == {NewStatus}

\* The zone next door owns the object; its scheduler has placed it here.
MCPlacedHere ==
  {[NewStatus EXCEPT !.owner = peer, !.epoch = 1, !.state = "Placement",
                     !.placements = {Self}]}

MCPlaces == {{Self}, {peer}}

MCSick == [NewZone EXCEPT !.conds["Local"] = [word |-> "Degraded", msg |-> "state"]]

MCHealthy == [NewZone EXCEPT !.conds["Local"] = [word |-> "Healthy", msg |-> "state"]]

MCPeerSections == {MCSick, MCHealthy}

MCOneChart == <<v1>>

MCTwoCharts == <<v1, v2>>

\* The events of the environment in each run.
Nothing == [kind \in EventKinds |-> 0]

MCNothing == {Nothing}

\* A stopped sync goes on, a peer reports, or the registry misses a stop or evicts a job.
MCSafety ==
  {[Nothing EXCEPT !["unwritten"] = 1, !["crash"] = 1, !["stray"] = 1, !["delete"] = 1],
   [Nothing EXCEPT !["unwritten"] = 1, !["crash"] = 1, !["report"] = 1, !["delete"] = 1],
   [Nothing EXCEPT !["race"] = 1, !["delete"] = 1]}

\* Moves while jobs fail and the controller restarts, or the registry loses a job; an
\* upgrade while nothing fails.
MCRelocation ==
  {[Nothing EXCEPT !["fault"] = 1, !["move"] = 2, !["crash"] = 1],
   [Nothing EXCEPT !["fault"] = 2, !["move"] = 1, !["crash"] = 1],
   [Nothing EXCEPT !["move"] = 1, !["race"] = 1],
   [Nothing EXCEPT !["upgrade"] = 1, !["loss"] = 1, !["delete"] = 1]}

\* Failures, losses and changes of the health in turn, or a job that the registry loses.
MCHealing ==
  {[Nothing EXCEPT !["fault"] = 1, !["crash"] = 1, !["loss"] = 1, !["delete"] = 1],
   [Nothing EXCEPT !["fault"] = 1, !["sick"] = 1, !["delete"] = 1],
   [Nothing EXCEPT !["crash"] = 1, !["loss"] = 1, !["sick"] = 1],
   [Nothing EXCEPT !["sick"] = 1, !["race"] = 1],
   [Nothing EXCEPT !["delete"] = 1, !["race"] = 1]}

MCUpgradeCrash == {[Nothing EXCEPT !["upgrade"] = 1, !["crash"] = 1]}

MCWithdrawn == {[Nothing EXCEPT !["move"] = 2, !["report"] = 1]}
=============================================================================
