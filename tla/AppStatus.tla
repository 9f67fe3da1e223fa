----------------------------- MODULE AppStatus -----------------------------
(***************************************************************************)
(* The status of an AnyApplication (api/v1/anyapplication_types.go), the   *)
(* operations on it, and the update functions the controller and its jobs  *)
(* hand to the status updater.                                             *)
(*                                                                         *)
(* A status has a section per zone.  A section has at most one condition   *)
(* of a type, since every writer of a section writes conditions of its own *)
(* zone and looks for an existing one of the type first; conditions are a  *)
(* function from the type, with None for an absent one, and a condition is *)
(* its status word and its message (reason and text).                      *)
(***************************************************************************)
EXTENDS Naturals

CONSTANTS Zones,     \* zone ids
          Self,      \* the zone of this controller
          Versions,  \* chart versions
          Msgs,      \* messages of conditions
          None       \* absent: owner, placements, zone section, condition

ASSUME AbsentAssumption ==
  /\ Self \in Zones
  /\ None \notin Zones /\ None \notin Versions

CondTypes == {"Placement", "Deployment", "Undeployment", "Local"}

Words == {"InProgress", "Done", "Failure", "Pull", "Undeploy",
          "Healthy", "Suspended", "Progressing", "Missing", "Degraded", "Unknown"}

GlobalStates == {"New", "Placement", "Operational", "Relocation", "Failure"}

Conditions == [word : Words, msg : Msgs]

ZoneStatus == [version : Nat, chart : Versions \cup {None},
               conds : [CondTypes -> Conditions \cup {None}]]

ASSUME SectionAssumption == None \notin ZoneStatus

\* placements = None stands for the nil slice, which is also what an empty one
\* becomes when the object is stored (omitempty).
Statuses ==
  [owner : Zones \cup {None}, epoch : Nat, state : GlobalStates \cup {None},
   placements : ((SUBSET Zones) \ {{}}) \cup {None},
   zones : [Zones -> ZoneStatus \cup {None}]]

NoConditions == [c \in CondTypes |-> None]

NewZone == [version |-> 0, chart |-> None, conds |-> NoConditions]

\* The status of an object the user has just created.
NewStatus == [owner |-> None, epoch |-> 0, state |-> None, placements |-> None,
              zones |-> [z \in Zones |-> None]]

-----------------------------------------------------------------------------
ZoneExists(st, z) == st.zones[z] # None

GetOrCreateStatusFor(st, z) == IF ZoneExists(st, z) THEN st.zones[z] ELSE NewZone

SetZone(st, z, section) == [st EXCEPT !.zones[z] = section]

RemoveZone(st, z) == [st EXCEPT !.zones[z] = None]

EmptyConditions(section) == section.conds = NoConditions

\* AddOrUpdate of a condition, then Remove of some types.
AddOrUpdate(section, type, cond) == [section EXCEPT !.conds[type] = cond]

Remove(section, types) ==
  [section EXCEPT !.conds = [c \in CondTypes |->
                               IF c \in types THEN None ELSE section.conds[c]]]

\* Mutant: the resource version is left out.
IncrementOnly(st, rv, z) ==
  IF ~ZoneExists(st, z) THEN st ELSE [st EXCEPT !.zones[z].version = @ + 1]

\* The own section gets a version above the object's resource version and
\* above its previous one.
IncrementZoneVersion(st, rv, z) ==
  IF ~ZoneExists(st, z) THEN st
  ELSE LET zv == st.zones[z].version
       IN  [st EXCEPT !.zones[z].version = IF zv >= rv + 1 THEN zv + 1 ELSE rv + 1]

-----------------------------------------------------------------------------
(***************************************************************************)
(* Update functions: each gives the new status and whether it counts as an *)
(* update (otherwise nothing is written).                                  *)
(***************************************************************************)

\* StatusUpdater.UpdateCondition, used by the deploy, undeploy and operation
\* jobs: set one condition, drop the types it supersedes.
UpdateCondition(st, z, type, cond, remove) ==
  LET section == Remove(AddOrUpdate(GetOrCreateStatusFor(st, z), type, cond), remove)
      new     == SetZone(st, z, section)
  IN  [status |-> new, updated |-> new # st]

\* LocalPlacementJob.Run: the application is placed in this zone.
PlaceLocally(st, z, cond) ==
  [status  |-> SetZone([st EXCEPT !.placements = {z}], z,
                       AddOrUpdate(GetOrCreateStatusFor(st, z), "Placement", cond)),
   updated |-> TRUE]

\* The closure of InitializeState: the first controller to see it owns it.
InitializeState(st, z) ==
  [status  |-> IF st.state # None THEN st
               ELSE [st EXCEPT !.owner = z, !.epoch = 1, !.state = "New"],
   updated |-> st.state = None]

\* mergeStatus, the own zone section.  An existing condition gives way to a new
\* one only if its word differs and it is older; `later' holds the types for
\* which the new condition has the later timestamp.  No condition is removed.
MergeConditions(cur, new, later) ==
  [c \in CondTypes |->
     IF \/ cur[c] = None
        \/ c \in later /\ new[c] # None /\ new[c].word # cur[c].word
     THEN new[c] ELSE cur[c]]

MergeZone(cur, new, later) ==
  [cur EXCEPT !.chart = new.chart,
              !.conds = MergeConditions(cur.conds, new.conds, later)]

MergeOwnership(cur, new) ==
  [cur EXCEPT !.placements = IF cur.placements = None THEN new.placements
                             ELSE cur.placements,
              !.state = new.state,
              !.owner = IF cur.owner = None THEN new.owner ELSE cur.owner,
              !.epoch = IF new.epoch > cur.epoch THEN new.epoch ELSE cur.epoch]

\* mergeStatus: what a reconcile pass derived is merged into the status read
\* for writing.  Dropping the own section does not count as an update.
MergeStatus(cur, new, z, later) ==
  LET owned   == MergeOwnership(cur, new)
      section == MergeZone(GetOrCreateStatusFor(cur, z), new.zones[z], later)
  IN  IF ZoneExists(new, z)
      THEN [status  |-> SetZone(owned, z, section),
            updated |-> owned # cur \/ section # GetOrCreateStatusFor(cur, z)]
      ELSE [status |-> RemoveZone(owned, z), updated |-> owned # cur]

\* The update functions by name: what a request makes of a status.
Effect(r, st) ==
  CASE r.kind = "condition"  -> UpdateCondition(st, Self, r.type, r.cond, r.remove)
    [] r.kind = "placement"  -> PlaceLocally(st, Self, r.cond)
    [] r.kind = "initialize" -> InitializeState(st, Self)
    [] r.kind = "merge"      -> MergeStatus(st, r.new, Self, r.later)

AllRequests ==
  [kind : {"condition"}, type : CondTypes, cond : Conditions, remove : SUBSET CondTypes]
    \cup [kind : {"placement"}, cond : Conditions]
    \cup [kind : {"initialize"}]
    \cup [kind : {"merge"}, new : Statuses, later : SUBSET CondTypes]
=============================================================================
