-------------------------- MODULE AppStatusProofs --------------------------
(***************************************************************************)
(* Facts about the operations on an application's status.                  *)
(***************************************************************************)
EXTENDS AppStatus, TLAPS

\* The version the own section has, 0 without a section.
OwnVersion(st) == IF st.zones[Self] = None THEN 0 ELSE st.zones[Self].version

\* GetOrCreateStatusFor gives a section, with the version the zone had.
LEMMA GetOrCreateType ==
  ASSUME NEW st \in Statuses, NEW z \in Zones
  PROVE  /\ GetOrCreateStatusFor(st, z) \in ZoneStatus
         /\ st.zones[z] # None => GetOrCreateStatusFor(st, z) = st.zones[z]
         /\ st.zones[z] = None => GetOrCreateStatusFor(st, z).version = 0
  BY DEF GetOrCreateStatusFor, ZoneExists, NewZone, NoConditions, Statuses, ZoneStatus

\* AddOrUpdate and Remove change conditions, never the version of a section.
LEMMA SectionType ==
  ASSUME NEW s \in ZoneStatus, NEW c \in CondTypes, NEW cond \in Conditions,
         NEW types \in SUBSET CondTypes
  PROVE  /\ AddOrUpdate(s, c, cond) \in ZoneStatus
         /\ AddOrUpdate(s, c, cond).version = s.version
         /\ Remove(s, types) \in ZoneStatus
         /\ Remove(s, types).version = s.version
  BY DEF AddOrUpdate, Remove, ZoneStatus

\* MergeZone takes chart and conditions from the pass, the version from the
\* section it merges into.
LEMMA MergeZoneType ==
  ASSUME NEW cur \in ZoneStatus, NEW new \in ZoneStatus, NEW later \in SUBSET CondTypes
  PROVE  /\ MergeZone(cur, new, later) \in ZoneStatus
         /\ MergeZone(cur, new, later).version = cur.version
  BY DEF MergeZone, MergeConditions, ZoneStatus

\* MergeOwnership leaves the sections alone.
LEMMA MergeOwnershipType ==
  ASSUME NEW cur \in Statuses, NEW new \in Statuses
  PROVE  /\ MergeOwnership(cur, new) \in Statuses
         /\ MergeOwnership(cur, new).zones = cur.zones
  <1> DEFINE p == IF cur.placements = None THEN new.placements ELSE cur.placements
             o == IF cur.owner = None THEN new.owner ELSE cur.owner
             e == IF new.epoch > cur.epoch THEN new.epoch ELSE cur.epoch
  <1>1. /\ p \in ((SUBSET Zones) \ {{}}) \cup {None} /\ o \in Zones \cup {None}
        /\ new.state \in GlobalStates \cup {None}
    BY DEF Statuses
  <1>2. e \in Nat
    BY DEF Statuses
  <1>3. MergeOwnership(cur, new) =
          [cur EXCEPT !.placements = p, !.state = new.state, !.owner = o, !.epoch = e]
    BY DEF MergeOwnership
  <1> HIDE DEF p, o, e
  <1>4. cur.zones \in [Zones -> ZoneStatus \cup {None}]
    BY DEF Statuses
  <1> QED BY <1>1, <1>2, <1>3, <1>4 DEF Statuses

\* An update function maps statuses to statuses, touches no section but the
\* own one, and never raises the version of the own section.
LEMMA EffectType ==
  ASSUME NEW r \in AllRequests, NEW st \in Statuses
  PROVE  /\ Effect(r, st).status \in Statuses
         /\ \A y \in Zones \ {Self} : Effect(r, st).status.zones[y] = st.zones[y]
         /\ Effect(r, st).status.zones[Self] # None
              => Effect(r, st).status.zones[Self].version = OwnVersion(st)
  <1> DEFINE new == Effect(r, st).status
             section == GetOrCreateStatusFor(st, Self)
             Goal == /\ new \in Statuses
                     /\ \A y \in Zones \ {Self} : new.zones[y] = st.zones[y]
                     /\ new.zones[Self] # None => new.zones[Self].version = OwnVersion(st)
  <1> SUFFICES Goal
    OBVIOUS
  <1>s. section \in ZoneStatus /\ section.version = OwnVersion(st)
    BY GetOrCreateType, AbsentAssumption DEF OwnVersion
  <1> HIDE DEF section, new
  <1>1. CASE r.kind = "condition"
    <2>1. r.type \in CondTypes /\ r.cond \in Conditions /\ r.remove \in SUBSET CondTypes
      BY <1>1 DEF AllRequests
    <2> DEFINE sec == Remove(AddOrUpdate(section, r.type, r.cond), r.remove)
    <2>2. sec \in ZoneStatus /\ sec.version = section.version
      BY <1>s, <2>1, SectionType
    <2>3. new = SetZone(st, Self, sec)
      BY <1>1 DEF Effect, UpdateCondition, section, new
    <2> HIDE DEF sec
    <2>4. /\ new \in Statuses /\ new.zones[Self] = sec
          /\ \A y \in Zones \ {Self} : new.zones[y] = st.zones[y]
      BY <2>2, <2>3, AbsentAssumption DEF SetZone, Statuses
    <2> QED BY <1>s, <2>2, <2>4
  <1>2. CASE r.kind = "placement"
    <2>1. r.cond \in Conditions /\ "Placement" \in CondTypes
      BY <1>2 DEF AllRequests, CondTypes
    <2> DEFINE sec == AddOrUpdate(section, "Placement", r.cond)
               placed == [st EXCEPT !.placements = {Self}]
    <2>2. sec \in ZoneStatus /\ sec.version = section.version
      BY <1>s, <2>1, SectionType
    <2>3. placed \in Statuses /\ placed.zones = st.zones
      <3>1. {Self} \in (SUBSET Zones) \ {{}}
        BY AbsentAssumption
      <3> QED BY <3>1 DEF Statuses
    <2>4. Effect(r, st) = PlaceLocally(st, Self, r.cond)
      BY <1>2 DEF Effect
    <2>5. new = SetZone(placed, Self, sec)
      BY <2>4 DEF PlaceLocally, section, new
    <2> HIDE DEF sec, placed
    <2>6. /\ new \in Statuses /\ new.zones[Self] = sec
          /\ \A y \in Zones \ {Self} : new.zones[y] = placed.zones[y]
      BY <2>2, <2>3, <2>5, AbsentAssumption DEF SetZone, Statuses
    <2> QED BY <1>s, <2>2, <2>3, <2>6
  <1>3. CASE r.kind = "initialize"
    <2>0. Effect(r, st) = InitializeState(st, Self)
      BY <1>3 DEF Effect
    <2>1. new = IF st.state # None THEN st
                ELSE [st EXCEPT !.owner = Self, !.epoch = 1, !.state = "New"]
      BY <2>0 DEF InitializeState, new
    <2>2. new \in Statuses /\ new.zones = st.zones
      BY <2>1, AbsentAssumption DEF Statuses, GlobalStates
    <2> QED BY <2>2 DEF OwnVersion
  <1>4. CASE r.kind = "merge"
    <2>1. r.new \in Statuses /\ r.later \in SUBSET CondTypes
      BY <1>4 DEF AllRequests
    <2> DEFINE owned == MergeOwnership(st, r.new)
               sec == MergeZone(section, r.new.zones[Self], r.later)
    <2>2. owned \in Statuses /\ owned.zones = st.zones
      BY <2>1, MergeOwnershipType
    <2>0. Effect(r, st) = MergeStatus(st, r.new, Self, r.later)
      BY <1>4 DEF Effect
    <2>3. new = IF ZoneExists(r.new, Self) THEN SetZone(owned, Self, sec)
                ELSE SetZone(owned, Self, None)
      BY <2>0 DEF MergeStatus, RemoveZone, SetZone, section, new
    <2>4. ZoneExists(r.new, Self) => sec \in ZoneStatus /\ sec.version = section.version
      BY <1>s, <2>1, MergeZoneType, AbsentAssumption DEF ZoneExists, Statuses
    <2> HIDE DEF owned, sec
    <2>5. CASE ZoneExists(r.new, Self)
      <3>1. /\ new \in Statuses /\ new.zones[Self] = sec
            /\ \A y \in Zones \ {Self} : new.zones[y] = owned.zones[y]
        BY <2>2, <2>3, <2>4, <2>5, AbsentAssumption DEF SetZone, Statuses
      <3> QED BY <1>s, <2>2, <2>4, <2>5, <3>1
    <2>6. CASE ~ZoneExists(r.new, Self)
      <3>1. /\ new \in Statuses /\ new.zones[Self] = None
            /\ \A y \in Zones \ {Self} : new.zones[y] = owned.zones[y]
        BY <2>2, <2>3, <2>6, AbsentAssumption DEF SetZone, Statuses
      <3> QED BY <2>2, <3>1
    <2> QED BY <2>5, <2>6
  <1> QED BY <1>1, <1>2, <1>3, <1>4 DEF AllRequests

\* The version given to the own section is above the resource version, and
\* exactly one above when the old version was not.
LEMMA IncrementType ==
  ASSUME NEW st \in Statuses, NEW rv \in Nat
  PROVE  LET inc == IncrementZoneVersion(st, rv, Self)
         IN  /\ inc \in Statuses
             /\ \A y \in Zones \ {Self} : inc.zones[y] = st.zones[y]
             /\ st.zones[Self] = None => inc = st
             /\ st.zones[Self] # None =>
                  /\ inc.zones[Self].version > rv
                  /\ inc = [st EXCEPT !.zones[Self].version = inc.zones[Self].version]
                  /\ st.zones[Self].version <= rv => inc.zones[Self].version = rv + 1
  <1> DEFINE inc == IncrementZoneVersion(st, rv, Self)
             v == IF st.zones[Self].version >= rv + 1 THEN st.zones[Self].version + 1
                  ELSE rv + 1
  <1>1. CASE st.zones[Self] = None
    BY <1>1 DEF IncrementZoneVersion, ZoneExists
  <1>2. CASE st.zones[Self] # None
    <2>1. st.zones[Self] \in ZoneStatus
      BY <1>2, AbsentAssumption DEF Statuses
    <2>2. v \in Nat /\ v > rv /\ (st.zones[Self].version <= rv => v = rv + 1)
      BY <2>1 DEF ZoneStatus
    <2>3. inc = [st EXCEPT !.zones[Self].version = v]
      BY <1>2 DEF IncrementZoneVersion, ZoneExists
    <2> HIDE DEF v, inc
    <2>4. [st.zones[Self] EXCEPT !.version = v] \in ZoneStatus
      BY <2>1, <2>2 DEF ZoneStatus
    <2>5. /\ inc \in Statuses /\ inc.zones[Self].version = v
          /\ \A y \in Zones \ {Self} : inc.zones[y] = st.zones[y]
      BY <2>1, <2>2, <2>3, <2>4, AbsentAssumption DEF Statuses, ZoneStatus
    <2> QED BY <1>2, <2>2, <2>3, <2>5 DEF inc
  <1> QED BY <1>1, <1>2
=============================================================================
