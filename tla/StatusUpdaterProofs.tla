------------------------ MODULE StatusUpdaterProofs ------------------------
(***************************************************************************)
(* The status updater, for any number of jobs, any requests and any bound  *)
(* on retries: zone versions are never reused, a cancelled job never       *)
(* overwrites its successor, and the read-modify-write loop implements an  *)
(* atomic update.                                                          *)
(***************************************************************************)
EXTENDS StatusUpdater, AppStatusProofs

\* A call under way has a request, and its copy is a state of the object.
CallsOK ==
  \A t \in Threads :
    /\ thread[t].pc = "idle" => thread[t].req = None
    /\ thread[t].pc # "idle" => thread[t].req \in Requests /\ thread[t].tries > 0
    /\ thread[t].pc \in {"check", "write"} =>
         thread[t].snap \in 1..Len(log) /\ log[thread[t].snap].status # None

\* No section of this zone has a version above the object's resource version,
\* which is what makes the next version new.
VersionsOK ==
  /\ \A i \in 1..Len(log) : OwnSection(i) # None => OwnSection(i).version <= highest
  /\ highest <= Newest.rv

\* A call that is about to write was not cancelled when it took its copy.
CancelOK ==
  \A t \in Threads :
    /\ cancelAt[t] <= Len(log)
    /\ cancelled[t] /\ thread[t].pc = "write" => thread[t].snap <= cancelAt[t]

IInv == TypeOK /\ CallsOK /\ VersionsOK /\ CancelOK /\ ZoneVersionsFresh

\* What Append does to the states of the object.
LEMMA AppendLog ==
  ASSUME NEW s \in Seq(Objects), NEW o \in Objects
  PROVE  /\ Append(s, o) \in Seq(Objects)
         /\ Len(Append(s, o)) = Len(s) + 1
         /\ \A i \in 1..Len(s) : Append(s, o)[i] = s[i]
         /\ Append(s, o)[Len(s) + 1] = o
  OBVIOUS

\* The initial state.
LEMMA InitIInv == Init => IInv
  <1> SUFFICES ASSUME Init PROVE IInv
    OBVIOUS
  <1> USE AbsentAssumption, BoundsAssumption DEF Init
  <1>1. NewStatus \in Statuses /\ NewStatus.zones[Self] = None
    BY DEF NewStatus, Statuses
  <1>2. [rv |-> 1, status |-> NewStatus] \in Objects
    BY <1>1 DEF Objects
  <1>3. log \in Seq(Objects) /\ Len(log) = 1 /\ log[1].status = NewStatus /\ log[1].rv = 1
    BY <1>2
  <1>4. Idle \in Calls
    BY DEF Idle, Calls
  <1>5. TypeOK
    BY <1>3, <1>4 DEF TypeOK
  <1>6. CallsOK /\ CancelOK
    BY <1>3 DEF CallsOK, CancelOK, Idle
  <1>7. VersionsOK /\ ZoneVersionsFresh
    BY <1>1, <1>3 DEF VersionsOK, ZoneVersionsFresh, OwnSection, Newest
  <1> QED BY <1>5, <1>6, <1>7 DEF IInv

\* The round of a call that writes nothing, and the watch.
LEMMA QuietIInv ==
  ASSUME IInv,
         \/ \E t \in Threads : Get(t) \/ Check(t) \/ Conflict(t) \/ Fail(t)
         \/ \E t \in Threads, r \in Requests : Begin(t, r)
         \/ \E t \in Threads : Cancel(t)
         \/ CacheCatchUp
  PROVE  IInv'
  <1> USE DEF IInv
  <1>1. ASSUME NEW t \in Threads, Get(t) \/ Check(t) \/ Conflict(t) \/ Fail(t)
        PROVE  IInv'
    <2>1. UNCHANGED <<log, cache, cancelled, cancelAt, highest>>
      BY <1>1 DEF Get, Check, Conflict, Fail
    <2> DEFINE old == thread[t]
               new == thread'[t]
    <2>2. old \in Calls /\ Idle \in Calls
      BY BoundsAssumption DEF TypeOK, Calls, Idle
    <2>3. /\ thread' = [thread EXCEPT ![t] = new]
          /\ \/ new = Idle
             \/ /\ new = [old EXCEPT !.pc = "check", !.snap = cache]
                /\ old.pc = "get" /\ log[cache].status # None
             \/ /\ new = [old EXCEPT !.pc = "write"]
                /\ old.pc = "check" /\ ~cancelled[t]
             \/ /\ new = [old EXCEPT !.pc = "get", !.tries = old.tries - 1]
                /\ old.pc = "write" /\ old.tries # 1
      <3>1. CASE Get(t) BY <3>1 DEF Get, TypeOK
      <3>2. CASE Check(t) BY <3>2 DEF Check, TypeOK
      <3>3. CASE Conflict(t) BY <3>3 DEF Conflict, TypeOK
      <3>4. CASE Fail(t) BY <3>4 DEF Fail, TypeOK
      <3> QED BY <1>1, <3>1, <3>2, <3>3, <3>4
    <2>4. /\ new \in Calls
          /\ new.pc = "idle" => new.req = None
          /\ new.pc # "idle" => new.req = old.req /\ old.pc # "idle" /\ new.tries > 0
          /\ new.pc = "check" => new.snap = cache /\ log[cache].status # None
          /\ new.pc = "write" => new.snap = old.snap /\ old.pc = "check" /\ ~cancelled[t]
      <3>1. CASE new = Idle BY <2>2, <3>1 DEF Idle
      <3>2. CASE new = [old EXCEPT !.pc = "check", !.snap = cache] /\ old.pc = "get"
                 /\ log[cache].status # None
        <4>1. cache \in Nat
          BY DEF TypeOK
        <4>2. old.tries > 0
          BY <3>2 DEF CallsOK
        <4> QED BY <2>2, <3>2, <4>1, <4>2 DEF Calls
      <3>3. CASE new = [old EXCEPT !.pc = "write"] /\ old.pc = "check" /\ ~cancelled[t]
        BY <2>2, <3>3 DEF Calls, CallsOK
      <3>4. CASE new = [old EXCEPT !.pc = "get", !.tries = old.tries - 1]
                 /\ old.pc = "write" /\ old.tries # 1
        <4>1. old.tries \in 0..MaxTries /\ old.tries > 0
          BY <2>2, <3>4 DEF Calls, CallsOK
        <4>2. old.tries - 1 \in 0..MaxTries /\ old.tries - 1 > 0
          BY <3>4, <4>1, BoundsAssumption
        <4> QED BY <2>2, <3>4, <4>2 DEF Calls
      <3> QED BY <2>3, <3>1, <3>2, <3>3, <3>4
    <2> HIDE DEF new
    <2>5. TypeOK'
      BY <2>1, <2>3, <2>4 DEF TypeOK
    <2>6. \A u \in Threads : thread'[u] = IF u = t THEN new ELSE thread[u]
      BY <2>3 DEF TypeOK
    <2>7. CallsOK'
      BY <2>1, <2>4, <2>6 DEF TypeOK, CallsOK
    <2>8. CancelOK'
      BY <2>1, <2>4, <2>6 DEF TypeOK, CancelOK
    <2>9. VersionsOK' /\ ZoneVersionsFresh'
      BY <2>1 DEF VersionsOK, ZoneVersionsFresh, OwnSection, Newest
    <2> QED BY <2>5, <2>7, <2>8, <2>9
  <1>2. ASSUME NEW t \in Threads, NEW r \in Requests, Begin(t, r) PROVE IInv'
    <2>1. TypeOK'
      BY <1>2, BoundsAssumption DEF Begin, TypeOK, Calls
    <2>2. CallsOK' /\ CancelOK'
      BY <1>2, BoundsAssumption DEF Begin, TypeOK, CallsOK, CancelOK, Calls
    <2>3. VersionsOK' /\ ZoneVersionsFresh'
      BY <1>2 DEF Begin, VersionsOK, ZoneVersionsFresh, OwnSection, Newest
    <2> QED BY <2>1, <2>2, <2>3
  <1>3. ASSUME NEW t \in Threads, Cancel(t) PROVE IInv'
    <2>1. TypeOK' /\ CallsOK'
      BY <1>3 DEF Cancel, TypeOK, CallsOK
    <2>2. CancelOK'
      BY <1>3 DEF Cancel, TypeOK, CallsOK, CancelOK
    <2>3. VersionsOK' /\ ZoneVersionsFresh'
      BY <1>3 DEF Cancel, VersionsOK, ZoneVersionsFresh, OwnSection, Newest
    <2> QED BY <2>1, <2>2, <2>3
  <1>4. CASE CacheCatchUp
    <2>1. TypeOK' /\ CallsOK' /\ CancelOK'
      BY <1>4 DEF CacheCatchUp, TypeOK, CallsOK, CancelOK
    <2>2. VersionsOK' /\ ZoneVersionsFresh'
      BY <1>4 DEF CacheCatchUp, VersionsOK, ZoneVersionsFresh, OwnSection, Newest
    <2> QED BY <2>1, <2>2
  <1> QED BY <1>1, <1>2, <1>3, <1>4

\* Facts about any accepted write: the parts that do not depend on its content.
LEMMA GrowthIInv ==
  ASSUME IInv, NEW o \in Objects, log' = Append(log, o),
         UNCHANGED <<cache, cancelled, cancelAt>>
  PROVE  /\ log' \in Seq(Objects) /\ Len(log') = Len(log) + 1
         /\ cache' \in 1..Len(log')
         /\ Newest' = o
         /\ \A i \in 1..Len(log) : log'[i] = log[i] /\ OwnSection(i)' = OwnSection(i)
         /\ OwnSection(Len(log))' = IF o.status = None THEN None
                                         ELSE o.status.zones[Self]
  <1>1. /\ log' \in Seq(Objects) /\ Len(log') = Len(log) + 1
        /\ \A i \in 1..Len(log) : log'[i] = log[i]
        /\ log'[Len(log) + 1] = o
    BY AppendLog DEF IInv, TypeOK
  <1>2. cache' \in 1..Len(log') /\ Newest' = o
    BY <1>1 DEF IInv, TypeOK, Newest
  <1>3. \A i \in 1..Len(log) : OwnSection(i)' = OwnSection(i)
    BY <1>1 DEF OwnSection
  <1>4. OwnSection(Len(log))' = IF o.status = None THEN None ELSE o.status.zones[Self]
    BY <1>1 DEF OwnSection
  <1> QED BY <1>1, <1>2, <1>3, <1>4

\* An accepted write of a call: its section gets a version above all earlier.
LEMMA WrittenFacts ==
  ASSUME IInv, NEW t \in Threads, thread[t].pc = "write", thread[t].snap = Len(log)
  PROVE  LET new == Effect(thread[t].req, Newest.status).status
         IN  /\ Newest.status \in Statuses
             /\ Written(t) \in Statuses
             /\ \A z \in Zones \ {Self} : Written(t).zones[z] = Newest.status.zones[z]
             /\ new.zones[Self] = None => Written(t) = new
             /\ new.zones[Self] # None =>
                  /\ Written(t) = [new EXCEPT !.zones[Self].version = Newest.rv + 1]
                  /\ Written(t).zones[Self].version = Newest.rv + 1
  <1> DEFINE st == Newest.status
             r == thread[t].req
             new == Effect(r, st).status
  <1>1. /\ r \in AllRequests /\ st \in Statuses
        /\ Newest \in Objects /\ Newest.rv \in Nat
    <2>1. Len(log) \in 1..Len(log)
      BY DEF IInv, TypeOK
    <2>2. Newest \in Objects
      BY <2>1 DEF IInv, TypeOK, Newest
    <2>3. thread[t].req \in Requests /\ Newest.status # None
      BY DEF IInv, CallsOK, Newest
    <2> QED BY <2>2, <2>3, RequestsAssumption DEF Objects
  <1>2. Written(t) = IncrementZoneVersion(new, Newest.rv, Self)
    BY DEF Written, Newest
  <1>3. OwnVersion(st) <= Newest.rv
    <2>1. Len(log) \in 1..Len(log) /\ highest \in Nat
      BY DEF IInv, TypeOK
    <2>2. OwnSection(Len(log)) = st.zones[Self]
      BY DEF OwnSection, Newest, IInv, CallsOK
    <2>3. OwnSection(Len(log)) # None => OwnSection(Len(log)).version <= highest
      BY <2>1 DEF IInv, VersionsOK
    <2>4. st.zones[Self] # None => st.zones[Self].version \in Nat
      BY <1>1, AbsentAssumption DEF Statuses, ZoneStatus
    <2>5. highest <= Newest.rv
      BY DEF IInv, VersionsOK
    <2> HIDE DEF st
    <2> QED BY <1>1, <2>1, <2>2, <2>3, <2>4, <2>5 DEF OwnVersion
  <1> HIDE DEF st, r
  <1>4. /\ new \in Statuses
        /\ \A z \in Zones \ {Self} : new.zones[z] = st.zones[z]
        /\ new.zones[Self] # None => new.zones[Self].version = OwnVersion(st)
    BY <1>1, EffectType
  <1> HIDE DEF new
  <1>5. /\ Written(t) \in Statuses
        /\ \A z \in Zones \ {Self} : Written(t).zones[z] = new.zones[z]
        /\ new.zones[Self] = None => Written(t) = new
        /\ new.zones[Self] # None =>
             /\ Written(t) = [new EXCEPT !.zones[Self].version = Written(t).zones[Self].version]
             /\ new.zones[Self].version <= Newest.rv
                  => Written(t).zones[Self].version = Newest.rv + 1
    <2> DEFINE inc == IncrementZoneVersion(new, Newest.rv, Self)
    <2>1. /\ inc \in Statuses
          /\ \A z \in Zones \ {Self} : inc.zones[z] = new.zones[z]
          /\ new.zones[Self] = None => inc = new
          /\ new.zones[Self] # None =>
               /\ inc = [new EXCEPT !.zones[Self].version = inc.zones[Self].version]
               /\ new.zones[Self].version <= Newest.rv
                    => inc.zones[Self].version = Newest.rv + 1
      BY <1>1, <1>4, IncrementType
    <2> HIDE DEF inc
    <2>2. Written(t) = inc
      BY <1>2 DEF inc
    <2> QED BY <2>1, <2>2
  <1> QED BY <1>1, <1>3, <1>4, <1>5 DEF st, r, new

\* The own section in a state of the object, where there is one.
LEMMA OwnSectionType ==
  ASSUME IInv, NEW i \in 1..Len(log), OwnSection(i) # None
  PROVE  OwnSection(i) \in ZoneStatus
  <1>1. log[i] \in Objects
    BY DEF IInv, TypeOK
  <1>2. log[i].status \in Statuses /\ OwnSection(i) = log[i].status.zones[Self]
    BY <1>1 DEF Objects, OwnSection
  <1> QED BY <1>2, AbsentAssumption DEF Statuses

\* Status().Update preserves the invariant.
LEMMA WriteIInv ==
  ASSUME IInv, NEW t \in Threads, NEW skip \in 0..MaxSkip, Write(t, skip)
  PROVE  IInv'
  <1> DEFINE o == [rv |-> Newest.rv + 1 + skip, status |-> Written(t)]
             n == Len(log)
  <1>1. n \in Nat /\ n > 0 /\ Newest.rv \in Nat /\ highest \in Nat /\ skip \in Nat
    <2>1. n \in 1..n /\ highest \in Nat /\ skip \in Nat
      BY BoundsAssumption DEF IInv, TypeOK
    <2>2. Newest \in Objects
      BY <2>1 DEF IInv, TypeOK, Newest
    <2> QED BY <2>1, <2>2 DEF Objects
  <1>2. Written(t) \in Statuses /\ o \in Objects
    <2>1. thread[t].pc = "write" /\ thread[t].snap = Len(log)
      BY DEF Write
    <2>2. Written(t) \in Statuses
      BY <2>1, WrittenFacts
    <2>3. Newest.rv + 1 + skip \in Nat
      BY <1>1
    <2> QED BY <2>2, <2>3 DEF Objects
  <1>3. /\ log' \in Seq(Objects) /\ Len(log') = n + 1
        /\ cache' \in 1..Len(log')
        /\ Newest' = o
        /\ \A i \in 1..n : log'[i] = log[i] /\ OwnSection(i)' = OwnSection(i)
        /\ OwnSection(n)' = IF Written(t) = None THEN None ELSE Written(t).zones[Self]
    BY <1>2, GrowthIInv DEF Write
  <1>4. ZoneExists(Written(t), Self)
          => Written(t).zones[Self].version = Newest.rv + 1
    BY WrittenFacts DEF Write, ZoneExists
  <1>5. highest' \in Nat /\ highest <= highest' /\ highest' <= Newest.rv + 1 + skip
    BY <1>1, <1>4 DEF Write, IInv, VersionsOK
  <1>6. Idle \in Calls
    BY BoundsAssumption DEF Idle, Calls
  <1>7. TypeOK'
    BY <1>3, <1>5, <1>6 DEF IInv, TypeOK, Write
  <1>8. CallsOK'
    BY <1>1, <1>3 DEF IInv, TypeOK, CallsOK, Write, Idle
  <1>9. CancelOK'
    BY <1>1, <1>3 DEF IInv, TypeOK, CancelOK, Write, Idle
  <1>10. \A i \in 1..n : OwnSection(i) # None => OwnSection(i).version <= highest
    BY DEF IInv, VersionsOK
  <1>11. \A i \in 1..n : OwnSection(i) # None => OwnSection(i).version \in Nat
    BY OwnSectionType DEF ZoneStatus
  <1>12. OwnSection(n)' # None =>
           /\ OwnSection(n)' = Written(t).zones[Self]
           /\ OwnSection(n)'.version = Newest.rv + 1
           /\ highest' = Newest.rv + 1
    BY <1>3, <1>4 DEF Write, ZoneExists
  <1>13. VersionsOK'
    <2>1. ASSUME NEW i \in 1..Len(log'), OwnSection(i)' # None
          PROVE  OwnSection(i)'.version <= highest'
      <3>1. CASE i \in 1..n
        BY <1>1, <1>3, <1>5, <1>10, <1>11, <2>1, <3>1
      <3>2. CASE i = n + 1
        BY <1>1, <1>3, <1>12, <2>1, <3>2 DEF OwnSection
      <3> QED BY <1>1, <1>3, <3>1, <3>2
    <2> QED BY <1>3, <1>5, <2>1 DEF VersionsOK
  <1>14. ZoneVersionsFresh'
    <2> SUFFICES ASSUME NEW i \in 1..(n + 1), NEW j \in 1..(n + 1), i < j,
                        OwnSection(i)' # None, OwnSection(j)' # None,
                        OwnSection(i)' # OwnSection(j)'
                 PROVE  OwnSection(i)'.version < OwnSection(j)'.version
      BY <1>3 DEF ZoneVersionsFresh
    <2>1. CASE j \in 1..n
      <3>1. i \in 1..n
        BY <1>1, <2>1
      <3>2. OwnSection(i)' = OwnSection(i) /\ OwnSection(j)' = OwnSection(j)
        BY <1>3, <2>1, <3>1
      <3>3. ZoneVersionsFresh
        BY DEF IInv
      <3> QED BY <2>1, <3>1, <3>2, <3>3 DEF ZoneVersionsFresh
    <2>2. CASE j = n + 1
      <3>1. OwnSection(j)'.version = Newest.rv + 1
        BY <1>3, <1>12, <2>2 DEF OwnSection
      <3>2. i \in 1..n
        BY <1>1, <2>2
      <3> QED BY <1>1, <1>3, <1>10, <1>11, <3>1, <3>2 DEF IInv, VersionsOK
    <2> QED BY <1>1, <2>1, <2>2
  <1> QED BY <1>7, <1>8, <1>9, <1>13, <1>14 DEF IInv

\* Object o becomes the newest state, with the own section it had.
Foreign(o) ==
  /\ Newest.status # None
  /\ log' = Append(log, o) /\ o.rv > Newest.rv
  /\ o.status # None => o.status.zones[Self] = Newest.status.zones[Self]
  /\ UNCHANGED <<cache, thread, cancelled, cancelAt, highest>>

\* A write of the rest of the cluster leaves the own section as it is, or
\* deletes the object.
LEMMA ForeignFacts ==
  ASSUME IInv, ForeignStep
  PROVE  \E o \in Objects : Foreign(o)
  <1>1. Newest \in Objects
    <2>1. Len(log) \in 1..Len(log)
      BY DEF IInv, TypeOK
    <2> QED BY <2>1 DEF IInv, TypeOK, Newest
  <1>2. ASSUME NEW st, NEW skip \in Nat, ForeignWrite(st, skip),
               \/ st = None
               \/ st \in Statuses /\ st.zones[Self] = Newest.status.zones[Self]
        PROVE  \E o \in Objects : Foreign(o)
    <2> DEFINE o == [rv |-> Newest.rv + 1 + skip, status |-> st]
    <2>1. Newest.rv \in Nat
      BY <1>1 DEF Objects
    <2>2. o \in Objects /\ o.rv > Newest.rv
      BY <1>2, <2>1 DEF Objects
    <2> QED BY <1>2, <2>2 DEF ForeignWrite, Foreign
  <1>3. Newest.status # None => Newest.status \in Statuses
    BY <1>1 DEF Objects
  <1>4. \A skip \in 0..MaxSkip : skip \in Nat
    BY BoundsAssumption
  <1>5. ASSUME NEW z \in Zones, NEW section \in PeerSections, NEW skip \in 0..MaxSkip,
               PeerReport(z, section, skip)
        PROVE  \E o \in Objects : Foreign(o)
    <2> DEFINE st == SetZone(Newest.status, z, section)
    <2>1. z # Self /\ Newest.status \in Statuses /\ ForeignWrite(st, skip)
      BY <1>3, <1>5 DEF PeerReport, ForeignWrite
    <2>2. section \in ZoneStatus \cup {None}
      BY PeersAssumption
    <2>3. st \in Statuses /\ st.zones[Self] = Newest.status.zones[Self]
      BY <2>1, <2>2, AbsentAssumption DEF SetZone, Statuses
    <2> HIDE DEF st
    <2> QED BY <1>2, <1>4, <2>1, <2>3
  <1>6. ASSUME NEW places \in PeerPlacements, NEW skip \in 0..MaxSkip,
               PeerPlace(places, skip)
        PROVE  \E o \in Objects : Foreign(o)
    <2> DEFINE st == [Newest.status EXCEPT !.placements = places]
    <2>1. Newest.status \in Statuses /\ ForeignWrite(st, skip)
      BY <1>3, <1>6 DEF PeerPlace, ForeignWrite
    <2>2. places \in (SUBSET Zones) \ {{}}
      BY PeersAssumption
    <2>3. st \in Statuses /\ st.zones[Self] = Newest.status.zones[Self]
      BY <2>1, <2>2 DEF Statuses
    <2> HIDE DEF st
    <2> QED BY <1>2, <1>4, <2>1, <2>3
  <1>7. ASSUME NEW skip \in 0..MaxSkip, Edit(skip)
        PROVE  \E o \in Objects : Foreign(o)
    BY <1>2, <1>3, <1>4, <1>7 DEF Edit
  <1>8. CASE Delete
    BY <1>2, <1>8 DEF Delete
  <1> QED BY <1>5, <1>6, <1>7, <1>8 DEF ForeignStep

\* The rest of the cluster preserves the invariant.
LEMMA ForeignIInv ==
  ASSUME IInv, ForeignStep
  PROVE  IInv'
  <1> DEFINE n == Len(log)
  <1>1. PICK o \in Objects : Foreign(o)
    BY ForeignFacts
  <1>2. n \in Nat /\ n > 0 /\ highest \in Nat /\ o.rv \in Nat
    BY DEF IInv, TypeOK, Objects
  <1>3. /\ log' \in Seq(Objects) /\ Len(log') = n + 1
        /\ cache' \in 1..Len(log')
        /\ Newest' = o
        /\ \A i \in 1..n : log'[i] = log[i] /\ OwnSection(i)' = OwnSection(i)
        /\ OwnSection(n)' = IF o.status = None THEN None ELSE o.status.zones[Self]
    BY <1>1, GrowthIInv DEF Foreign
  <1>4. OwnSection(n)' # None => OwnSection(n)' = OwnSection(n)
    BY <1>1, <1>3 DEF Foreign, OwnSection, Newest
  <1>5. TypeOK' /\ CallsOK' /\ CancelOK'
    BY <1>1, <1>2, <1>3 DEF Foreign, IInv, TypeOK, CallsOK, CancelOK
  <1>6. VersionsOK'
    <2>1. ASSUME NEW i \in 1..Len(log'), OwnSection(i)' # None
          PROVE  OwnSection(i)'.version <= highest'
      <3>1. CASE i \in 1..n
        BY <1>1, <1>3, <2>1, <3>1 DEF Foreign, IInv, VersionsOK
      <3>2. CASE i = n + 1
        BY <1>1, <1>2, <1>3, <1>4, <2>1, <3>2 DEF Foreign, IInv, VersionsOK, OwnSection
      <3> QED BY <1>2, <1>3, <3>1, <3>2
    <2>2. highest' <= Newest'.rv
      <3>1. Newest.rv \in Nat
        <4>1. n \in 1..n
          BY <1>2
        <4>2. Newest \in Objects
          BY <4>1 DEF IInv, TypeOK, Newest
        <4> QED BY <4>2 DEF Objects
      <3> QED BY <1>1, <1>2, <1>3, <3>1 DEF Foreign, IInv, VersionsOK
    <2> QED BY <2>1, <2>2 DEF VersionsOK
  <1>7. ZoneVersionsFresh'
    <2> SUFFICES ASSUME NEW i \in 1..(n + 1), NEW j \in 1..(n + 1), i < j,
                        OwnSection(i)' # None, OwnSection(j)' # None,
                        OwnSection(i)' # OwnSection(j)'
                 PROVE  OwnSection(i)'.version < OwnSection(j)'.version
      BY <1>3 DEF ZoneVersionsFresh
    <2>1. CASE j \in 1..n
      BY <1>2, <1>3, <2>1 DEF IInv, ZoneVersionsFresh
    <2>2. CASE j = n + 1
      <3>1. i \in 1..n /\ n \in 1..n
        BY <1>2, <2>2
      <3>2. OwnSection(j)' = OwnSection(n)
        BY <1>3, <1>4, <2>2 DEF OwnSection
      <3>3. OwnSection(i) # OwnSection(n) /\ i < n
        BY <1>2, <1>3, <3>1, <3>2
      <3> QED BY <1>3, <3>1, <3>2, <3>3 DEF IInv, ZoneVersionsFresh
    <2> QED BY <1>2, <2>1, <2>2
  <1> QED BY <1>5, <1>6, <1>7 DEF IInv

-----------------------------------------------------------------------------
\* The inductive invariant holds of every behaviour of the status updater.
THEOREM Invariance == Spec => []IInv
  <1>1. IInv /\ [Next]_vars => IInv'
    <2> SUFFICES ASSUME IInv, [Next]_vars PROVE IInv'
      OBVIOUS
    <2>1. ASSUME NEW t \in Threads, CallStep(t) PROVE IInv'
      BY <2>1, QuietIInv, WriteIInv DEF CallStep
    <2>2. ASSUME NEW t \in Jobs, Cancel(t) PROVE IInv'
      BY <2>2, QuietIInv DEF Threads
    <2>3. ASSUME NEW t \in Threads, NEW r \in Requests, Begin(t, r) PROVE IInv'
      BY <2>3, QuietIInv
    <2>4. CASE UNCHANGED vars
      BY <2>4 DEF vars, IInv, TypeOK, CallsOK, VersionsOK, CancelOK,
                  ZoneVersionsFresh, OwnSection, Newest
    <2>5. CASE CacheCatchUp
      BY <2>5, QuietIInv
    <2>6. CASE ForeignStep
      BY <2>6, ForeignIInv
    <2> QED BY <2>1, <2>2, <2>3, <2>4, <2>5, <2>6 DEF Next, Threads, Requests
  <1> QED BY <1>1, InitIInv, PTL DEF Spec

\* update.go UpdateStatus: whatever the writers do, the states of the object are
\* objects and the rounds of a call stay within their bound.
THEOREM TypeCorrect == Spec => []TypeOK
  <1>1. IInv => TypeOK
    BY DEF IInv
  <1> QED BY <1>1, Invariance, PTL

\* IncrementZoneVersion: no version of the own section is ever used twice.
THEOREM VersionsFresh == Spec => []ZoneVersionsFresh
  <1>1. IInv => ZoneVersionsFresh
    BY DEF IInv
  <1> QED BY <1>1, Invariance, PTL

\* update.go IsCancelled: a cancelled job cannot overwrite its successor.
THEOREM LateWriteHarmless == Spec => CancelledNeverOverwrites
  <1> DEFINE Step == \A t \in Threads :
               cancelled[t] /\ thread[t].pc = "write" /\ thread'[t].pc = "idle"
                 /\ log' # log => cancelAt[t] = Len(log)
  <1>1. IInv /\ [Next]_vars => Step
    <2> SUFFICES ASSUME IInv, [Next]_vars, NEW t \in Threads, cancelled[t],
                        thread[t].pc = "write", thread'[t].pc = "idle", log' # log
                 PROVE  cancelAt[t] = Len(log)
      OBVIOUS
    <2>1. ASSUME NEW u \in Threads, NEW skip \in 0..MaxSkip, Write(u, skip)
          PROVE  cancelAt[t] = Len(log)
      <3>1. u = t
        BY <2>1 DEF Write, IInv, TypeOK
      <3>2. thread[t].snap = Len(log)
        BY <2>1, <3>1 DEF Write
      <3>3. thread[t].snap <= cancelAt[t] /\ cancelAt[t] <= Len(log)
        BY DEF IInv, CancelOK
      <3>4. cancelAt[t] \in Nat /\ Len(log) \in Nat
        BY DEF IInv, TypeOK
      <3> QED BY <3>2, <3>3, <3>4
    <2>2. CASE ForeignStep
      <3>1. thread' = thread
        BY <2>2 DEF ForeignStep, PeerReport, PeerPlace, Edit, Delete, ForeignWrite
      <3> QED BY <3>1
    <2>3. CASE UNCHANGED vars
      BY <2>3 DEF vars
    <2> QED BY <2>1, <2>2, <2>3 DEF Next, CallStep, Get, Check, Conflict, Fail, Cancel,
                                    Begin, CacheCatchUp
  <1>2. IInv /\ [Next]_vars => [Step]_vars
    BY <1>1
  <1> QED BY <1>2, Invariance, PTL DEF Spec, CancelledNeverOverwrites

-----------------------------------------------------------------------------
\* The abstract specification uses the same update functions.
LEMMA SameEffect == \A r, st : Atomic!Effect(r, st) = Effect(r, st)
  BY DEF Atomic!Effect, Effect, Atomic!UpdateCondition, UpdateCondition,
         Atomic!PlaceLocally, PlaceLocally, Atomic!InitializeState, InitializeState,
         Atomic!MergeStatus, MergeStatus, Atomic!MergeOwnership, MergeOwnership,
         Atomic!MergeZone, MergeZone, Atomic!MergeConditions, MergeConditions,
         Atomic!GetOrCreateStatusFor, GetOrCreateStatusFor, Atomic!ZoneExists, ZoneExists,
         Atomic!NewZone, NewZone, Atomic!NoConditions, NoConditions,
         Atomic!SetZone, SetZone, Atomic!RemoveZone, RemoveZone,
         Atomic!AddOrUpdate, AddOrUpdate, Atomic!Remove, Remove,
         Atomic!CondTypes, CondTypes

\* The request a call is working on.
Pending == [t \in Threads |-> thread[t].req]

\* A step of a call that writes nothing begins it, ends it or is internal.
LEMMA QuietRefines ==
  ASSUME IInv, NEW t \in Threads,
         \/ Get(t) \/ Check(t) \/ Conflict(t) \/ Fail(t)
         \/ \E r \in Requests : Begin(t, r)
  PROVE  [Atomic!ANext]_(Atomic!avars)
  <1>1. log' = log /\ highest' = highest /\ Newest' = Newest
    BY DEF Get, Check, Conflict, Fail, Begin, Newest
  <1>2. ASSUME NEW r \in Requests, Begin(t, r) PROVE Atomic!Submit(t, r)
    <2>1. Pending[t] = None /\ Pending' = [Pending EXCEPT ![t] = r]
      BY <1>2 DEF Begin, Pending, IInv, TypeOK, CallsOK
    <2> QED BY <1>1, <2>1 DEF Atomic!Submit, Pending
  <1>3. CASE Get(t) \/ Check(t) \/ Conflict(t) \/ Fail(t)
    <2>1. /\ thread' = [thread EXCEPT ![t] = thread'[t]]
          /\ thread'[t].req = thread[t].req \/ thread'[t].req = None
      <3>1. thread[t] \in Calls
        BY DEF IInv, TypeOK
      <3>2. CASE Get(t) BY <3>1, <3>2 DEF Get, Idle, Calls, IInv, TypeOK
      <3>3. CASE Check(t) BY <3>1, <3>3 DEF Check, Idle, Calls, IInv, TypeOK
      <3>4. CASE Conflict(t) BY <3>1, <3>4 DEF Conflict, Idle, Calls, IInv, TypeOK
      <3>5. CASE Fail(t) BY <3>5 DEF Fail, Idle, IInv, TypeOK
      <3> QED BY <1>3, <3>2, <3>3, <3>4, <3>5
    <2>2. thread[t].req # None
      BY <1>3, RequestsAssumption DEF Get, Check, Conflict, Fail, IInv, CallsOK
    <2>3. CASE thread'[t].req = thread[t].req
      <3>1. Pending' = Pending
        BY <2>1, <2>3 DEF Pending, IInv, TypeOK
      <3> QED BY <1>1, <3>1 DEF Atomic!avars, Pending
    <2>4. CASE thread'[t].req = None
      <3>1. Pending[t] # None /\ Pending' = [Pending EXCEPT ![t] = None]
        BY <2>1, <2>2, <2>4 DEF Pending, IInv, TypeOK
      <3> QED BY <1>1, <3>1 DEF Atomic!Drop, Atomic!ANext, Pending
    <2> QED BY <2>1, <2>3, <2>4
  <1> QED BY <1>2, <1>3 DEF Atomic!ANext

\* An accepted write applies the request to the newest status.
LEMMA WriteRefines ==
  ASSUME IInv, NEW t \in Threads, NEW skip \in 0..MaxSkip, Write(t, skip)
  PROVE  Atomic!Apply(t)
  <1> DEFINE new == Effect(thread[t].req, Newest.status).status
  <1>1. thread[t].pc = "write" /\ thread[t].snap = Len(log)
    BY DEF Write
  <1>2. /\ Newest.status \in Statuses
        /\ Written(t) \in Statuses
        /\ new.zones[Self] = None => Written(t) = new
        /\ new.zones[Self] # None =>
             /\ Written(t) = [new EXCEPT !.zones[Self].version = Newest.rv + 1]
             /\ Written(t).zones[Self].version = Newest.rv + 1
             /\ Written(t).zones[Self] # None
    <2>1. Newest.status \in Statuses /\ thread[t].req \in AllRequests
      BY <1>1, WrittenFacts, RequestsAssumption DEF IInv, CallsOK
    <2> HIDE DEF new
    <2>2. /\ Written(t) \in Statuses
          /\ new.zones[Self] = None => Written(t) = new
          /\ new.zones[Self] # None =>
             /\ Written(t) = [new EXCEPT !.zones[Self].version = Newest.rv + 1]
             /\ Written(t).zones[Self].version = Newest.rv + 1
      BY <1>1, WrittenFacts DEF new
    <2>3. new \in Statuses
      BY <2>1, EffectType DEF new
    <2>4. ASSUME new.zones[Self] # None PROVE Written(t).zones[Self] # None
      <3>1. new.zones[Self] \in ZoneStatus /\ Newest.rv \in Nat
        <4>1. Len(log) \in 1..Len(log)
          BY DEF IInv, TypeOK
        <4>2. Newest \in Objects
          BY <4>1 DEF IInv, TypeOK, Newest
        <4> QED BY <2>3, <2>4, <4>2, AbsentAssumption DEF Statuses, Objects
      <3>2. [new.zones[Self] EXCEPT !.version = Newest.rv + 1] \in ZoneStatus
        BY <3>1 DEF ZoneStatus
      <3>3. Written(t).zones[Self] = [new.zones[Self] EXCEPT !.version = Newest.rv + 1]
        BY <2>2, <2>3, <2>4, AbsentAssumption DEF Statuses
      <3> QED BY <3>2, <3>3, SectionAssumption
    <2> QED BY <2>1, <2>2, <2>4
  <1> HIDE DEF new
  <1>3. Newest.status' = Written(t)
    <2>1. [rv |-> Newest.rv + 1 + skip, status |-> Written(t)].status = Written(t)
      OBVIOUS
    <2>2. log' = Append(log, [rv |-> Newest.rv + 1 + skip, status |-> Written(t)])
      BY DEF Write
    <2>3. log \in Seq(Objects)
      BY DEF IInv, TypeOK
    <2>4. Newest' = [rv |-> Newest.rv + 1 + skip, status |-> Written(t)]
      BY <2>2, <2>3 DEF Newest
    <2> QED BY <2>1, <2>4
  <1>4. /\ new.zones[Self] = None => highest' = highest
        /\ new.zones[Self] # None => highest' = Newest.rv + 1 /\ highest' > highest
    <2>1. highest \in Nat /\ highest <= Newest.rv /\ Newest.rv \in Nat
      <3>1. Len(log) \in 1..Len(log)
        BY DEF IInv, TypeOK
      <3>2. Newest \in Objects
        BY <3>1 DEF IInv, TypeOK, Newest
      <3> QED BY <3>2 DEF IInv, TypeOK, VersionsOK, Objects
    <2> QED BY <1>2, <2>1 DEF Write, ZoneExists
  <1>5. /\ Pending[t] = thread[t].req /\ Pending[t] # None
        /\ Pending' = [Pending EXCEPT ![t] = None]
    BY <1>1, RequestsAssumption DEF Write, Idle, Pending, IInv, TypeOK, CallsOK
  <1>6. Atomic!Effect(Pending[t], Newest.status).status = new
    BY <1>5, SameEffect DEF new
  <1>7. Newest.status # None
    BY <1>1 DEF IInv, CallsOK, Newest
  <1>8. IF new.zones[Self] # None
        THEN highest' > highest
             /\ Newest.status' = [new EXCEPT !.zones[Self].version = highest']
        ELSE Newest.status' = new /\ highest' = highest
    BY <1>2, <1>3, <1>4
  <1>9. LET m == Atomic!Effect(Pending[t], Newest.status).status
        IN  IF Atomic!ZoneExists(m, Self)
            THEN highest' > highest
                 /\ Newest.status' = [m EXCEPT !.zones[Self].version = highest']
            ELSE Newest.status' = m /\ highest' = highest
    BY <1>6, <1>8 DEF Atomic!ZoneExists
  <1> QED BY <1>5, <1>7, <1>9 DEF Atomic!Apply, Pending

\* update.go UpdateStatus: the read-modify-write loop against a lagging cache
\* implements the atomic update of AtomicStatus.
THEOREM Refinement == Spec => ImplementsAtomicStatus
  <1>1. Init => Atomic!AInit
    <2> SUFFICES ASSUME Init PROVE Atomic!AInit
      OBVIOUS
    <2>1. Newest.status = NewStatus
      BY DEF Init, Newest
    <2>2. NewStatus = Atomic!NewStatus
      BY DEF NewStatus, Atomic!NewStatus
    <2>3. Pending = [t \in Threads |-> None]
      BY DEF Init, Idle, Pending
    <2> QED BY <2>1, <2>2, <2>3 DEF Init, Atomic!AInit, Pending
  <1>2. IInv /\ [Next]_vars => [Atomic!ANext]_(Atomic!avars)
    <2> SUFFICES ASSUME IInv, [Next]_vars PROVE [Atomic!ANext]_(Atomic!avars)
      OBVIOUS
    <2>1. ASSUME NEW t \in Threads, CallStep(t) PROVE [Atomic!ANext]_(Atomic!avars)
      <3>1. ASSUME NEW skip \in 0..MaxSkip, Write(t, skip) PROVE Atomic!ANext
        BY <3>1, WriteRefines DEF Atomic!ANext
      <3> QED BY <2>1, <3>1, QuietRefines DEF CallStep
    <2>2. ASSUME NEW t \in Threads, NEW r \in Requests, Begin(t, r)
          PROVE  [Atomic!ANext]_(Atomic!avars)
      BY <2>2, QuietRefines
    <2>3. CASE UNCHANGED vars \/ CacheCatchUp \/ \E t \in Jobs : Cancel(t)
      <3>1. log' = log /\ thread' = thread /\ highest' = highest
        BY <2>3 DEF vars, CacheCatchUp, Cancel
      <3> QED BY <3>1 DEF Atomic!avars, Newest
    <2>4. CASE ForeignStep
      <3>1. PICK o \in Objects : Foreign(o)
        BY <2>4, ForeignFacts
      <3>2. Newest' = o
        BY <3>1, GrowthIInv DEF Foreign
      <3> QED BY <3>1, <3>2 DEF Foreign, Atomic!Foreign, Atomic!ANext
    <2> QED BY <2>1, <2>2, <2>3, <2>4 DEF Next, Threads, Requests
  <1> QED BY <1>1, <1>2, Invariance, PTL DEF Spec, ImplementsAtomicStatus, Atomic!ASpec
=============================================================================
