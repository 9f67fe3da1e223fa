------------------------------- MODULE Charts -------------------------------
(***************************************************************************)
(* The chart versions known to the controller                              *)
(* (internal/controller/sync/charts.go) and how the version an application *)
(* should have is determined from them.                                    *)
(*                                                                         *)
(* A registry maps a chart to a ChartVersions object, a concurrent set of  *)
(* versions.  Reconcile passes, operation jobs and handlers of the HTTP    *)
(* API ask for the newest version that fits the application; whoever finds *)
(* the object empty fills it from the repository.  A goroutine of its own  *)
(* refreshes it periodically.  The operations on the two sync.Maps are     *)
(* atomic; no lock spans two of them.  One chart is modelled: the charts   *)
(* share nothing.                                                          *)
(***************************************************************************)
EXTENDS Naturals, FiniteSets

CONSTANTS Versions,  \* versions that may be published, ordered as numbers
          Initial,   \* those published from the start
          Wanted,    \* those that satisfy the application (a range, or one version)
          Clients,   \* goroutines asking for the version
          Syncer,    \* the goroutine of RunSynchronization
          Nil,       \* the answer without version and without error
          None,      \* absent
          MaxFaults  \* bound on failing calls of the repository

ASSUME ChartsAssumption ==
  /\ Versions \subseteq Nat /\ IsFiniteSet(Versions)
  /\ Initial \subseteq Versions /\ Wanted \subseteq Versions
  /\ Initial \cap Wanted # {}
  /\ Syncer \notin Clients /\ None \notin Clients
  /\ None \notin Versions /\ Nil \notin Versions /\ Nil # None
  /\ MaxFaults \in Nat

VARIABLES
  published,  \* versions in the repository
  registry,   \* charts.charts: the ChartVersions object of the chart or None
  content,    \* object -> the versions in it
  go,         \* goroutine -> where it is, the object it holds, versions to add
  result,     \* client -> its last answer
  faults,     \* failed calls of the repository
  replaced,   \* history: an object has been stored over another one
  hurried     \* history: clients answered from an object someone was filling

vars == <<published, registry, content, go, result, faults, replaced, hurried>>

Goroutines == Clients \cup {Syncer}

\* An object is named after the client that creates it: a client creates at most
\* one, since an entry of the registry is never deleted.
Init ==
  /\ published = Initial
  /\ registry = None
  /\ content = [c \in Clients |-> {}]
  /\ go = [f \in Goroutines |-> [pc |-> "idle", object |-> None, todo |-> {}]]
  /\ result = [c \in Clients |-> None]
  /\ faults = 0
  /\ replaced = FALSE
  /\ hurried = {}

Fault == faults < MaxFaults /\ faults' = faults + 1

-----------------------------------------------------------------------------
(***************************************************************************)
(* DetermineTargetVersion and AddAndGetLatest.                             *)
(***************************************************************************)

\* RegisterChart, getOrCreateVersions: Load ...
Register(c) ==
  /\ go[c].pc = "idle"
  /\ go' = [go EXCEPT ![c].pc = IF registry = None THEN "create" ELSE "pull"]
  /\ UNCHANGED <<published, registry, content, result, faults, replaced, hurried>>

\* ... and, the repository having been added, Store of a new object, whatever is
\* there by now.  An error makes DetermineTargetVersion return nil and, since it
\* returns the outer err, no error.
Create(c) ==
  /\ go[c].pc = "create"
  /\ \/ /\ registry' = c
        /\ replaced' = (replaced \/ registry # None)
        /\ go' = [go EXCEPT ![c].pc = "pull"]
        /\ UNCHANGED <<result, faults>>
     \/ /\ Fault
        /\ result' = [result EXCEPT ![c] = Nil]
        /\ go' = [go EXCEPT ![c].pc = "idle"]
        /\ UNCHANGED <<registry, replaced>>
  /\ UNCHANGED <<published, content, hurried>>

\* pullVersion: Load again; it is there.
Pull(c) ==
  /\ go[c].pc = "pull"
  /\ go' = [go EXCEPT ![c].pc = "look", ![c].object = registry]
  /\ UNCHANGED <<published, registry, content, result, faults, replaced, hurried>>

\* Mutant: the test is the wrong way round.
LookNegated(c) ==
  /\ go[c].pc = "look"
  /\ go' = [go EXCEPT ![c].pc = IF content[go[c].object] = {} THEN "resolve"
                                ELSE "fetch"]
  /\ UNCHANGED <<published, registry, content, result, faults, replaced, hurried>>

\* isEmpty
Look(c) ==
  /\ go[c].pc = "look"
  /\ go' = [go EXCEPT ![c].pc = IF content[go[c].object] = {} THEN "fetch"
                                ELSE "resolve"]
  /\ UNCHANGED <<published, registry, content, result, faults, replaced, hurried>>

\* Mutants: the search starts from the zero value of a version; the version met
\* last.
GetLatestForZero(order) ==
  LET latest[i \in 0..Cardinality(DOMAIN order)] ==
        IF i = 0 THEN 0
        ELSE IF order[i] \in Wanted /\ order[i] > latest[i - 1] THEN order[i]
        ELSE latest[i - 1]
  IN  latest[Cardinality(DOMAIN order)]

GetLatestForLast(order) ==
  LET hits == { i \in DOMAIN order : order[i] \in Wanted }
  IN  IF hits = {} THEN None ELSE order[CHOOSE i \in hits : \A j \in hits : j <= i]

\* getLatestFor: the loop over the map, in the order Range happens to take.
GetLatestFor(order) ==
  LET latest[i \in 0..Cardinality(DOMAIN order)] ==
        IF i = 0 THEN None
        ELSE IF order[i] \notin Wanted THEN latest[i - 1]
        ELSE IF latest[i - 1] = None \/ order[i] > latest[i - 1] THEN order[i]
        ELSE latest[i - 1]
  IN  latest[Cardinality(DOMAIN order)]

Orders(S) == { order \in [1..Cardinality(S) -> S] : \A v \in S : \E i \in DOMAIN order :
                                                      order[i] = v }

\* The rest of pullVersion; a version not found is again no error in the end.
Resolve(c) ==
  /\ go[c].pc = "resolve"
  /\ \E order \in Orders(content[go[c].object]) :
       result' = [result EXCEPT ![c] = IF GetLatestFor(order) = None THEN Nil
                                       ELSE GetLatestFor(order)]
  /\ hurried' = IF \E f \in Goroutines \ {c} :
                     go[f].pc = "add" /\ go[f].object = go[c].object
                THEN hurried \cup {c} ELSE hurried
  /\ go' = [go EXCEPT ![c].pc = "idle", ![c].object = None]
  /\ UNCHANGED <<published, registry, content, faults, replaced>>

-----------------------------------------------------------------------------
(***************************************************************************)
(* updateAvailableVersions, called by a client that found an object empty  *)
(* and by RunSyncCycle.                                                    *)
(***************************************************************************)

\* Where a goroutine goes on.
AfterUpdate(f) == IF f = Syncer THEN "idle" ELSE "resolve"

\* FetchVersions; its failure is logged.  Adding a version again has no effect,
\* and only the new ones are to be added.
Fetch(f) ==
  /\ go[f].pc = "fetch"
  /\ \/ /\ LET new == published \ content[go[f].object]
           IN  go' = [go EXCEPT ![f].pc = IF new = {} THEN AfterUpdate(f) ELSE "add",
                                ![f].todo = new]
        /\ UNCHANGED faults
     \/ /\ Fault
        /\ go' = [go EXCEPT ![f].pc = AfterUpdate(f)]
  /\ UNCHANGED <<published, registry, content, result, replaced, hurried>>

\* Mutant: the versions are collected afresh.
AddAfresh(f, v) ==
  /\ go[f].pc = "add" /\ v \in go[f].todo
  /\ content' = [content EXCEPT ![go[f].object] = {v}]
  /\ go' = [go EXCEPT ![f].todo = @ \ {v},
                      ![f].pc = IF go[f].todo = {v} THEN AfterUpdate(f) ELSE "add"]
  /\ UNCHANGED <<published, registry, result, faults, replaced, hurried>>

\* UpdateVersions: one version is added after the other.
Add(f, v) ==
  /\ go[f].pc = "add" /\ v \in go[f].todo
  /\ content' = [content EXCEPT ![go[f].object] = @ \cup {v}]
  /\ go' = [go EXCEPT ![f].todo = @ \ {v},
                      ![f].pc = IF go[f].todo = {v} THEN AfterUpdate(f) ELSE "add"]
  /\ UNCHANGED <<published, registry, result, faults, replaced, hurried>>

\* Mutant: only an empty object is refreshed.
RunSyncCycleOnce ==
  /\ go[Syncer].pc = "idle" /\ registry # None
  /\ content[registry] = {}
  /\ go' = [go EXCEPT ![Syncer].pc = "fetch", ![Syncer].object = registry]
  /\ UNCHANGED <<published, registry, content, result, faults, replaced, hurried>>

\* RunSyncCycle on the registered object.
RunSyncCycle ==
  /\ go[Syncer].pc = "idle" /\ registry # None
  /\ go' = [go EXCEPT ![Syncer].pc = "fetch", ![Syncer].object = registry]
  /\ UNCHANGED <<published, registry, content, result, faults, replaced, hurried>>

\* A new version appears in the repository.
Publish(v) ==
  /\ v \notin published
  /\ published' = published \cup {v}
  /\ UNCHANGED <<registry, content, go, result, faults, replaced, hurried>>

Update(f) == Fetch(f) \/ \E v \in Versions : Add(f, v)

ClientStep(c) == Register(c) \/ Create(c) \/ Pull(c) \/ Look(c) \/ Resolve(c) \/ Update(c)

SyncStep == RunSyncCycle \/ Update(Syncer)

Next ==
  \/ \E c \in Clients : ClientStep(c)
  \/ SyncStep
  \/ \E v \in Versions : Publish(v)

Spec == Init /\ [][Next]_vars

\* Operation jobs poll, passes come again with every resync, and the ticker of
\* RunSynchronization ticks.
FairSpec == Spec /\ (\A c \in Clients : WF_vars(ClientStep(c))) /\ WF_vars(SyncStep)

-----------------------------------------------------------------------------
(***************************************************************************)
(* Properties.                                                             *)
(***************************************************************************)

TypeOK ==
  /\ published \subseteq Versions
  /\ registry \in Clients \cup {None}
  /\ content \in [Clients -> SUBSET Versions]
  /\ go \in [Goroutines -> [pc : {"idle", "create", "pull", "look", "fetch", "add", "resolve"},
                            object : Clients \cup {None}, todo : SUBSET Versions]]
  /\ result \in [Clients -> Wanted \cup {None, Nil}]

\* The answer of c is older than a fitting version published from the start.
Behind(c) == result[c] \in Versions /\ \E v \in Initial \cap Wanted : v > result[c]

\* pullVersion and getLatestFor: an answer that misses a fitting version of the
\* repository was given while another goroutine was filling the same object.
BehindOnlyWhenHurried == \A c \in Clients : Behind(c) => c \in hurried

\* UpdateVersions only adds: the version an application should have goes back
\* only if concurrent registrations replaced the object.
ForwardOnly ==
  [][\A c \in Clients :
       result[c] \in Versions /\ result'[c] \in Versions /\ result'[c] < result[c]
         => replaced]_vars

\* DetermineTargetVersion: as long as the repository answers and has a fitting
\* version, a call that meets no other one half way gets a version.
AnswerUnlessFailed ==
  \A c \in Clients : result[c] = Nil => faults > 0 \/ c \in hurried

\* RunSynchronization: a fitting version published at any time comes to be known
\* to every client and stays so, whatever objects were replaced and calls failed.
CatchesUp ==
  <>[](\A c \in Clients, v \in Wanted \cap published :
         result[c] \in Versions /\ result[c] >= v)
=============================================================================
