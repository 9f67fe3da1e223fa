--------------------------- MODULE StatusUpdater ---------------------------
(***************************************************************************)
(* StatusUpdater.UpdateStatus (internal/controller/status/update.go): the  *)
(* read-modify-write loop by which the reconciler and the jobs of a zone   *)
(* change the status of an application.                                    *)
(*                                                                         *)
(* The API server keeps the object and accepts a write only if it carries  *)
(* the current resource version.  Reads come from an informer cache that   *)
(* lags behind.  RetryOnConflict repeats the loop a bounded number of      *)
(* times.  A job's context can be cancelled at any moment; the loop looks  *)
(* at it once per round, before the write.                                 *)
(***************************************************************************)
EXTENDS AppStatus, Sequences

CONSTANTS Jobs,          \* goroutines of jobs
          Reconciler,    \* the reconcile goroutine
          JobRequests,   \* update functions the jobs ask for
          PassRequests,  \* update functions the reconciler asks for
          PeerSections,  \* zone sections other zones may report
          PeerPlacements,\* placements a scheduler may set
          MaxTries,      \* retry.DefaultRetry.Steps
          MaxSkip,       \* resource versions other objects may take in between
          MaxLog         \* bound on the number of states of the object

Threads == Jobs \cup {Reconciler}

Requests == JobRequests \cup PassRequests

ASSUME BoundsAssumption == MaxTries \in Nat \ {0} /\ MaxSkip \in Nat /\ MaxLog \in Nat

ASSUME RequestsAssumption ==
  Requests \subseteq AllRequests /\ None \notin Requests /\ Reconciler \notin Jobs

ASSUME PeersAssumption ==
  /\ \A section \in PeerSections : section # None => section \in ZoneStatus
  /\ \A places \in PeerPlacements : places \subseteq Zones /\ places # {}

VARIABLES
  log,        \* all states of the object in the API server, oldest first
  cache,      \* index in log of the state the informer cache holds
  thread,     \* goroutine -> its UpdateStatus call
  cancelled,  \* goroutine -> its context has been cancelled
  cancelAt,   \* history: length of log when it was cancelled
  highest     \* history: highest version the own section ever had

vars == <<log, cache, thread, cancelled, cancelAt, highest>>

\* A state of the object; status None is its deletion.
Objects == [rv : Nat, status : Statuses \cup {None}]

Calls == [pc : {"idle", "get", "check", "write"}, req : Requests \cup {None},
          snap : Nat, tries : 0..MaxTries]

Idle == [pc |-> "idle", req |-> None, snap |-> 0, tries |-> 0]

Newest == log[Len(log)]

TypeOK ==
  /\ log \in Seq(Objects) /\ Len(log) > 0
  /\ cache \in 1..Len(log)
  /\ thread \in [Threads -> Calls]
  /\ cancelled \in [Threads -> BOOLEAN]
  /\ cancelAt \in [Threads -> Nat]
  /\ highest \in Nat

Init ==
  /\ log = <<[rv |-> 1, status |-> NewStatus]>>
  /\ cache = 1
  /\ thread = [t \in Threads |-> Idle]
  /\ cancelled = [t \in Threads |-> FALSE]
  /\ cancelAt = [t \in Threads |-> 0]
  /\ highest = 0

-----------------------------------------------------------------------------
(***************************************************************************)
(* One call of UpdateStatus.                                               *)
(***************************************************************************)

Begin(t, r) ==
  /\ thread[t].pc = "idle"
  /\ thread' = [thread EXCEPT ![t] = [pc |-> "get", req |-> r, snap |-> 0,
                                      tries |-> MaxTries]]
  /\ UNCHANGED <<log, cache, cancelled, cancelAt, highest>>

\* client.Get: a copy of what the cache holds; NotFound ends the call.
Get(t) ==
  /\ thread[t].pc = "get"
  /\ thread' = [thread EXCEPT ![t] =
                  IF log[cache].status = None THEN Idle
                  ELSE [@ EXCEPT !.pc = "check", !.snap = cache]]
  /\ UNCHANGED <<log, cache, cancelled, cancelAt, highest>>

\* Mutant: the context is not looked at.
CheckBlind(t) ==
  /\ thread[t].pc = "check"
  /\ thread' = [thread EXCEPT ![t] =
                  IF Effect(thread[t].req, log[thread[t].snap].status).updated
                  THEN [@ EXCEPT !.pc = "write"] ELSE Idle]
  /\ UNCHANGED <<log, cache, cancelled, cancelAt, highest>>

\* The update function runs on the copy; without an update, or cancelled by
\* now, the call ends.
Check(t) ==
  LET updated == Effect(thread[t].req, log[thread[t].snap].status).updated
  IN  /\ thread[t].pc = "check"
      /\ thread' = [thread EXCEPT ![t] =
                      IF updated /\ ~cancelled[t] THEN [@ EXCEPT !.pc = "write"]
                      ELSE Idle]
      /\ UNCHANGED <<log, cache, cancelled, cancelAt, highest>>

\* Mutant: the own section keeps its version.
WrittenUnversioned(t) == Effect(thread[t].req, log[thread[t].snap].status).status

\* The state the call would store: the updated copy, its own section with a
\* version made from the copy's resource version.
Written(t) ==
  LET copy == log[thread[t].snap]
  IN  IncrementZoneVersion(Effect(thread[t].req, copy.status).status, copy.rv, Self)

\* Status().Update is accepted: the copy is still the newest state.  (Whether
\* the answer reaches the caller does not matter: nothing but a conflict makes
\* it try again.)
Write(t, skip) ==
  /\ thread[t].pc = "write"
  /\ thread[t].snap = Len(log)
  /\ Len(log) < MaxLog
  /\ log' = Append(log, [rv |-> Newest.rv + 1 + skip, status |-> Written(t)])
  /\ highest' = IF ZoneExists(Written(t), Self)
                THEN Written(t).zones[Self].version ELSE highest
  /\ thread' = [thread EXCEPT ![t] = Idle]
  /\ UNCHANGED <<cache, cancelled, cancelAt>>

\* Mutant: the rounds are counted, but not compared with the bound.
ConflictForever(t) ==
  /\ thread[t].pc = "write"
  /\ thread[t].snap # Len(log)
  /\ Newest.status # None
  /\ thread' = [thread EXCEPT ![t].pc = "get", ![t].tries = @ - 1]
  /\ UNCHANGED <<log, cache, cancelled, cancelAt, highest>>

\* Status().Update is refused: the copy is outdated.  RetryOnConflict starts
\* over unless that was the last round.
Conflict(t) ==
  /\ thread[t].pc = "write"
  /\ thread[t].snap # Len(log)
  /\ Newest.status # None
  /\ thread' = [thread EXCEPT ![t] =
                  IF thread[t].tries = 1 THEN Idle
                  ELSE [@ EXCEPT !.pc = "get", !.tries = thread[t].tries - 1]]
  /\ UNCHANGED <<log, cache, cancelled, cancelAt, highest>>

\* Any other error of Get or Update is returned at once: the API server is
\* unreachable, the object is gone, the context is cancelled.
Fail(t) ==
  /\ thread[t].pc \in {"get", "write"}
  /\ thread' = [thread EXCEPT ![t] = Idle]
  /\ UNCHANGED <<log, cache, cancelled, cancelAt, highest>>

\* jobs.Stop or StopAll cancels the context of a job.
Cancel(t) ==
  /\ ~cancelled[t]
  /\ cancelled' = [cancelled EXCEPT ![t] = TRUE]
  /\ cancelAt' = [cancelAt EXCEPT ![t] = Len(log)]
  /\ UNCHANGED <<log, cache, thread, highest>>

-----------------------------------------------------------------------------
(***************************************************************************)
(* The rest of the cluster.                                                *)
(***************************************************************************)

ForeignWrite(st, skip) ==
  /\ Newest.status # None
  /\ Len(log) < MaxLog
  /\ log' = Append(log, [rv |-> Newest.rv + 1 + skip, status |-> st])
  /\ UNCHANGED <<cache, thread, cancelled, cancelAt, highest>>

\* The mesh copies the section of another zone into this cluster.
PeerReport(z, section, skip) ==
  /\ z # Self
  /\ ForeignWrite(SetZone(Newest.status, z, section), skip)

\* A scheduler places the application.
PeerPlace(places, skip) ==
  ForeignWrite([Newest.status EXCEPT !.placements = places], skip)

\* The spec or the metadata is edited, or the object is deleted.
Edit(skip) == ForeignWrite(Newest.status, skip)

Delete == ForeignWrite(None, 0)

\* A watch event reaches the cache; the informer may have missed some states.
CacheCatchUp ==
  /\ \E i \in (cache + 1)..Len(log) : cache' = i
  /\ UNCHANGED <<log, thread, cancelled, cancelAt, highest>>

CallStep(t) == Get(t) \/ Check(t) \/ (\E skip \in 0..MaxSkip : Write(t, skip))
                 \/ Conflict(t) \/ Fail(t)

ForeignStep ==
  \/ \E skip \in 0..MaxSkip :
       \/ \E z \in Zones, section \in PeerSections : PeerReport(z, section, skip)
       \/ \E places \in PeerPlacements : PeerPlace(places, skip)
       \/ Edit(skip)
  \/ Delete

Next ==
  \/ \E t \in Threads : CallStep(t)
  \/ \E t \in Jobs : Cancel(t) \/ \E r \in JobRequests : Begin(t, r)
  \/ \E r \in PassRequests : Begin(Reconciler, r)
  \/ ForeignStep
  \/ CacheCatchUp

Spec == Init /\ [][Next]_vars

-----------------------------------------------------------------------------
(***************************************************************************)
(* Properties.                                                             *)
(***************************************************************************)

OwnSection(i) == IF log[i].status = None THEN None ELSE log[i].status.zones[Self]

\* IncrementZoneVersion: two different sections this zone ever published carry
\* different versions, growing in the order of publication, also when the
\* section was removed and created again in between.  The other zones can tell
\* the newer of two copies by its version.
ZoneVersionsFresh ==
  \A i, j \in 1..Len(log) :
    /\ i < j
    /\ OwnSection(i) # None /\ OwnSection(j) # None
    /\ OwnSection(i) # OwnSection(j)
    => OwnSection(i).version < OwnSection(j).version

\* update.go IsCancelled before Status().Update: a cancelled job can still land
\* the one write it was about to make, but only if nothing else was written
\* since it was cancelled; it cannot undo what its successor wrote.
CancelledNeverOverwrites ==
  [][\A t \in Threads :
       cancelled[t] /\ thread[t].pc = "write" /\ thread'[t].pc = "idle" /\ log' # log
         => cancelAt[t] = Len(log)]_vars

\* Every accepted write is the update function applied to the newest status in
\* one step, at most once per call; nothing written by others is lost.
Atomic == INSTANCE AtomicStatus WITH status  <- Newest.status,
                                     pending <- [t \in Threads |-> thread[t].req]

ImplementsAtomicStatus == Atomic!ASpec
=============================================================================
