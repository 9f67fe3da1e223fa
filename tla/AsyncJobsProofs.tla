-------------------------- MODULE AsyncJobsProofs --------------------------
(***************************************************************************)
(* The safety properties of the job registry, for any applications, job    *)
(* types and workers.                                                      *)
(***************************************************************************)
EXTENDS AsyncJobs, TLAPS

\* The reconcile goroutine works on one application, and its victim is a
\* worker of that application.
CallerOK ==
  /\ caller.pc # "idle" => caller.app \in Apps
  /\ caller.pc \in {"inspect", "recheck", "execute"} => caller.want \in JobTypes
  /\ caller.pc \in {"cas", "cancel", "cleanup"} =>
       /\ caller.victim \in Workers
       /\ wpc[caller.victim] # "free"
       /\ AppOf(caller.victim) = caller.app

\* An object exists from Execute on; its context exists from Run on; its own
\* cleanup starts by setting `stopped'.
WorkersOK ==
  \A w \in Workers :
    /\ wpc[w] # "free" => jobId[w] \in JobIds
    /\ wpc[w] = "free" => ~stopped[w]
    /\ wpc[w] \in {"free", "spawned"} => ~armed[w] /\ ~cancelled[w]
    /\ wpc[w] \in {"cancel", "load", "delete"} => stopped[w]

\* An entry is a worker of that application which has not ended.
RegistryOK ==
  \A a \in Apps : registry[a] # None =>
    /\ wpc[registry[a]] \notin {"free", "done"}
    /\ AppOf(registry[a]) = a

\* Between LoadAndDelete and its own compare-and-swap the reconciler finds the
\* victim stopped only when the victim's own goroutine got there first.
VictimOK ==
  caller.pc = "cas" /\ stopped[caller.victim]
    => wpc[caller.victim] \in {"cancel", "load", "delete", "done"}

\* What the reconciler may find when it looks for the second time.
RecheckOK ==
  caller.pc = "recheck" =>
    registry[caller.app] = None \/ jobId[registry[caller.app]].type = caller.want

IInv ==
  /\ TypeOK /\ CallerOK /\ WorkersOK /\ RegistryOK /\ VictimOK /\ RecheckOK
  /\ LiveJobsAreTracked /\ NothingOverwritten /\ NoDeadEntry

\* The empty registry satisfies the invariant.
LEMMA InitIInv == Init => IInv
  <1> SUFFICES ASSUME Init PROVE IInv
    OBVIOUS
  <1> USE NoneAssumption DEF Init, IdleCaller
  <1>1. TypeOK
    BY DEF TypeOK, WorkerPc, CallerPc
  <1>2. CallerOK /\ WorkersOK /\ RegistryOK /\ VictimOK /\ RecheckOK
    BY DEF CallerOK, WorkersOK, RegistryOK, VictimOK, RecheckOK
  <1>3. LiveJobsAreTracked /\ NothingOverwritten /\ NoDeadEntry
    BY DEF LiveJobsAreTracked, NothingOverwritten, NoDeadEntry, Live
  <1> QED BY <1>1, <1>2, <1>3 DEF IInv

\* Steps of the reconcile goroutine preserve it.
LEMMA CallerIInv ==
  ASSUME IInv,
         \/ \E a \in Apps : (\E t \in JobTypes : ReconcileBegin(a, t)) \/ CleanupBegin(a)
         \/ CallerStep
  PROVE  IInv'
  <1> USE NoneAssumption DEF TypeOK, WorkerPc, CallerPc, JobIds, IdleCaller, Current
  <1>1. ASSUME NEW a \in Apps, NEW t \in JobTypes, ReconcileBegin(a, t) PROVE IInv'
    BY <1>1 DEF IInv, CallerOK, WorkersOK, RegistryOK, VictimOK, RecheckOK,
       LiveJobsAreTracked, NothingOverwritten, NoDeadEntry, Live, AppOf, ReconcileBegin
  <1>2. ASSUME NEW a \in Apps, CleanupBegin(a) PROVE IInv'
    BY <1>2 DEF IInv, CallerOK, WorkersOK, RegistryOK, VictimOK, RecheckOK,
       LiveJobsAreTracked, NothingOverwritten, NoDeadEntry, Live, AppOf, CleanupBegin
  <1>3. CASE Inspect
    BY <1>3 DEF IInv, CallerOK, WorkersOK, RegistryOK, VictimOK, RecheckOK,
       LiveJobsAreTracked, NothingOverwritten, NoDeadEntry, Live, AppOf, Inspect,
       DifferentJobIsRunning
  <1>4. CASE StopTake
    <2> USE <1>4 DEF IInv, StopTake, AfterStop
    <2>1. TypeOK'
      BY DEF CallerOK
    <2>2. CallerOK' /\ WorkersOK'
      BY DEF CallerOK, WorkersOK, RegistryOK, AppOf
    <2>3. RegistryOK' /\ NoDeadEntry'
      BY DEF CallerOK, RegistryOK, NoDeadEntry, AppOf
    <2>4. VictimOK' /\ RecheckOK' /\ NothingOverwritten'
      BY DEF CallerOK, VictimOK, RecheckOK, NothingOverwritten, NoDeadEntry
    <2>5. LiveJobsAreTracked'
      BY DEF CallerOK, LiveJobsAreTracked, RegistryOK, WorkersOK, Live, AppOf
    <2> QED BY <2>1, <2>2, <2>3, <2>4, <2>5
  <1>5. CASE StopCas
    <2> USE <1>5 DEF IInv, StopCas, AfterStop
    <2>1. TypeOK'
      BY DEF CallerOK
    <2>2. CallerOK' /\ WorkersOK'
      BY DEF CallerOK, WorkersOK, AppOf
    <2>3. RegistryOK' /\ VictimOK' /\ RecheckOK' /\ NothingOverwritten'
      BY DEF CallerOK, RegistryOK, VictimOK, RecheckOK, NothingOverwritten, AppOf
    <2>4. NoDeadEntry'
      <3> SUFFICES ASSUME NEW a \in Apps, registry[a] # None, stopped'[registry[a]]
                   PROVE  wpc[registry[a]] \in {"cancel", "load", "delete"}
        BY DEF NoDeadEntry
      <3>1. registry[a] # caller.victim
        BY DEF CallerOK, NothingOverwritten, RegistryOK, AppOf
      <3> QED BY <3>1 DEF NoDeadEntry, CallerOK
    <2>5. LiveJobsAreTracked'
      BY DEF CallerOK, LiveJobsAreTracked, VictimOK, Live, AppOf
    <2> QED BY <2>1, <2>2, <2>3, <2>4, <2>5
  <1>6. CASE StopCancel
    BY <1>6 DEF IInv, CallerOK, WorkersOK, RegistryOK, VictimOK, RecheckOK,
       LiveJobsAreTracked, NothingOverwritten, NoDeadEntry, Live, AppOf, StopCancel
  <1>7. CASE StopMiss
    BY <1>7 DEF IInv, CallerOK, WorkersOK, RegistryOK, VictimOK, RecheckOK,
       LiveJobsAreTracked, NothingOverwritten, NoDeadEntry, Live, AppOf, StopMiss
  <1>8. CASE StopCleanup
    BY <1>8 DEF IInv, CallerOK, WorkersOK, RegistryOK, VictimOK, RecheckOK,
       LiveJobsAreTracked, NothingOverwritten, NoDeadEntry, Live, AppOf, StopCleanup,
       AfterStop, SameJob
  <1>9. CASE Recheck
    BY <1>9 DEF IInv, CallerOK, WorkersOK, RegistryOK, VictimOK, RecheckOK,
       LiveJobsAreTracked, NothingOverwritten, NoDeadEntry, Live, AppOf, Recheck,
       TheSameJobIsRunning
  <1>10. ASSUME NEW w \in Workers, Execute(w) PROVE IInv'
    <2> USE <1>10 DEF IInv, Execute
    <2>1. TypeOK'
      BY DEF CallerOK
    <2>2. CallerOK' /\ WorkersOK' /\ VictimOK' /\ RecheckOK' /\ NothingOverwritten'
      BY DEF CallerOK, WorkersOK, VictimOK, RecheckOK, NothingOverwritten
    <2>3. \A a \in Apps : registry[a] # w
      BY DEF RegistryOK
    <2>4. RegistryOK'
      BY <2>3 DEF CallerOK, RegistryOK, AppOf
    <2>5. ~stopped[w]
      BY DEF WorkersOK
    <2>6. NoDeadEntry'
      BY <2>5 DEF CallerOK, NoDeadEntry
    <2>7. LiveJobsAreTracked'
      BY <2>3 DEF CallerOK, LiveJobsAreTracked, NothingOverwritten, WorkersOK, Live, AppOf
    <2> QED BY <2>1, <2>2, <2>4, <2>6, <2>7
  <1> QED
    BY <1>1, <1>2, <1>3, <1>4, <1>5, <1>6, <1>7, <1>8, <1>9, <1>10 DEF CallerStep

\* Steps of a worker goroutine preserve it.
LEMMA WorkerIInv ==
  ASSUME IInv, NEW w \in Workers, WorkerStep(w)
  PROVE  IInv'
  <1> USE NoneAssumption DEF TypeOK, WorkerPc, CallerPc, JobIds, Current
  <1>1. CASE RunStart(w)
    BY <1>1 DEF IInv, CallerOK, WorkersOK, RegistryOK, VictimOK, RecheckOK,
       LiveJobsAreTracked, NothingOverwritten, NoDeadEntry, Live, AppOf, RunStart
  <1>2. CASE JobReturns(w)
    BY <1>2 DEF IInv, CallerOK, WorkersOK, RegistryOK, VictimOK, RecheckOK,
       LiveJobsAreTracked, NothingOverwritten, NoDeadEntry, Live, AppOf, JobReturns
  <1>3. CASE WorkerCas(w)
    BY <1>3 DEF IInv, CallerOK, WorkersOK, RegistryOK, VictimOK, RecheckOK,
       LiveJobsAreTracked, NothingOverwritten, NoDeadEntry, Live, AppOf, WorkerCas
  <1>4. CASE WorkerCancel(w)
    BY <1>4 DEF IInv, CallerOK, WorkersOK, RegistryOK, VictimOK, RecheckOK,
       LiveJobsAreTracked, NothingOverwritten, NoDeadEntry, Live, AppOf, WorkerCancel
  <1>5. CASE WorkerLoad(w)
    BY <1>5 DEF IInv, CallerOK, WorkersOK, RegistryOK, VictimOK, RecheckOK,
       LiveJobsAreTracked, NothingOverwritten, NoDeadEntry, Live, AppOf, WorkerLoad,
       SameJob
  <1>6. CASE WorkerDelete(w)
    BY <1>6 DEF IInv, CallerOK, WorkersOK, RegistryOK, VictimOK, RecheckOK,
       LiveJobsAreTracked, NothingOverwritten, NoDeadEntry, Live, AppOf, WorkerDelete
  <1> QED
    BY <1>1, <1>2, <1>3, <1>4, <1>5, <1>6 DEF WorkerStep

\* So does cancelling the parent context.
LEMMA StopAllIInv == IInv /\ StopAll => IInv'
  BY DEF IInv, TypeOK, CallerOK, WorkersOK, RegistryOK, VictimOK, RecheckOK,
     LiveJobsAreTracked, NothingOverwritten, NoDeadEntry, Live, AppOf, StopAll

\* The invariant of the job registry.
THEOREM Invariance == Spec => []IInv
  <1>1. IInv /\ [Next]_vars => IInv'
    <2> SUFFICES ASSUME IInv, [Next]_vars PROVE IInv'
      OBVIOUS
    <2>1. CASE UNCHANGED vars
      BY <2>1 DEF IInv, TypeOK, CallerOK, WorkersOK, RegistryOK, VictimOK, RecheckOK,
         LiveJobsAreTracked, NothingOverwritten, NoDeadEntry, Live, AppOf, vars
    <2>2. CASE Next
      BY <2>2, CallerIInv, WorkerIInv, StopAllIInv DEF Next
    <2> QED BY <2>1, <2>2
  <1> QED BY <1>1, InitIInv, PTL DEF Spec

\* Every field and map of the registry, its workers and its caller stays in its
\* type: no step leaves a pass half way with an application it does not have.
THEOREM TypeCorrect == Spec => []TypeOK
  BY Invariance, PTL DEF IInv

\* jobs.go: a job that can still act is registered, or being stopped, or was
\* lost in one of the two ways the code has to lose one.
THEOREM Tracked == Spec => []LiveJobsAreTracked
  BY Invariance, PTL DEF IInv

\* anyapplication_controller.go: Execute never replaces a registered job.
THEOREM NoOverwrite == Spec => []NothingOverwritten
  BY Invariance, PTL DEF IInv

\* JobWorker.Stop: no stopped worker stays behind in the registry.
THEOREM NoDead == Spec => []NoDeadEntry
  BY Invariance, PTL DEF IInv
=============================================================================
