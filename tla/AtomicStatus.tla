---------------------------- MODULE AtomicStatus ----------------------------
(***************************************************************************)
(* What the status updater promises to its callers: an update function is  *)
(* applied at most once, in one step, to the newest status of the object,  *)
(* and gives the own zone section a version no earlier section had; or it  *)
(* is dropped.                                                             *)
(***************************************************************************)
EXTENDS AppStatus

CONSTANTS Threads,   \* goroutines that update the status
          Requests   \* update functions they may ask for

VARIABLES status,    \* newest status of the object, None once it is gone
          highest,   \* highest version the own section ever had
          pending    \* goroutine -> request under way or None

avars == <<status, highest, pending>>

AInit ==
  /\ status = NewStatus
  /\ highest = 0
  /\ pending = [t \in Threads |-> None]

Submit(t, r) ==
  /\ pending[t] = None
  /\ pending' = [pending EXCEPT ![t] = r]
  /\ UNCHANGED <<status, highest>>

Drop(t) ==
  /\ pending[t] # None
  /\ pending' = [pending EXCEPT ![t] = None]
  /\ UNCHANGED <<status, highest>>

\* The request takes effect on the newest status.
Apply(t) ==
  /\ pending[t] # None
  /\ status # None
  /\ LET new == Effect(pending[t], status).status
     IN  IF ZoneExists(new, Self)
         THEN /\ highest' > highest
              /\ status' = [new EXCEPT !.zones[Self].version = highest']
         ELSE status' = new /\ highest' = highest
  /\ pending' = [pending EXCEPT ![t] = None]

\* Someone else writes the object, but never the section of this zone, or
\* deletes it.
Foreign ==
  /\ status # None
  /\ status' # None => status'.zones[Self] = status.zones[Self]
  /\ UNCHANGED <<highest, pending>>

ANext ==
  \/ \E t \in Threads : Drop(t) \/ Apply(t) \/ \E r \in Requests : Submit(t, r)
  \/ Foreign

ASpec == AInit /\ [][ANext]_avars
=============================================================================
