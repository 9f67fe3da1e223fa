---------------------------- MODULE MCAsyncJobs ----------------------------
(* Small instances of the job registry for TLC. *)
EXTENDS AsyncJobs

MCWorkers == 1..3

\* Workers are allocated in the order of their numbers: they are interchangeable,
\* and SYMMETRY would not be sound for the liveness properties.
InOrder == \A v, w \in Workers : v < w /\ wpc[v] = "free" => wpc'[w] = "free"
=============================================================================
