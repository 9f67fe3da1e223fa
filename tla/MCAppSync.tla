------------------------------ MODULE MCAppSync ------------------------------
(* Two versions of an application whose chart is a deployment, and in the first    *)
(* version a config map; the cluster makes a pod.  Beside it another application.  *)
EXTENDS AppSync

MCApp == [ns |-> <<"a">>, name |-> <<"b", "-", "c">>]

MCManifest == (1 :> <<"deployment", "config">>) @@ (2 :> <<"deployment">>)

MCParent == "pod" :> "deployment"

MCForeign == "other" :> [ns |-> <<"a">>, name |-> <<"b">>]

Health(d, c) ==
  [k \in Keys |-> CASE k = "deployment" -> d [] k = "config" -> c [] OTHER -> "Healthy"]

\* A config map has no health.
MCWorlds ==
  {[health |-> Health("Degraded", "nil"), outdated |-> {}],
   [health |-> Health("error", "nil"), outdated |-> {}],
   [health |-> Health("Degraded", "nil"), outdated |-> {"config"}]}

Nothing == [kind \in EventKinds |-> 0]

\* A job is stopped and goes on beside its successor.
MCStray == [Nothing EXCEPT !["job"] = 2, !["stop"] = 1]

\* A call fails; a resource is deleted by somebody, or loses its label.
MCLossy == [Nothing EXCEPT !["job"] = 2, !["fault"] = 1, !["spawn"] = 1, !["loss"] = 1]

MCStripped == [Nothing EXCEPT !["job"] = 2, !["spawn"] = 1, !["strip"] = 1]

\* A restart, charts rendered by others, a version withdrawn.
MCRestart ==
  [Nothing EXCEPT !["job"] = 3, !["render"] = 1, !["withdraw"] = 1, !["restart"] = 1]

MCBudgets == {MCStray, MCLossy, MCStripped, MCRestart}
=============================================================================
