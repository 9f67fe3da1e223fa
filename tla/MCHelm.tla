------------------------------- MODULE MCHelm -------------------------------
(* Two goroutines and three repositories, two of which get the same name. *)
EXTENDS HelmClient

Url(path) == [host |-> <<"h", ".", "io">>, path |-> path]

MCUrls == {Url(<<<<"a">>, <<"charts">>>>), Url(<<<<"b">>, <<"charts">>>>), Url(<<<<"main">>>>)}

MCOffers == [url \in MCUrls |-> IF url = Url(<<<<"b">>, <<"charts">>>>) THEN {4} ELSE {1, 2}]

MCLower == ("cpu" :> "cpu") @@ ("CPU" :> "cpu") @@ ("memory" :> "memory")

MCScopes == ("Deployment" :> FALSE) @@ ("ClusterRole" :> TRUE) @@ ("Custom" :> TRUE)

MCInstance ==
  [ns |-> "ns", labels |-> ("version" :> "1") @@ ("instance" :> "ns-app")]

Asks(requests) == [requests |-> requests, limits |-> None]

Text(n) == [text |-> TRUE, amount |-> n]

Bare(n) == [text |-> FALSE, amount |-> n]

\* The objects and other pieces charts are made of.
Object(kind, labels, template, spec) ==
  [kind |-> kind, name |-> kind, ns |-> "", labels |-> labels, template |-> template,
   spec |-> spec]

Plain == Object("ClusterRole", "version" :> "0", None, None)

Custom == Object("Custom", Nothing, None, None)

Workload(requests, claims) ==
  Object("Deployment", Nothing, "app" :> "x",
         [replicas |-> 2,
          containers |-> <<Asks(requests),
                           [requests |-> "CPU" :> Text(3), limits |-> "cpu" :> Bare(4)]>>,
          initContainers |-> <<Asks(("cpu" :> Text(1)) @@ ("memory" :> Invalid))>>,
          claims |-> claims])

Claim(spec) == [name |-> "data", spec |-> spec]

Full ==
  Workload(("cpu" :> Bare(2)) @@ ("memory" :> Text(5)), <<Claim(Asks("memory" :> Text(1)))>>)

Pieces ==
  {Plain, Custom, Full, Workload(None, <<Claim(None)>>), [Workload(Invalid, <<>>) EXCEPT !.ns = "own"]}
    \cup { [kind |-> other] : other \in Others }

\* A workload before or after every piece.
MCChartTexts == UNION { {<<Full, piece>>, <<piece, Full>>} : piece \in Pieces }

Still == [kind \in EventKinds |-> 0]

\* The events of each scenario.
MCFaults == [Still EXCEPT !["fetch"] = 2, !["sync"] = 1, !["fault"] = 1]

MCRenders == [Still EXCEPT !["add"] = 1, !["template"] = 1, !["install"] = 1]

MCSyncs == [Still EXCEPT !["fetch"] = 2, !["sync"] = 1, !["publish"] = 1]

MCEmptied == [Still EXCEPT !["fetch"] = 1, !["template"] = 1, !["fault"] = 1]

MCStale == [Still EXCEPT !["add"] = 1, !["template"] = 1, !["publish"] = 1]

MCTaken == [Still EXCEPT !["add"] = 1, !["fetch"] = 1, !["template"] = 1]

MCBudgets == {MCFaults, MCRenders, MCSyncs, MCEmptied, MCStale, MCTaken}
=============================================================================
