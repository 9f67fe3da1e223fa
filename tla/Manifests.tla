------------------------------ MODULE Manifests ------------------------------
(***************************************************************************)
(* From the text of a rendered chart to resources and to the totals the    *)
(* HTTP API shows: PostProcessManifests (internal/helm/client_impl.go),    *)
(* charts.Render (internal/controller/sync/charts.go) and the parsers of   *)
(* internal/resources.                                                     *)
(*                                                                         *)
(* A manifest is the sequence of pieces of its text between occurrences of *)
(* three dashes.  A piece is an object, or "blank", a "comment", "fields"  *)
(* of YAML without a kind, or other "text".  An object whose own text has  *)
(* the dashes in it is cut: the piece holds its beginning.                 *)
(***************************************************************************)
EXTENDS Integers, SequencesExt

CONSTANTS Lower,    \* a name of a resource quantity -> the name in lower case
          Width,    \* bits of a replica count (32 in the code)
          Invalid,  \* a value the code cannot read: of another type, or no quantity
          None      \* absent

ASSUME ManifestsAssumption ==
  Width \in Nat \ {0} /\ IsFiniteSet(DOMAIN Lower) /\ Range(Lower) \subseteq DOMAIN Lower

Others == {"blank", "comment", "fields", "text"}

IsObject(piece) == piece.kind \notin Others

\* The pieces of the other kinds, in order.
Without(kinds, pieces) ==
  LET kept[i \in 0..Len(pieces)] ==
        IF i = 0 THEN <<>>
        ELSE IF pieces[i].kind \in kinds THEN kept[i - 1] ELSE Append(kept[i - 1], pieces[i])
  IN  kept[Len(pieces)]

-----------------------------------------------------------------------------
(***************************************************************************)
(* Post-processing.                                                        *)
(***************************************************************************)

\* Kinds whose pods come from a template.
Templated == {"Deployment", "StatefulSet", "DaemonSet", "Job"}

\* New labels replace old ones.
Merge(newLabels, labels) ==
  [l \in DOMAIN newLabels \cup DOMAIN labels |->
     IF l \in DOMAIN newLabels THEN newLabels[l] ELSE labels[l]]

\* Mutant: the pods do not get the labels.
AddLabelsOuter(newLabels, obj) == [obj EXCEPT !.labels = Merge(newLabels, @)]

\* AddLabels: to the object, and to the pod template if there is one.
AddLabels(newLabels, obj) ==
  [obj EXCEPT !.labels = Merge(newLabels, @),
              !.template = IF obj.kind \in Templated /\ @ # None THEN Merge(newLabels, @) ELSE @]

\* AddNamespace; scope is the map from the kinds the cluster knows to whether they
\* are cluster-scoped.
AddNamespace(namespace, scope, obj) ==
  LET updateNamespace == IF obj.kind \in DOMAIN scope THEN ~scope[obj.kind]
                         ELSE obj.kind # "CustomResourceDefinition"
  IN  [obj EXCEPT !.ns = IF updateNamespace /\ @ = "" THEN namespace ELSE @]

\* PostProcessManifests: what cannot be read as an object is kept as it is.
Process(labels, namespace, scope, piece) ==
  IF IsObject(piece) THEN AddNamespace(namespace, scope, AddLabels(labels, piece)) ELSE piece

PostProcessManifests(manifest, labels, namespace, scope) ==
  LET docs == Without({"blank"}, manifest)
  IN  [i \in 1..Len(docs) |-> Process(labels, namespace, scope, docs[i])]

\* SplitYAML of the pieces joined again.  A piece kept as it is has lost its last
\* newline, so the separator that follows it does not separate: it runs on into the
\* next object.  Text makes the YAML invalid, fields without an object lack a kind.
SplitFails(docs) ==
  \E i \in DOMAIN docs :
    \/ docs[i].kind = "text"
    \/ docs[i].kind = "fields" /\ \A j \in i..Len(docs) : ~IsObject(docs[j])

SplitYAML(docs) == Without(Others, docs)

\* charts.Render after the chart was templated.
RenderFails(manifest) == SplitFails(Without({"blank"}, manifest))

RenderedChart(manifest, labels, namespace, scope) ==
  SplitYAML(PostProcessManifests(manifest, labels, namespace, scope))

-----------------------------------------------------------------------------
(***************************************************************************)
(* The specification of an application: what its workloads ask for.        *)
(***************************************************************************)

\* Mutant: what is there already is replaced.
PutQuantity(totals, key, q) ==
  [name \in DOMAIN totals \cup {key} |-> IF name = key THEN q ELSE totals[name]]

AddQuantity(totals, key, q) ==
  [name \in DOMAIN totals \cup {key} |->
     IF name # key THEN totals[name] ELSE IF key \in DOMAIN totals THEN totals[key] + q ELSE q]

\* A quantity as the chart has it: text (500m, "1"), or a number of YAML (1).
Quantities == [text : BOOLEAN, amount : Int]

\* addResources: what is no quantity is skipped, and so is a quantity that is no text.
Counted(value) == value # Invalid /\ value.text

AddResources(totals, input) ==
  IF input = None THEN totals
  ELSE FoldSet(LAMBDA k, acc : IF Counted(input[k]) THEN AddQuantity(acc, Lower[k], input[k].amount)
                               ELSE acc,
               totals, DOMAIN input)

Nothing == [k \in {} |-> 0]

\* What containers and claims may ask for.
IsAmounts(asks) ==
  asks \notin {None, Invalid} =>
    DOMAIN asks \subseteq DOMAIN Lower /\ asks \in [DOMAIN asks -> Quantities \cup {Invalid}]

AreAskers(objects) ==
  /\ objects \in Seq(Range(objects))
  /\ \A i \in DOMAIN objects : IsAmounts(objects[i].requests) /\ IsAmounts(objects[i].limits)

\* The part of a workload the parsers read.
IsSpec(spec) ==
  /\ AreAskers(spec.containers) /\ AreAskers(spec.initContainers)
  /\ spec.claims \in Seq(Range(spec.claims))
  /\ \A j \in DOMAIN spec.claims : spec.claims[j].spec # None => AreAskers(<<spec.claims[j].spec>>)

\* CollectResources; requests or limits that are no map are an error.
CollectFails(objects) ==
  \E i \in DOMAIN objects : Invalid \in {objects[i].requests, objects[i].limits}

CollectResources(objects) ==
  LET totals[i \in 0..Len(objects)] ==
        IF i = 0 THEN [requests |-> Nothing, limits |-> Nothing]
        ELSE [requests |-> AddResources(totals[i - 1].requests, objects[i].requests),
              limits |-> AddResources(totals[i - 1].limits, objects[i].limits)]
  IN  totals[Len(objects)]

\* The conversion to int32.
ToInt32(r) == ((r + 2 ^ (Width - 1)) % 2 ^ Width) - 2 ^ (Width - 1)

\* WorkloadParser.Parse: the replicas of a Deployment or StatefulSet, else one.
Replicas(obj) ==
  IF obj.kind \in {"Deployment", "StatefulSet"} /\ obj.spec.replicas # None
  THEN ToInt32(obj.spec.replicas) ELSE 1

\* CollectPodResources
PodResources(obj) ==
  [name |-> obj.name, replica |-> Replicas(obj),
   totals |-> CollectResources(obj.spec.containers \o obj.spec.initContainers)]

\* CollectPVCResources: the claim templates of a workload.
PVCResources(obj) ==
  [i \in DOMAIN obj.spec.claims |->
     [name |-> obj.spec.claims[i].name, replica |-> 3,
      totals |-> CollectResources(<<obj.spec.claims[i].spec>>)]]

\* extractSpec: only these kinds are looked at; a claim is one if its kind is "pvc".
Extracted(obj) == obj.kind \in Templated /\ obj.spec # None

ParseFails(resources) ==
  \E i \in DOMAIN resources :
    /\ Extracted(resources[i])
    /\ \/ CollectFails(resources[i].spec.containers \o resources[i].spec.initContainers)
       \/ \E j \in DOMAIN resources[i].spec.claims :
            LET spec == resources[i].spec.claims[j].spec
            IN  spec # None /\ CollectFails(<<spec>>)

\* A claim template without a spec: the nil pointer ParseClaimTemplate answers with
\* is dereferenced.
ParsePanics(resources) ==
  \E i \in DOMAIN resources :
    Extracted(resources[i]) /\
      \E j \in DOMAIN resources[i].spec.claims : resources[i].spec.claims[j].spec = None

ExtractSpec(obj) == <<PodResources(obj)>> \o PVCResources(obj)

\* ApplicationSpecParser.Parse
ParseSpec(resources) ==
  LET items[i \in 0..Len(resources)] ==
        IF i = 0 THEN <<>>
        ELSE IF Extracted(resources[i]) THEN items[i - 1] \o ExtractSpec(resources[i])
        ELSE items[i - 1]
  IN  items[Len(resources)]
=============================================================================
