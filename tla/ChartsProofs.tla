---------------------------- MODULE ChartsProofs ----------------------------
(***************************************************************************)
(* The chart registry, for any versions, clients and number of faults:     *)
(* getLatestFor computes the newest fitting version whatever order Range   *)
(* takes, and with that TypeOK, BehindOnlyWhenHurried, AnswerUnlessFailed  *)
(* and ForwardOnly.                                                        *)
(***************************************************************************)
EXTENDS Charts, TLAPS, FiniteSetTheorems, WellFoundedInduction

-----------------------------------------------------------------------------
(***************************************************************************)
(* getLatestFor.                                                           *)
(***************************************************************************)

\* A set of natural numbers that is not empty has a least element.
LEMMA LeastNumber ==
  ASSUME NEW S \in SUBSET Nat, S # {}
  PROVE  \E m \in S : \A k \in S : m <= k
  <1>1. PICK m \in S : \A k \in S : ~(<<k, m>> \in OpToRel(<, Nat))
    BY NatLessThanWellFounded, WFMin
  <1>2. \A k \in S : k < m => <<k, m>> \in OpToRel(<, Nat)
    BY DEF OpToRel
  <1>3. \A k \in S : ~(k < m)
    BY <1>1, <1>2
  <1> QED BY <1>3

\* One round of the loop: what is the latest version after looking at v.
Later(v, latest) ==
  IF v \notin Wanted THEN latest
  ELSE IF latest = None \/ v > latest THEN v ELSE latest

\* The loop over n versions: what is the latest version after each round.
IsLoop(order, n, g) ==
  /\ g \in [0..n -> Versions \cup {None}]
  /\ \A i \in 0..n : g[i] = IF i = 0 THEN None ELSE Later(order[i], g[i - 1])

\* The loop has a result.
LEMMA LoopExists ==
  ASSUME NEW n \in Nat, NEW order \in [1..n -> Versions]
  PROVE  \E g : IsLoop(order, n, g)
  <1> DEFINE Bad == { m \in 0..n : ~\E g : IsLoop(order, m, g) }
  <1>1. SUFFICES ASSUME Bad # {} PROVE FALSE
    <2>1. n \in 0..n
      OBVIOUS
    <2> QED BY <2>1
  <1>2. PICK m \in Bad : \A k \in Bad : m <= k
    <2>1. Bad \in SUBSET Nat
      OBVIOUS
    <2> HIDE DEF Bad
    <2> QED BY <1>1, <2>1, LeastNumber
  <1>3. m \in 0..n /\ ~\E g : IsLoop(order, m, g)
    OBVIOUS
  <1>4. CASE m = 0
    <2> DEFINE g == [i \in 0..0 |-> None]
    <2>1. IsLoop(order, 0, g)
      BY DEF IsLoop
    <2> QED BY <1>3, <1>4, <2>1
  <1>5. CASE m # 0
    <2>1. m - 1 \in 0..n /\ m - 1 < m /\ m \in 1..n
      BY <1>3, <1>5
    <2>2. m - 1 \notin Bad
      BY <1>2, <2>1
    <2>3. PICK g : IsLoop(order, m - 1, g)
      BY <2>1, <2>2
    <2> DEFINE last == Later(order[m], g[m - 1])
               h == [i \in 0..m |-> IF i = m THEN last ELSE g[i]]
    <2> HIDE DEF Bad
    <2>4. g \in [0..(m - 1) -> Versions \cup {None}] /\ m - 1 \in 0..(m - 1)
      BY <1>3, <2>1, <2>3 DEF IsLoop
    <2>5. last \in Versions \cup {None}
      BY <2>1, <2>4 DEF Later
    <2>6. h \in [0..m -> Versions \cup {None}]
      <3>1. \A i \in 0..m : i = m \/ i \in 0..(m - 1)
        BY <1>3
      <3> HIDE DEF last
      <3> QED BY <2>4, <2>5, <3>1
    <2>7. ASSUME NEW i \in 0..m
          PROVE  h[i] = IF i = 0 THEN None ELSE Later(order[i], h[i - 1])
      <3>1. CASE i = m
        <4>1. m - 1 \in 0..m /\ m - 1 # m
          BY <1>3, <2>1
        <4>2. h[m] = last /\ h[m - 1] = g[m - 1]
          BY <1>3, <2>1, <4>1
        <4> HIDE DEF h
        <4> QED BY <1>5, <3>1, <4>2
      <3>2. CASE i # m
        <4>1. i \in 0..(m - 1)
          BY <1>3, <2>7, <3>2
        <4>2. h[i] = g[i] /\ (i # 0 => h[i - 1] = g[i - 1])
          BY <1>3, <3>2, <4>1
        <4>3. g[i] = IF i = 0 THEN None ELSE Later(order[i], g[i - 1])
          BY <2>3, <4>1 DEF IsLoop
        <4> HIDE DEF h
        <4> QED BY <4>2, <4>3
      <3> QED BY <3>1, <3>2
    <2> HIDE DEF h
    <2>8. IsLoop(order, m, h)
      BY <2>6, <2>7 DEF IsLoop
    <2> QED BY <1>3, <2>8
  <1> QED BY <1>4, <1>5

\* What getLatestFor returns is what the loop ends with.
LEMMA LoopResult ==
  ASSUME NEW n \in Nat, NEW order \in [1..n -> Versions], Cardinality(DOMAIN order) = n
  PROVE  \E g : IsLoop(order, n, g) /\ GetLatestFor(order) = g[n]
  <1> DEFINE Body(f) == [i \in 0..n |->
                           IF i = 0 THEN None
                           ELSE IF order[i] \notin Wanted THEN f[i - 1]
                           ELSE IF f[i - 1] = None \/ order[i] > f[i - 1] THEN order[i]
                           ELSE f[i - 1]]
             latest == CHOOSE f : f = Body(f)
  <1>1. PICK g : IsLoop(order, n, g)
    BY LoopExists
  <1>2. g = Body(g)
    BY <1>1 DEF IsLoop, Later
  <1>3. latest = Body(latest)
    BY <1>2
  <1>4. GetLatestFor(order) = latest[n]
    BY DEF GetLatestFor
  <1>5. ASSUME NEW i \in 0..n
        PROVE  latest[i] = IF i = 0 THEN None
                           ELSE IF order[i] \notin Wanted THEN latest[i - 1]
                           ELSE IF latest[i - 1] = None \/ order[i] > latest[i - 1] THEN order[i]
                           ELSE latest[i - 1]
    <2> HIDE DEF latest
    <2> QED BY <1>3
  <1> HIDE DEF latest
  <1> DEFINE Bad == { i \in 0..n : latest[i] # g[i] }
  <1>6. Bad = {}
    <2>1. SUFFICES ASSUME Bad # {} PROVE FALSE
      OBVIOUS
    <2>2. PICK m \in Bad : \A k \in Bad : m <= k
      <3>1. Bad \in SUBSET Nat
        OBVIOUS
      <3> HIDE DEF Bad
      <3> QED BY <2>1, <3>1, LeastNumber
    <2>3. m \in 0..n /\ latest[m] # g[m]
      OBVIOUS
    <2>4. m # 0
      BY <1>1, <1>5, <2>3 DEF IsLoop
    <2>5. m - 1 \in 0..n /\ m - 1 < m
      BY <2>3, <2>4
    <2>6. latest[m - 1] = g[m - 1]
      BY <2>2, <2>5
    <2>7. g[m] = Later(order[m], g[m - 1])
      BY <1>1, <2>3, <2>4 DEF IsLoop
    <2> HIDE DEF Bad
    <2> QED BY <1>5, <2>3, <2>4, <2>6, <2>7 DEF Later
  <1>7. n \in 0..n
    OBVIOUS
  <1>8. latest[n] = g[n]
    BY <1>6, <1>7
  <1> QED BY <1>1, <1>4, <1>8

\* getLatestFor returns the newest fitting version of the set, in whatever order
\* Range meets its members, and nothing only if none fits.
LEMMA LatestFor ==
  ASSUME NEW S \in SUBSET Versions, NEW order \in Orders(S)
  PROVE  /\ S \cap Wanted = {} => GetLatestFor(order) = None
         /\ S \cap Wanted # {} =>
              /\ GetLatestFor(order) \in S \cap Wanted
              /\ \A v \in S \cap Wanted : v <= GetLatestFor(order)
  <1> DEFINE n == Cardinality(S)
  <1>1. n \in Nat
    BY ChartsAssumption, FS_Subset, FS_CardinalityType
  <1>2. order \in [1..n -> S] /\ \A v \in S : \E i \in 1..n : order[i] = v
    BY DEF Orders
  <1> HIDE DEF n
  <1>3. order \in [1..n -> Versions]
    BY <1>2
  <1>4. Cardinality(DOMAIN order) = n
    <2>1. DOMAIN order = 1..n
      BY <1>2
    <2>2. Cardinality(1..n) = n
      BY <1>1, FS_Interval
    <2> QED BY <2>1, <2>2
  <1>5. PICK g : IsLoop(order, n, g) /\ GetLatestFor(order) = g[n]
    BY <1>1, <1>3, <1>4, LoopResult
  <1> DEFINE Right(i) ==
        \/ g[i] = None /\ \A j \in 1..i : order[j] \notin Wanted
        \/ /\ g[i] \in Wanted
           /\ \E j \in 1..i : order[j] = g[i]
           /\ \A j \in 1..i : order[j] \in Wanted => order[j] <= g[i]
      Bad == { i \in 0..n : ~Right(i) }
  <1>6. Right(0)
    BY <1>1, <1>5 DEF IsLoop
  <1>7. ASSUME NEW m \in 1..n, Right(m - 1) PROVE Right(m)
    <2>1. m \in Nat /\ m - 1 \in Nat /\ m \in 0..n /\ m # 0 /\ order[m] \in Versions
      BY <1>1, <1>3
    <2>2. g[m] = Later(order[m], g[m - 1])
      BY <1>5, <2>1 DEF IsLoop
    <2>3. \A j \in 1..m : j = m \/ j \in 1..(m - 1)
      BY <2>1
    <2>4. 1..(m - 1) \subseteq 1..m /\ m \in 1..m
      BY <2>1
    <2>5. \A j \in 1..m : order[j] \in Nat
      <3>1. \A j \in 1..m : j \in 1..n
        BY <1>1, <2>1
      <3> QED BY ChartsAssumption, <1>3, <3>1
    <2>6. CASE order[m] \notin Wanted
      BY <1>7, <2>2, <2>3, <2>4, <2>6 DEF Later
    <2>7. CASE order[m] \in Wanted /\ g[m - 1] = None
      <3>1. g[m] = order[m]
        BY <2>2, <2>7 DEF Later
      <3>2. \A j \in 1..(m - 1) : order[j] \notin Wanted
        BY ChartsAssumption, <1>7, <2>7
      <3>3. \A j \in 1..m : order[j] \in Wanted => order[j] <= order[m]
        BY <2>3, <2>4, <2>5, <3>2
      <3> QED BY <2>4, <2>7, <3>1, <3>3
    <2>8. CASE order[m] \in Wanted /\ g[m - 1] # None
      <3>1. /\ g[m - 1] \in Wanted
            /\ \E j \in 1..(m - 1) : order[j] = g[m - 1]
            /\ \A j \in 1..(m - 1) : order[j] \in Wanted => order[j] <= g[m - 1]
        BY <1>7, <2>8
      <3>2. g[m - 1] \in Nat
        BY ChartsAssumption, <3>1
      <3>3. CASE order[m] > g[m - 1]
        <4>1. g[m] = order[m]
          BY <2>2, <2>8, <3>3 DEF Later
        <4>2. \A j \in 1..m : order[j] \in Wanted => order[j] <= order[m]
          BY <2>3, <2>4, <2>5, <3>1, <3>2, <3>3
        <4> QED BY <2>4, <2>8, <4>1, <4>2
      <3>4. CASE ~(order[m] > g[m - 1])
        <4>1. g[m] = g[m - 1]
          BY <2>2, <2>8, <3>4 DEF Later
        <4>2. \A j \in 1..m : order[j] \in Wanted => order[j] <= g[m - 1]
          BY <2>3, <2>4, <2>5, <3>1, <3>2, <3>4
        <4> QED BY <2>4, <3>1, <4>1, <4>2
      <3> QED BY <3>3, <3>4
    <2> QED BY <2>6, <2>7, <2>8
  <1>8. Right(n)
    <2>1. SUFFICES ASSUME Bad # {} PROVE FALSE
      BY <1>1
    <2>2. PICK m \in Bad : \A k \in Bad : m <= k
      <3>1. Bad \in SUBSET Nat
        BY <1>1
      <3> HIDE DEF Bad
      <3> QED BY <2>1, <3>1, LeastNumber
    <2> HIDE DEF Right
    <2>3. m \in 0..n /\ ~Right(m)
      OBVIOUS
    <2>4. m # 0
      BY <1>6, <2>3
    <2>5. m \in 1..n /\ m - 1 \in 0..n /\ m - 1 < m
      BY <1>1, <2>3, <2>4
    <2>6. Right(m - 1)
      BY <1>1, <2>2, <2>5
    <2> QED BY <1>7, <2>3, <2>5, <2>6
  <1> HIDE DEF Bad
  <1>9. CASE g[n] = None /\ \A j \in 1..n : order[j] \notin Wanted
    <2>1. S \cap Wanted = {}
      BY <1>2, <1>9
    <2> QED BY <1>5, <1>9, <2>1
  <1>10. CASE /\ g[n] \in Wanted
              /\ \E j \in 1..n : order[j] = g[n]
              /\ \A j \in 1..n : order[j] \in Wanted => order[j] <= g[n]
    BY <1>2, <1>5, <1>10
  <1>11. \/ g[n] = None /\ \A j \in 1..n : order[j] \notin Wanted
         \/ /\ g[n] \in Wanted
            /\ \E j \in 1..n : order[j] = g[n]
            /\ \A j \in 1..n : order[j] \in Wanted => order[j] <= g[n]
    BY <1>8
  <1> HIDE DEF Right
  <1> QED BY <1>9, <1>10, <1>11

-----------------------------------------------------------------------------
(***************************************************************************)
(* The inductive invariant.                                                *)
(***************************************************************************)

\* What the states of a goroutine mean for what it holds.
Places ==
  /\ \A f \in Goroutines : go[f].pc \in {"look", "fetch", "add", "resolve"} => go[f].object # None
  /\ \A f \in Goroutines : go[f].pc = "pull" => registry # None
  /\ go[Syncer].pc \in {"idle", "fetch", "add"}

\* Someone is adding versions to the object o.
Filling(o) == \E f \in Goroutines : go[f].pc = "add" /\ go[f].object = o

\* Whoever fills an object adds what it lacks of the versions published from the
\* start, and only while it is being filled does a non-empty object lack some.
Filled ==
  /\ Initial \subseteq published
  /\ \A f \in Goroutines : go[f].pc = "add" => Initial \subseteq content[go[f].object] \cup go[f].todo
  /\ \A o \in Clients : content[o] # {} => (Initial \subseteq content[o] \/ Filling(o))
  /\ \A f \in Goroutines : go[f].pc = "resolve" /\ faults = 0 => content[go[f].object] # {}

\* As long as no object is replaced everyone uses the registered one, and it has
\* the versions that were answers.
OneObject ==
  ~replaced =>
    /\ \A f \in Goroutines : go[f].object \in {None, registry}
    /\ \A c \in Clients : result[c] \in Versions => registry # None /\ result[c] \in content[registry]

IInv ==
  /\ TypeOK
  /\ faults \in Nat
  /\ Places
  /\ Filled
  /\ OneObject
  /\ BehindOnlyWhenHurried
  /\ AnswerUnlessFailed

\* What a goroutine may be.
Runs == [pc : {"idle", "create", "pull", "look", "fetch", "add", "resolve"},
         object : Clients \cup {None}, todo : SUBSET Versions]

\* What a step of goroutine f changes of the goroutines.
Moves(f, pc, object, todo) ==
  /\ go' \in [Goroutines -> Runs]
  /\ go'[f].pc = pc /\ go'[f].object = object /\ go'[f].todo = todo
  /\ \A h \in Goroutines : h # f => go'[h] = go[h]

\* The versions are never forgotten, so a client that goes from one place to
\* another without touching anything keeps the invariant if the place fits.
LEMMA MoveInvariant ==
  ASSUME IInv, NEW c \in Goroutines, NEW pc, NEW object,
         Moves(c, pc, object, go[c].todo),
         UNCHANGED <<published, registry, content, result, faults, replaced, hurried>>,
         go[c].pc # "add", pc # "add",
         pc \in {"look", "fetch", "resolve"} => object # None,
         pc = "pull" => registry # None,
         c = Syncer => pc \in {"idle", "fetch"},
         object \in {go[c].object, registry},
         pc = "resolve" /\ faults = 0 => content[object] # {}
  PROVE  IInv'
  <1>1. TypeOK'
    BY DEF IInv, TypeOK, Moves, Runs
  <1>2. Places'
    BY DEF IInv, Places, Moves, Goroutines
  <1>3. \A o : Filling(o)' <=> Filling(o)
    BY DEF Filling, Moves
  <1>4. Filled'
    <2>1. (Initial \subseteq published)'
      BY DEF IInv, Filled
    <2>2. \A f \in Goroutines : go'[f].pc = "add" => Initial \subseteq content'[go'[f].object] \cup go'[f].todo
      BY DEF IInv, Filled, Moves
    <2>3. \A o \in Clients : content'[o] # {} => (Initial \subseteq content'[o] \/ Filling(o)')
      BY <1>3 DEF IInv, Filled
    <2>4. \A f \in Goroutines : go'[f].pc = "resolve" /\ faults' = 0 => content'[go'[f].object] # {}
      BY DEF IInv, Filled, Moves
    <2> QED BY <2>1, <2>2, <2>3, <2>4 DEF Filled
  <1>5. OneObject'
    BY DEF IInv, OneObject, Moves
  <1>6. BehindOnlyWhenHurried' /\ AnswerUnlessFailed' /\ faults' \in Nat
    BY DEF IInv, BehindOnlyWhenHurried, Behind, AnswerUnlessFailed
  <1> QED BY <1>1, <1>2, <1>4, <1>5, <1>6 DEF IInv

\* Init
LEMMA InitInvariant == Init => IInv
  <1> SUFFICES ASSUME Init PROVE IInv
    OBVIOUS
  <1> USE ChartsAssumption DEF Init
  <1>1. TypeOK /\ faults \in Nat
    BY DEF TypeOK, Goroutines
  <1>2. Places
    BY DEF Places, Goroutines
  <1>3. Filled
    BY DEF Filled, Goroutines
  <1>4. OneObject
    BY DEF OneObject, Goroutines
  <1>5. BehindOnlyWhenHurried /\ AnswerUnlessFailed
    BY DEF BehindOnlyWhenHurried, Behind, AnswerUnlessFailed
  <1> QED BY <1>1, <1>2, <1>3, <1>4, <1>5 DEF IInv

\* Register
LEMMA RegisterInvariant == ASSUME IInv, NEW c \in Clients, Register(c) PROVE IInv'
  <1> DEFINE pc == IF registry = None THEN "create" ELSE "pull"
  <1>1. Moves(c, pc, go[c].object, go[c].todo)
    BY DEF IInv, TypeOK, Register, Moves, Runs, Goroutines
  <1>2. c \in Goroutines /\ c # Syncer
    BY ChartsAssumption DEF Goroutines
  <1>3. pc = "create" \/ (pc = "pull" /\ registry # None)
    OBVIOUS
  <1> HIDE DEF pc
  <1> QED BY <1>1, <1>2, <1>3, MoveInvariant DEF Register

\* Pull
LEMMA PullInvariant == ASSUME IInv, NEW c \in Clients, Pull(c) PROVE IInv'
  <1>1. Moves(c, "look", registry, go[c].todo)
    BY DEF IInv, TypeOK, Pull, Moves, Runs, Goroutines
  <1>2. c \in Goroutines /\ c # Syncer /\ registry # None
    BY ChartsAssumption DEF Goroutines, IInv, Places, Pull
  <1> QED BY <1>1, <1>2, MoveInvariant DEF Pull

\* Look
LEMMA LookInvariant == ASSUME IInv, NEW c \in Clients, Look(c) PROVE IInv'
  <1> DEFINE pc == IF content[go[c].object] = {} THEN "fetch" ELSE "resolve"
  <1>1. Moves(c, pc, go[c].object, go[c].todo)
    BY DEF IInv, TypeOK, Look, Moves, Runs, Goroutines
  <1>2. c \in Goroutines /\ c # Syncer /\ go[c].object # None
    BY ChartsAssumption DEF Goroutines, IInv, Places, Look
  <1>3. pc = "fetch" \/ (pc = "resolve" /\ content[go[c].object] # {})
    OBVIOUS
  <1> HIDE DEF pc
  <1> QED BY <1>1, <1>2, <1>3, MoveInvariant DEF Look

\* RunSyncCycle
LEMMA CycleInvariant == ASSUME IInv, RunSyncCycle PROVE IInv'
  <1>1. Moves(Syncer, "fetch", registry, go[Syncer].todo)
    BY DEF IInv, TypeOK, RunSyncCycle, Moves, Runs, Goroutines
  <1>2. Syncer \in Goroutines /\ registry # None
    BY DEF Goroutines, RunSyncCycle
  <1> QED BY <1>1, <1>2, MoveInvariant DEF RunSyncCycle

\* Publish
LEMMA PublishInvariant == ASSUME IInv, NEW v \in Versions, Publish(v) PROVE IInv'
  <1>1. TypeOK'
    BY DEF IInv, TypeOK, Publish
  <1>2. Places' /\ OneObject' /\ faults' \in Nat
    BY DEF IInv, Places, OneObject, Publish
  <1>3. Filled'
    BY DEF IInv, Filled, Filling, Publish
  <1>4. BehindOnlyWhenHurried' /\ AnswerUnlessFailed'
    BY DEF IInv, BehindOnlyWhenHurried, Behind, AnswerUnlessFailed, Publish
  <1> QED BY <1>1, <1>2, <1>3, <1>4 DEF IInv

\* Create
LEMMA CreateInvariant == ASSUME IInv, NEW c \in Clients, Create(c) PROVE IInv'
  <1>1. c \in Goroutines /\ c # Syncer /\ c # None /\ go[c].pc = "create"
    BY ChartsAssumption DEF Goroutines, Create
  <1>2. CASE /\ registry' = c
             /\ replaced' = (replaced \/ registry # None)
             /\ go' = [go EXCEPT ![c].pc = "pull"]
             /\ UNCHANGED <<result, faults, published, content, hurried>>
    <2>1. Moves(c, "pull", go[c].object, go[c].todo)
      BY <1>1, <1>2 DEF IInv, TypeOK, Moves, Runs, Goroutines
    <2>2. TypeOK' /\ faults' \in Nat
      BY <1>1, <1>2, <2>1 DEF IInv, TypeOK, Moves, Runs
    <2>3. Places'
      BY <1>1, <1>2, <2>1 DEF IInv, Places, Moves
    <2>4. \A o : Filling(o)' <=> Filling(o)
      BY <1>1, <2>1 DEF Filling, Moves
    <2>5. Filled'
      <3>1. \A f \in Goroutines :
              go'[f].pc = "add" => Initial \subseteq content'[go'[f].object] \cup go'[f].todo
        BY <1>1, <1>2, <2>1 DEF IInv, Filled, Moves
      <3>2. \A f \in Goroutines : go'[f].pc = "resolve" /\ faults' = 0 => content'[go'[f].object] # {}
        BY <1>1, <1>2, <2>1 DEF IInv, Filled, Moves
      <3> QED BY <1>2, <2>4, <3>1, <3>2 DEF IInv, Filled
    <2>6. OneObject'
      <3>1. SUFFICES ASSUME ~replaced' PROVE OneObject'
        BY DEF OneObject
      <3>2. ~replaced /\ registry = None
        BY <1>2, <3>1
      <3>3. \A f \in Goroutines : go'[f].object = None
        BY <1>1, <2>1, <3>2 DEF IInv, OneObject, Moves
      <3>4. \A d \in Clients : result'[d] \notin Versions
        BY <1>2, <3>2 DEF IInv, OneObject
      <3> QED BY <3>3, <3>4 DEF OneObject
    <2>7. BehindOnlyWhenHurried' /\ AnswerUnlessFailed'
      BY <1>2 DEF IInv, BehindOnlyWhenHurried, Behind, AnswerUnlessFailed
    <2> QED BY <2>2, <2>3, <2>5, <2>6, <2>7 DEF IInv
  <1>3. CASE /\ Fault
             /\ result' = [result EXCEPT ![c] = Nil]
             /\ go' = [go EXCEPT ![c].pc = "idle"]
             /\ UNCHANGED <<registry, replaced, published, content, hurried>>
    <2>1. Moves(c, "idle", go[c].object, go[c].todo)
      BY <1>1, <1>3 DEF IInv, TypeOK, Moves, Runs, Goroutines
    <2>2. faults' \in Nat /\ faults' > 0
      BY <1>3 DEF IInv, Fault
    <2>3. TypeOK'
      BY <1>1, <1>3, <2>1 DEF IInv, TypeOK, Moves, Runs
    <2>4. Places'
      BY <1>1, <1>3, <2>1 DEF IInv, Places, Moves
    <2>5. \A o : Filling(o)' <=> Filling(o)
      BY <1>1, <2>1 DEF Filling, Moves
    <2>6. Filled'
      <3>1. \A f \in Goroutines :
              go'[f].pc = "add" => Initial \subseteq content'[go'[f].object] \cup go'[f].todo
        BY <1>1, <1>3, <2>1 DEF IInv, Filled, Moves
      <3> QED BY <1>3, <2>2, <2>5, <3>1 DEF IInv, Filled
    <2>7. OneObject'
      <3>1. \A d \in Clients : d = c \/ result'[d] = result[d]
        BY <1>3 DEF IInv, TypeOK
      <3>2. result'[c] \notin Versions
        BY <1>3, ChartsAssumption DEF IInv, TypeOK
      <3> QED BY <1>1, <1>3, <2>1, <3>1, <3>2 DEF IInv, OneObject, Moves
    <2>8. BehindOnlyWhenHurried'
      BY <1>3, ChartsAssumption DEF IInv, TypeOK, BehindOnlyWhenHurried, Behind
    <2>9. AnswerUnlessFailed'
      BY <2>2 DEF AnswerUnlessFailed
    <2> QED BY <2>2, <2>3, <2>4, <2>6, <2>7, <2>8, <2>9 DEF IInv
  <1> QED BY <1>2, <1>3 DEF Create

\* Fetch
LEMMA FetchInvariant == ASSUME IInv, NEW f \in Goroutines, Fetch(f) PROVE IInv'
  <1> DEFINE o == go[f].object
             new == published \ content[o]
             Rest == UNCHANGED <<published, registry, content, result, replaced, hurried>>
  <1>1. /\ go[f].pc = "fetch" /\ o \in Clients /\ content[o] \subseteq Versions
        /\ new \subseteq Versions
    BY DEF Fetch, IInv, TypeOK, Places
  <1>2. /\ AfterUpdate(f) \in {"idle", "resolve"}
        /\ f = Syncer => AfterUpdate(f) = "idle"
    BY DEF AfterUpdate
  <1>3. CASE Fault /\ go' = [go EXCEPT ![f].pc = AfterUpdate(f)] /\ Rest
    <2>1. Moves(f, AfterUpdate(f), o, go[f].todo)
      BY <1>1, <1>2, <1>3 DEF IInv, TypeOK, Moves, Runs
    <2>2. faults' \in Nat /\ faults' > 0
      BY <1>3 DEF IInv, Fault
    <2> HIDE DEF o
    <2>3. TypeOK'
      BY <1>3, <2>1 DEF IInv, TypeOK, Moves, Runs
    <2>4. Places'
      BY <1>1, <1>2, <1>3, <2>1, ChartsAssumption DEF IInv, Places, Moves, Goroutines
    <2>5. \A p : Filling(p)' <=> Filling(p)
      BY <1>1, <1>2, <2>1 DEF Filling, Moves
    <2>6. Filled'
      <3>1. \A h \in Goroutines :
              go'[h].pc = "add" => Initial \subseteq content'[go'[h].object] \cup go'[h].todo
        BY <1>2, <1>3, <2>1 DEF IInv, Filled, Moves
      <3> QED BY <1>3, <2>2, <2>5, <3>1 DEF IInv, Filled
    <2>7. OneObject'
      BY <1>3, <2>1 DEF IInv, OneObject, Moves, o
    <2>8. BehindOnlyWhenHurried'
      BY <1>3 DEF IInv, BehindOnlyWhenHurried, Behind
    <2>9. AnswerUnlessFailed'
      BY <2>2 DEF AnswerUnlessFailed
    <2> QED BY <2>2, <2>3, <2>4, <2>6, <2>7, <2>8, <2>9 DEF IInv
  <1>4. CASE /\ go' = [go EXCEPT ![f].pc = IF new = {} THEN AfterUpdate(f) ELSE "add",
                                 ![f].todo = new]
             /\ UNCHANGED faults
             /\ Rest
    <2> DEFINE pc == IF new = {} THEN AfterUpdate(f) ELSE "add"
    <2>1. Moves(f, pc, o, new)
      <3>1. pc \in {"idle", "resolve", "add"}
        BY <1>2
      <3>2. go' = [go EXCEPT ![f].pc = pc, ![f].todo = new]
        BY <1>4
      <3> HIDE DEF pc, new
      <3> QED BY <1>1, <3>1, <3>2 DEF IInv, TypeOK, Moves, Runs
    <2>2. pc # "add" => new = {} /\ pc \in {"idle", "resolve"} /\ (f = Syncer => pc = "idle")
      BY <1>2
    <2>3. pc \in {"idle", "resolve", "add"} /\ o # None
      BY <1>1, <1>2, ChartsAssumption
    <2>4. Initial \subseteq content[o] \cup new
      BY DEF IInv, Filled
    <2> HIDE DEF o, new, pc
    <2>5. TypeOK' /\ faults' \in Nat
      BY <1>4, <2>1 DEF IInv, TypeOK, Moves, Runs
    <2>6. Places'
      BY <1>4, <2>1, <2>2, <2>3 DEF IInv, Places, Moves, Goroutines
    <2>7. \A p : Filling(p) => Filling(p)'
      BY <1>1, <2>1 DEF Filling, Moves
    <2>8. Filled'
      <3>1. \A h \in Goroutines :
              go'[h].pc = "add" => Initial \subseteq content'[go'[h].object] \cup go'[h].todo
        BY <1>4, <2>1, <2>4 DEF IInv, Filled, Moves
      <3>2. \A p \in Clients : content'[p] # {} => (Initial \subseteq content'[p] \/ Filling(p)')
        BY <1>4, <2>7 DEF IInv, Filled
      <3>3. \A h \in Goroutines : go'[h].pc = "resolve" /\ faults' = 0 => content'[go'[h].object] # {}
        BY <1>4, <2>1, <2>2, <2>4, ChartsAssumption DEF IInv, Filled, Moves
      <3> QED BY <1>4, <3>1, <3>2, <3>3 DEF IInv, Filled
    <2>9. OneObject'
      BY <1>4, <2>1 DEF IInv, OneObject, Moves, o
    <2>10. BehindOnlyWhenHurried' /\ AnswerUnlessFailed'
      BY <1>4 DEF IInv, BehindOnlyWhenHurried, Behind, AnswerUnlessFailed
    <2> QED BY <2>5, <2>6, <2>8, <2>9, <2>10 DEF IInv
  <1> QED BY <1>3, <1>4 DEF Fetch

\* Add
LEMMA AddInvariant ==
  ASSUME IInv, NEW f \in Goroutines, NEW v \in Versions, Add(f, v)
  PROVE  IInv'
  <1> DEFINE o == go[f].object
             pc == IF go[f].todo = {v} THEN AfterUpdate(f) ELSE "add"
             left == go[f].todo \ {v}
  <1>1. /\ go[f].pc = "add" /\ v \in go[f].todo
        /\ o \in Clients /\ o # None
        /\ go[f].todo \subseteq Versions
    BY ChartsAssumption DEF Add, IInv, TypeOK, Places
  <1>2. /\ pc \in {"idle", "resolve", "add"}
        /\ pc # "add" => left = {} /\ (f = Syncer => pc = "idle")
    BY DEF AfterUpdate
  <1>3. content' = [content EXCEPT ![o] = @ \cup {v}]
    BY DEF Add
  <1>4. UNCHANGED <<published, registry, result, faults, replaced, hurried>>
    BY DEF Add
  <1>5. Moves(f, pc, o, left)
    <2>1. go' = [go EXCEPT ![f].todo = left, ![f].pc = pc]
      BY <1>1 DEF Add, IInv, TypeOK
    <2>2. left \subseteq Versions
      BY <1>1
    <2> HIDE DEF pc, left
    <2> QED BY <1>1, <1>2, <2>1, <2>2 DEF IInv, TypeOK, Moves, Runs
  <1>6. /\ content'[o] = content[o] \cup {v}
        /\ \A p \in Clients : p # o => content'[p] = content[p]
        /\ content' \in [Clients -> SUBSET Versions]
    BY <1>1, <1>3 DEF IInv, TypeOK
  <1>7. Initial \subseteq content'[o] \cup left
    BY <1>1, <1>6 DEF IInv, Filled
  <1>8. \A p \in Clients : content[p] \subseteq content'[p]
    BY <1>6
  <1>9. \A h \in Goroutines : go[h].object \in Clients \cup {None}
    BY DEF IInv, TypeOK
  <1> HIDE DEF o, pc, left
  <1>10. TypeOK' /\ faults' \in Nat
    BY <1>4, <1>5, <1>6 DEF IInv, TypeOK, Moves, Runs
  <1>11. Places'
    BY <1>1, <1>2, <1>4, <1>5 DEF IInv, Places, Moves, Goroutines
  <1>12. Filled'
    <2>1. \A h \in Goroutines :
            go'[h].pc = "add" => Initial \subseteq content'[go'[h].object] \cup go'[h].todo
      <3> SUFFICES ASSUME NEW h \in Goroutines, go'[h].pc = "add"
                   PROVE  Initial \subseteq content'[go'[h].object] \cup go'[h].todo
        OBVIOUS
      <3>1. CASE h = f
        BY <1>5, <1>7, <3>1 DEF Moves
      <3>2. CASE h # f
        <4>1. go'[h] = go[h] /\ go[h].object \in Clients
          BY <1>5, <1>9, <3>2 DEF Moves, IInv, Places
        <4> QED BY <1>8, <4>1 DEF IInv, Filled
      <3> QED BY <3>1, <3>2
    <2>2. \A p \in Clients : content'[p] # {} => (Initial \subseteq content'[p] \/ Filling(p)')
      <3> SUFFICES ASSUME NEW p \in Clients, content'[p] # {}
                   PROVE  Initial \subseteq content'[p] \/ Filling(p)'
        OBVIOUS
      <3>1. CASE p = o /\ pc = "add"
        BY <1>5, <3>1 DEF Filling, Moves
      <3>2. CASE p = o /\ pc # "add"
        BY <1>2, <1>7, <3>2
      <3>3. CASE p # o
        <4>1. content'[p] = content[p]
          BY <1>6, <3>3
        <4>2. Initial \subseteq content[p] \/ Filling(p)
          BY <4>1 DEF IInv, Filled
        <4>3. Filling(p) => Filling(p)'
          BY <1>5, <3>3 DEF Filling, Moves, o
        <4> QED BY <4>1, <4>2, <4>3
      <3> QED BY <3>1, <3>2, <3>3
    <2>3. \A h \in Goroutines : go'[h].pc = "resolve" /\ faults' = 0 => content'[go'[h].object] # {}
      <3> SUFFICES ASSUME NEW h \in Goroutines, go'[h].pc = "resolve", faults' = 0
                   PROVE  content'[go'[h].object] # {}
        OBVIOUS
      <3>1. CASE h = f
        BY <1>5, <1>6, <3>1 DEF Moves
      <3>2. CASE h # f
        <4>1. go'[h] = go[h] /\ go[h].object \in Clients
          BY <1>5, <1>9, <3>2 DEF Moves, IInv, Places
        <4> QED BY <1>4, <1>8, <4>1 DEF IInv, Filled
      <3> QED BY <3>1, <3>2
    <2> QED BY <1>4, <2>1, <2>2, <2>3 DEF IInv, Filled
  <1>13. OneObject'
    <2> SUFFICES ASSUME ~replaced' PROVE OneObject'
      BY DEF OneObject
    <2>1. \A h \in Goroutines : go'[h].object = go[h].object
      BY <1>5 DEF Moves, o
    <2>2. registry # None => registry \in Clients
      BY DEF IInv, TypeOK
    <2> QED BY <1>4, <1>8, <2>1, <2>2 DEF IInv, OneObject
  <1>14. BehindOnlyWhenHurried' /\ AnswerUnlessFailed'
    BY <1>4 DEF IInv, BehindOnlyWhenHurried, Behind, AnswerUnlessFailed
  <1> QED BY <1>10, <1>11, <1>12, <1>13, <1>14 DEF IInv

\* What Resolve answers: the newest fitting version of the object.
LEMMA ResolveResult ==
  ASSUME IInv, NEW c \in Clients, Resolve(c)
  PROVE  LET o == go[c].object
         IN  /\ o \in Clients
             /\ \A d \in Clients : d # c => result'[d] = result[d]
             /\ result' \in [Clients -> Wanted \cup {None, Nil}]
             /\ content[o] \cap Wanted = {} => result'[c] = Nil
             /\ content[o] \cap Wanted # {} =>
                  /\ result'[c] \in content[o] \cap Wanted
                  /\ \A v \in content[o] \cap Wanted : v <= result'[c]
  <1> DEFINE o == go[c].object
  <1>1. o \in Clients /\ content[o] \in SUBSET Versions
    BY DEF IInv, TypeOK, Places, Resolve, Goroutines
  <1>2. PICK order \in Orders(content[o]) :
          result' = [result EXCEPT ![c] = IF GetLatestFor(order) = None THEN Nil
                                          ELSE GetLatestFor(order)]
    BY DEF Resolve
  <1>3. result'[c] = IF GetLatestFor(order) = None THEN Nil ELSE GetLatestFor(order)
    BY <1>2 DEF IInv, TypeOK
  <1>4. \A d \in Clients : d # c => result'[d] = result[d]
    BY <1>2 DEF IInv, TypeOK
  <1>5. /\ content[o] \cap Wanted = {} => GetLatestFor(order) = None
        /\ content[o] \cap Wanted # {} =>
             /\ GetLatestFor(order) \in content[o] \cap Wanted
             /\ \A v \in content[o] \cap Wanted : v <= GetLatestFor(order)
    <2> HIDE DEF o
    <2> QED BY <1>1, LatestFor
  <1> HIDE DEF o
  <1>6. None \notin Wanted
    BY ChartsAssumption
  <1>7. /\ content[o] \cap Wanted = {} => result'[c] = Nil
        /\ content[o] \cap Wanted # {} =>
             /\ result'[c] \in content[o] \cap Wanted
             /\ \A v \in content[o] \cap Wanted : v <= result'[c]
    BY <1>3, <1>5, <1>6
  <1>8. result'[c] \in Wanted \cup {None, Nil}
    BY <1>7
  <1>9. result' \in [Clients -> Wanted \cup {None, Nil}]
    BY <1>2, <1>3, <1>8 DEF IInv, TypeOK
  <1> QED BY <1>1, <1>4, <1>7, <1>9 DEF o

\* Resolve
LEMMA ResolveInvariant == ASSUME IInv, NEW c \in Clients, Resolve(c) PROVE IInv'
  <1> DEFINE o == go[c].object
  <1>1. go[c].pc = "resolve" /\ c \in Goroutines /\ c # Syncer
    BY ChartsAssumption DEF Resolve, Goroutines
  <1>2. UNCHANGED <<published, registry, content, faults, replaced>>
    BY DEF Resolve
  <1>3. Moves(c, "idle", None, go[c].todo)
    <2>1. go \in [Goroutines -> Runs]
      BY DEF IInv, TypeOK, Runs
    <2>2. go' = [go EXCEPT ![c].pc = "idle", ![c].object = None]
      BY DEF Resolve
    <2> QED BY <1>1, <2>1, <2>2 DEF Moves, Runs
  <1>4. /\ o \in Clients
        /\ \A d \in Clients : d # c => result'[d] = result[d]
        /\ result' \in [Clients -> Wanted \cup {None, Nil}]
        /\ content[o] \cap Wanted = {} => result'[c] = Nil
        /\ content[o] \cap Wanted # {} =>
             /\ result'[c] \in content[o] \cap Wanted
             /\ \A v \in content[o] \cap Wanted : v <= result'[c]
    BY ResolveResult
  <1>5. /\ hurried \subseteq hurried'
        /\ Filling(o) => c \in hurried'
    BY <1>1 DEF Resolve, Filling
  <1>6. content[o] = {} => faults > 0
    BY <1>1 DEF IInv, Filled
  <1>7. \/ content[o] = {}
        \/ c \in hurried'
        \/ Initial \subseteq content[o]
    BY <1>4, <1>5 DEF IInv, Filled
  <1>8. Nil \notin Versions /\ Versions \subseteq Nat /\ Wanted \subseteq Versions
    BY ChartsAssumption
  <1>9. TypeOK' /\ faults' \in Nat
    BY <1>2, <1>3, <1>4 DEF IInv, TypeOK, Moves, Runs
  <1>10. Places'
    BY <1>1, <1>2, <1>3 DEF IInv, Places, Moves, Goroutines
  <1>11. Filled'
    <2>1. \A p : Filling(p)' <=> Filling(p)
      BY <1>1, <1>3 DEF Filling, Moves
    <2>2. \A h \in Goroutines :
            go'[h].pc = "add" => Initial \subseteq content'[go'[h].object] \cup go'[h].todo
      BY <1>2, <1>3 DEF IInv, Filled, Moves
    <2>3. \A h \in Goroutines : go'[h].pc = "resolve" /\ faults' = 0 => content'[go'[h].object] # {}
      BY <1>2, <1>3 DEF IInv, Filled, Moves
    <2> QED BY <1>2, <2>1, <2>2, <2>3 DEF IInv, Filled
  <1>12. OneObject'
    <2> SUFFICES ASSUME ~replaced' PROVE OneObject'
      BY DEF OneObject
    <2>1. \A f \in Goroutines : go'[f].object \in {None, registry'}
      BY <1>2, <1>3 DEF IInv, OneObject, Moves
    <2>2. o = registry /\ o # None
      BY <1>1, <1>2, <1>4, ChartsAssumption DEF IInv, OneObject
    <2> HIDE DEF o
    <2>3. result'[c] \in Versions => result'[c] \in content[o]
      BY <1>4, <1>8
    <2> QED BY <1>2, <1>4, <2>1, <2>2, <2>3 DEF IInv, OneObject
  <1> HIDE DEF o
  <1>13. BehindOnlyWhenHurried'
    <2> SUFFICES ASSUME NEW d \in Clients, Behind(d)' PROVE d \in hurried'
      BY DEF BehindOnlyWhenHurried
    <2>1. CASE d # c
      BY <1>4, <1>5, <2>1 DEF IInv, BehindOnlyWhenHurried, Behind
    <2>2. CASE d = c
      <3>1. result'[c] \in Versions
        BY <2>2 DEF Behind
      <3>2. PICK v \in Initial \cap Wanted : v > result'[c]
        BY <2>2 DEF Behind
      <3>3. result'[c] \in Nat /\ v \in Nat
        BY <1>8, <3>1
      <3>4. ~(v <= result'[c])
        BY <3>2, <3>3
      <3>5. content[o] # {} /\ ~(Initial \subseteq content[o])
        BY <1>4, <1>8, <3>1, <3>4
      <3> QED BY <1>7, <2>2, <3>5
    <2> QED BY <2>1, <2>2
  <1>14. AnswerUnlessFailed'
    <2> SUFFICES ASSUME NEW d \in Clients, result'[d] = Nil PROVE faults' > 0 \/ d \in hurried'
      BY DEF AnswerUnlessFailed
    <2>1. CASE d # c
      BY <1>2, <1>4, <1>5, <2>1 DEF IInv, AnswerUnlessFailed
    <2>2. CASE d = c
      <3>1. content[o] \cap Wanted = {}
        BY <1>4, <1>8, <2>2
      <3>2. ~(Initial \subseteq content[o])
        BY <3>1, ChartsAssumption
      <3> QED BY <1>2, <1>6, <1>7, <2>2, <3>2
    <2> QED BY <2>1, <2>2
  <1> QED BY <1>9, <1>10, <1>11, <1>12, <1>13, <1>14 DEF IInv

\* A step that changes nothing.
LEMMA StutterInvariant == ASSUME IInv, UNCHANGED vars PROVE IInv'
  <1> USE DEF vars
  <1>1. TypeOK' /\ Places' /\ OneObject' /\ faults' \in Nat
    BY DEF IInv, TypeOK, Places, OneObject
  <1>2. Filled'
    BY DEF IInv, Filled, Filling
  <1>3. BehindOnlyWhenHurried' /\ AnswerUnlessFailed'
    BY DEF IInv, BehindOnlyWhenHurried, Behind, AnswerUnlessFailed
  <1> QED BY <1>1, <1>2, <1>3 DEF IInv

-----------------------------------------------------------------------------
(***************************************************************************)
(* The theorems.                                                           *)
(***************************************************************************)

\* Every step of the clients, of the synchronization and of the repository keeps
\* the invariant.
THEOREM Invariance == Spec => []IInv
  <1>1. IInv /\ [Next]_vars => IInv'
    <2> SUFFICES ASSUME IInv, [Next]_vars PROVE IInv'
      OBVIOUS
    <2>1. ASSUME NEW c \in Clients, ClientStep(c) PROVE IInv'
      <3>1. c \in Goroutines
        BY DEF Goroutines
      <3> QED BY <2>1, <3>1, RegisterInvariant, CreateInvariant, PullInvariant, LookInvariant,
                 ResolveInvariant, FetchInvariant, AddInvariant DEF ClientStep, Update
    <2>2. CASE SyncStep
      <3>1. Syncer \in Goroutines
        BY DEF Goroutines
      <3> QED BY <2>2, <3>1, CycleInvariant, FetchInvariant, AddInvariant DEF SyncStep, Update
    <2>3. ASSUME NEW v \in Versions, Publish(v) PROVE IInv'
      BY <2>3, PublishInvariant
    <2>4. CASE UNCHANGED vars
      BY <2>4, StutterInvariant
    <2> QED BY <2>1, <2>2, <2>3, <2>4 DEF Next
  <1> QED BY <1>1, InitInvariant, PTL DEF Spec

\* The fields of ChartVersions, of the registry and of the answers of
\* DetermineTargetVersion have their types; an answer is a fitting version.
THEOREM TypeCorrect == Spec => []TypeOK
  <1>1. IInv => TypeOK
    BY DEF IInv
  <1> QED BY <1>1, Invariance, PTL

\* pullVersion: for any number of clients, an answer that misses a fitting
\* version published from the start was given while the object was being filled.
THEOREM BehindExplained == Spec => []BehindOnlyWhenHurried
  <1>1. IInv => BehindOnlyWhenHurried
    BY DEF IInv
  <1> QED BY <1>1, Invariance, PTL

\* DetermineTargetVersion: for any number of clients, one that gets no version
\* met a failure of the repository or a half-filled object.
THEOREM NilExplained == Spec => []AnswerUnlessFailed
  <1>1. IInv => AnswerUnlessFailed
    BY DEF IInv
  <1> QED BY <1>1, Invariance, PTL

\* UpdateVersions only adds, and getLatestFor takes the newest: as long as no
\* object was replaced, no client's answer goes back.
THEOREM NeverBack == Spec => ForwardOnly
  <1> DEFINE Forward ==
        \A c \in Clients :
          result[c] \in Versions /\ result'[c] \in Versions /\ result'[c] < result[c] => replaced
  <1>1. IInv /\ [Next]_vars => [Forward]_vars
    <2> SUFFICES ASSUME IInv, Next, NEW c \in Clients, result[c] \in Versions,
                        result'[c] \in Versions, result'[c] < result[c], ~replaced
                 PROVE  FALSE
      OBVIOUS
    <2> HIDE DEF Forward
    <2> DEFINE old == result[c]
               new == result'[c]
    <2>1. /\ Nil \notin Versions /\ None \notin Versions /\ None \notin Clients
          /\ old \in Nat /\ new \in Nat /\ new < old
      BY ChartsAssumption
    <2>2. ~(old <= new) /\ old # new
      <3> HIDE DEF old, new
      <3> QED BY <2>1
    <2>3. result[c] \in Wanted /\ result'[c] # result[c]
      BY <2>1, <2>2 DEF IInv, TypeOK
    <2>4. PICK d \in Clients : Create(d) \/ Resolve(d)
      BY <2>3 DEF Next, ClientStep, SyncStep, Update, Register, Pull, Look, Fetch, Add,
                  RunSyncCycle, Publish
    <2>5. CASE Create(d)
      BY <2>1, <2>5 DEF Create, IInv, TypeOK
    <2>6. CASE Resolve(d)
      <3> DEFINE o == go[d].object
      <3>1. d = c
        BY <2>3, <2>6, ResolveResult
      <3>2. o \in Clients /\ d \in Goroutines
        BY <2>6, ResolveResult DEF Goroutines
      <3>3. o = registry
        BY <2>1, <3>2 DEF IInv, OneObject
      <3>4. result[c] \in content[o] \cap Wanted
        BY <2>3, <3>3 DEF IInv, OneObject
      <3>5. result[c] <= result'[c]
        BY <2>6, <3>1, <3>4, ResolveResult
      <3> QED BY <2>1, <3>5
    <2> QED BY <2>4, <2>5, <2>6
  <1> QED BY <1>1, Invariance, PTL DEF Spec, ForwardOnly
=============================================================================
