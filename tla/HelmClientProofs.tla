-------------------------- MODULE HelmClientProofs --------------------------
(***************************************************************************)
(* The helm client, for any repositories, goroutines, versions, charts and *)
(* number of events.                                                       *)
(***************************************************************************)
EXTENDS HelmClient, TLAPS, WellFoundedInduction, SequenceTheorems, FiniteSetTheorems

-----------------------------------------------------------------------------
(***************************************************************************)
(* The inductive invariant.                                                *)
(***************************************************************************)

Adding == {"add", "addTruncate", "addWrite"}

Fetching == {"download", "truncate", "write", "poll", "load"}

Syncing == {"next", "syncTruncate", "syncWrite"}

Steps == {"idle", "end", "locate", "scope"} \cup Adding \cup Fetching \cup Syncing

\* An index was read from the network and is not written yet.
Pending == {"addTruncate", "addWrite", "truncate", "write", "syncTruncate", "syncWrite"}

Calls == [op : {"add", "fetch", "template", "sync", None}, url : Urls \cup {None},
          version : Versions \cup {None}, pc : Steps, page : Pages \cup {None},
          left : 0..Attempts, todo : SUBSET Names, since : SUBSET Versions, alone : BOOLEAN]

Typed ==
  /\ repos \in [Names -> Urls \cup {None}]
  /\ index \in [Names -> Pages \cup {Empty, None}]
  /\ offered \in [Urls -> SUBSET Versions]
  /\ kinds \subseteq DOMAIN Scopes
  /\ used \subseteq Urls
  /\ call \in [Goroutines -> Calls]
  /\ DOMAIN answer = Goroutines

\* What is registered, and what is in an index file, belongs to a repository with
\* that name that was asked for; a registered repository has an index file.
FilesOK ==
  \A n \in Names :
    /\ repos[n] # None => repos[n] \in used /\ NameOf[repos[n]] = n /\ index[n] # None
    /\ index[n] \in Pages => index[n].url \in used /\ NameOf[index[n].url] = n

\* What a call holds at each of its steps.
PlaceOK(c) ==
  /\ c.pc \in Syncing => c.op = "sync"
  /\ c.pc \in Adding => c.op \in {"add", "fetch", "template"}
  /\ c.pc \in Fetching => c.op = "fetch"
  /\ c.pc \in {"locate", "scope"} => c.op = "template"
  /\ c.pc = "end" => c.op = "add"
  /\ c.pc = "add" => c.page = None
  /\ c.pc \notin {"idle", "next"} => c.url \in used
  /\ c.pc \in Pending => c.page \in Pages /\ c.page.url = c.url /\ c.since \subseteq c.page.versions
  /\ c.pc = "scope" => /\ c.page \in Pages /\ c.page.url \in used
                       /\ NameOf[c.page.url] = NameOf[c.url]
  /\ c.pc \in Adding \cup (Fetching \ {"load"}) => c.left # 0
  /\ c.pc \in {"poll", "load"} => index[NameOf[c.url]] # None
  /\ \A n \in c.todo : repos[n] # None

\* A call that is alone is the only one, and finds what it needs in the files.
Lone(g) == ~At(g, "idle") /\ call[g].alone

Single(g) == Lone(g) => \A h \in Goroutines : h # g => At(h, "idle")

LoneFiles(g) ==
  Lone(g) =>
    /\ call[g].pc \in {"poll", "load"} => index[Name(g)] # Empty
    /\ call[g].pc = "locate" =>
         /\ repos[Name(g)] # None
         /\ call[g].page # None =>
              /\ repos[Name(g)] = call[g].url /\ index[Name(g)] = call[g].page
              /\ call[g].page.url = call[g].url /\ call[g].since \subseteq call[g].page.versions

\* What a call must find is offered, is in the index file it is going to load, and is
\* in every index of its repository still to be written.
Bound(g) == ~At(g, "idle") /\ call[g].op # "sync"

SinceOffered(g) == Bound(g) => call[g].since \subseteq offered[call[g].url]

SinceFile(g) ==
  Bound(g) /\ call[g].pc \in {"poll", "load"} /\ index[Name(g)].url = call[g].url
    => call[g].since \subseteq index[Name(g)].versions

SincePage(g, o) ==
  Bound(g) /\ call[o].pc \in Pending /\ call[o].page.url = call[g].url
    => call[g].since \subseteq call[o].page.versions

CallOK(g) ==
  /\ PlaceOK(call[g]) /\ Single(g) /\ LoneFiles(g) /\ SinceOffered(g) /\ SinceFile(g)
  /\ \A o \in Goroutines : SincePage(g, o)

\* Template may fail on its own: the version is not offered, or what was kept under the
\* name does not have it.
Explained(a) ==
  /\ a.op = "template"
  /\ \/ a.version \notin a.since
     \/ /\ a.kept # None
        /\ \/ a.version \notin a.kept.versions
           \/ \E url \in used \ {a.url} : NameOf[url] = NameOf[a.url]

\* An answer is fresh, is a success unless excused, comes from a repository with the
\* name of the one asked for, and has the rendered chart.
AnswerOK(a) ==
  /\ a.ok /\ a.op = "fetch" /\ a.from = a.url => a.since \ Malformed \subseteq a.versions
  /\ a.op # None /\ ~a.excused => a.ok \/ Explained(a)
  /\ a.ok /\ a.op \in {"fetch", "template"} =>
       a.url \in Urls /\ a.from \in used /\ NameOf[a.from] = NameOf[a.url]
  /\ a.ok /\ a.op = "template" =>
       /\ a.manifest \in ChartTexts /\ a.known \subseteq DOMAIN Scopes
       /\ a.resources = RenderedChart(a.manifest, Instance.labels, Instance.ns,
                                      [k \in a.known |-> Scopes[k]])

IInv ==
  /\ Typed /\ FilesOK
  /\ \A g \in Goroutines : CallOK(g) /\ AnswerOK(answer[g])

-----------------------------------------------------------------------------
(***************************************************************************)
(* Steps by what they change.                                              *)
(***************************************************************************)

\* Every repository has a name.
LEMMA NameType == ASSUME NEW url \in Urls PROVE NameOf[url] \in Names
  BY DEF NameOf, Names, Range

\* The call of g goes on as another one; the others do not move.
Turns(g) ==
  /\ call' \in [Goroutines -> Calls]
  /\ \A h \in Goroutines : h # g => call'[h] = call[h]

\* It goes on as what it is.
Moves(g) ==
  /\ Turns(g)
  /\ call[g].pc # "idle" /\ call'[g].pc # "idle"
  /\ call'[g].op = call[g].op /\ call'[g].url = call[g].url
  /\ call'[g].since = call[g].since /\ call'[g].alone = call[g].alone
  /\ call'[g].todo = call[g].todo

\* A call that goes on and leaves the files alone.
LEMMA MoveStep ==
  ASSUME IInv, NEW g \in Goroutines, Moves(g),
         UNCHANGED <<files, outside, used, answer>>,
         PlaceOK(call[g])', LoneFiles(g)', SinceFile(g)',
         \A h \in Goroutines : SincePage(h, g)'
  PROVE  IInv'
  <1> USE DEF files, outside
  <1>1. Typed'
    BY DEF IInv, Typed, Moves, Turns
  <1>2. FilesOK'
    BY DEF IInv, FilesOK
  <1>3. ASSUME NEW h \in Goroutines PROVE CallOK(h)'
    <2>1. PlaceOK(call[h])'
      <3>1. CASE h = g
        BY <3>1
      <3>2. CASE h # g
        BY <3>2 DEF IInv, CallOK, PlaceOK, Moves, Turns
      <3> QED BY <3>1, <3>2
    <2>2. Single(h)'
      BY DEF IInv, CallOK, Single, Lone, At, Moves, Turns
    <2>3. LoneFiles(h)' /\ SinceFile(h)'
      <3>1. CASE h = g
        BY <3>1
      <3>2. CASE h # g
        BY <3>2 DEF IInv, CallOK, LoneFiles, Lone, SinceFile, Bound, At, Name, Moves, Turns
      <3> QED BY <3>1, <3>2
    <2>4. SinceOffered(h)'
      BY DEF IInv, CallOK, SinceOffered, Bound, At, Moves, Turns
    <2>5. ASSUME NEW o \in Goroutines PROVE SincePage(h, o)'
      <3>1. CASE o = g
        BY <3>1
      <3>2. CASE o # g
        BY <3>2 DEF IInv, CallOK, SincePage, Bound, At, Moves, Turns
      <3> QED BY <3>1, <3>2
    <2> QED BY <2>1, <2>2, <2>3, <2>4, <2>5 DEF CallOK
  <1>4. ASSUME NEW h \in Goroutines PROVE AnswerOK(answer[h])'
    BY DEF IInv, AnswerOK, Explained
  <1> QED BY <1>1, <1>2, <1>3, <1>4 DEF IInv

\* A call that writes the index file of its repository, or truncates it, and may
\* register the repository.
LEMMA IndexStep ==
  ASSUME IInv, NEW g \in Goroutines, Moves(g), NEW p,
         index' = [index EXCEPT ![Name(g)] = p],
         p \in {Empty, call[g].page}, call[g].pc \in Pending,
         call'[g].page = call[g].page,
         \/ repos' = repos
         \/ repos' = [repos EXCEPT ![Name(g)] = call[g].url],
         UNCHANGED <<outside, used, answer>>,
         PlaceOK(call[g])', LoneFiles(g)'
  PROVE  IInv'
  <1> USE DEF outside
  <1>1. /\ PlaceOK(call[g]) /\ call[g].url \in used /\ call[g].url \in Urls
        /\ call[g].page \in Pages /\ call[g].page.url = call[g].url
    BY DEF IInv, CallOK, PlaceOK, Typed, Pending
  <1>2. Name(g) \in Names /\ p \in Pages \cup {Empty} /\ p # None
    BY <1>1, NameType, HelmAssumption DEF Name
  <1>3. p \in Pages => p = call[g].page
    BY HelmAssumption DEF Empty, Pages
  <1>4. /\ index'[Name(g)] = p
        /\ \A n \in Names : n # Name(g) => index'[n] = index[n]
        /\ \A n \in Names : index[n] # None => index'[n] # None
    BY <1>2 DEF IInv, Typed
  <1>5. \A n \in Names : repos'[n] = repos[n] \/ (n = Name(g) /\ repos'[n] = call[g].url)
    BY <1>2 DEF IInv, Typed
  <1>6. \A n \in Names : repos[n] # None => repos'[n] # None
    BY <1>1, <1>5, HelmAssumption
  <1>7. Typed'
    BY <1>1, <1>2 DEF IInv, Typed, Moves, Turns
  <1>8. FilesOK'
    <2> SUFFICES ASSUME NEW n \in Names
                 PROVE  /\ repos'[n] # None => repos'[n] \in used /\ NameOf[repos'[n]] = n /\ index'[n] # None
                        /\ index'[n] \in Pages => index'[n].url \in used /\ NameOf[index'[n].url] = n
      BY DEF FilesOK
    <2>1. CASE n = Name(g)
      BY <1>1, <1>2, <1>3, <1>4, <1>5, <2>1 DEF IInv, FilesOK, Name
    <2>2. CASE n # Name(g)
      BY <1>4, <1>5, <2>2 DEF IInv, FilesOK
    <2> QED BY <2>1, <2>2
  <1>9. ASSUME NEW h \in Goroutines PROVE CallOK(h)'
    <2>1. PlaceOK(call[h])'
      <3>1. CASE h = g
        BY <3>1
      <3>2. CASE h # g
        <4>1. call'[h] = call[h] /\ PlaceOK(call[h]) /\ call[h] \in Calls
          BY <3>2 DEF IInv, CallOK, Typed, Moves, Turns
        <4>2. \A n \in call[h].todo : repos'[n] # None
          BY <1>6, <4>1 DEF PlaceOK, Calls
        <4>3. call[h].pc \in {"poll", "load"} => index'[NameOf[call[h].url]] # None
          BY <1>4, <4>1, NameType DEF PlaceOK, IInv, Typed
        <4> QED BY <4>1, <4>2, <4>3 DEF PlaceOK
      <3> QED BY <3>1, <3>2
    <2>2. Single(h)'
      BY DEF IInv, CallOK, Single, Lone, At, Moves, Turns
    <2>3. LoneFiles(h)'
      <3>1. CASE h = g
        BY <3>1
      <3>2. CASE h # g
        BY <3>2 DEF IInv, CallOK, Single, Lone, LoneFiles, At, Moves, Turns
      <3> QED BY <3>1, <3>2
    <2>4. SinceOffered(h)'
      BY DEF IInv, CallOK, SinceOffered, Bound, At, Moves, Turns
    <2>5. ASSUME NEW o \in Goroutines PROVE SincePage(h, o)'
      <3>1. /\ call'[o].page = call[o].page
            /\ call'[o].pc \in Pending => call[o].pc \in Pending
        BY DEF Moves, Turns
      <3> QED BY <3>1 DEF IInv, CallOK, SincePage, Bound, At, Moves, Turns
    <2>6. SinceFile(h)'
      <3> SUFFICES ASSUME Bound(h)', call'[h].pc \in {"poll", "load"},
                          index'[Name(h)'].url = call'[h].url
                   PROVE  call'[h].since \subseteq index'[Name(h)'].versions
        BY DEF SinceFile
      <3>1. /\ call'[h].url = call[h].url /\ call'[h].since = call[h].since /\ Bound(h)
            /\ Name(h)' = Name(h)
        BY DEF Bound, At, Name, Moves, Turns
      <3>2. call[h].url \in Urls /\ Name(h) \in Names
        <4>1. call'[h].url \in used /\ used \subseteq Urls
          BY <2>1 DEF PlaceOK, IInv, Typed
        <4> QED BY <3>1, <4>1, NameType DEF Name
      <3>3. CASE Name(h) = Name(g)
        <4>1. p # Empty
          BY <1>4, <3>1, <3>2, <3>3, HelmAssumption DEF Empty
        <4> QED BY <1>4, <3>1, <3>3, <4>1 DEF IInv, CallOK, SincePage
      <3>4. CASE Name(h) # Name(g)
        <4>1. h # g /\ call[h].pc \in {"poll", "load"}
          BY <3>4 DEF Moves, Turns
        <4> QED BY <1>4, <3>1, <3>2, <3>4, <4>1 DEF IInv, CallOK, SinceFile
      <3> QED BY <3>3, <3>4
    <2> QED BY <2>1, <2>2, <2>3, <2>4, <2>5, <2>6 DEF CallOK
  <1>10. ASSUME NEW h \in Goroutines PROVE AnswerOK(answer[h])'
    BY DEF IInv, AnswerOK, Explained
  <1> QED BY <1>7, <1>8, <1>9, <1>10 DEF IInv

\* A call that ends.
LEMMA ReturnStep ==
  ASSUME IInv, NEW g \in Goroutines, NEW a, Return(g, a), AnswerOK(a),
         UNCHANGED <<files, outside, used>>
  PROVE  IInv'
  <1> USE DEF files, outside
  <1>1. NoCall \in Calls /\ NoCall.pc = "idle" /\ NoCall.todo = {}
    BY HelmAssumption DEF NoCall, Calls, Steps
  <1>2. call'[g] = NoCall /\ Turns(g)
    BY <1>1 DEF IInv, Typed, Return, Turns
  <1>3. /\ answer'[g] = a /\ DOMAIN answer' = Goroutines
        /\ \A h \in Goroutines : h # g => answer'[h] = answer[h]
    BY DEF IInv, Typed, Return
  <1> HIDE DEF NoCall
  <1>4. Typed'
    BY <1>2, <1>3 DEF IInv, Typed, Turns
  <1>5. FilesOK'
    BY DEF IInv, FilesOK
  <1>6. ASSUME NEW h \in Goroutines PROVE CallOK(h)'
    <2>1. CASE h = g
      <3>1. PlaceOK(NoCall)
        BY <1>1 DEF PlaceOK, Syncing, Adding, Fetching, Pending
      <3>2. PlaceOK(call[h])'
        BY <1>2, <2>1, <3>1 DEF PlaceOK
      <3>3. /\ Single(h)' /\ LoneFiles(h)' /\ SinceOffered(h)' /\ SinceFile(h)'
            /\ \A o \in Goroutines : SincePage(h, o)'
        BY <1>1, <1>2, <2>1 DEF Single, LoneFiles, Lone, SinceOffered, SinceFile, SincePage, Bound, At
      <3> QED BY <3>2, <3>3 DEF CallOK
    <2>2. CASE h # g
      <3>1. PlaceOK(call[h])' /\ SinceOffered(h)' /\ SinceFile(h)' /\ LoneFiles(h)'
        BY <1>2, <2>2 DEF IInv, CallOK, PlaceOK, SinceOffered, SinceFile, LoneFiles, Lone, Bound, At,
                          Name, Turns
      <3>2. Single(h)'
        BY <1>1, <1>2, <2>2 DEF IInv, CallOK, Single, Lone, At, Turns
      <3>3. ASSUME NEW o \in Goroutines PROVE SincePage(h, o)'
        <4>1. CASE o = g
          BY <1>1, <1>2, <4>1 DEF SincePage, Pending
        <4>2. CASE o # g
          BY <1>2, <2>2, <4>2 DEF IInv, CallOK, SincePage, Bound, At, Turns
        <4> QED BY <4>1, <4>2
      <3> QED BY <3>1, <3>2, <3>3 DEF CallOK
    <2> QED BY <2>1, <2>2
  <1>7. ASSUME NEW h \in Goroutines PROVE AnswerOK(answer[h])'
    <2>1. CASE h = g
      BY <1>3, <2>1 DEF AnswerOK, Explained
    <2>2. CASE h # g
      BY <1>3, <2>2 DEF IInv, AnswerOK, Explained
    <2> QED BY <2>1, <2>2
  <1> QED BY <1>4, <1>5, <1>6, <1>7 DEF IInv

-----------------------------------------------------------------------------
(***************************************************************************)
(* The actions.                                                            *)
(***************************************************************************)

\* What an answer is made of.
LEMMA AnswerFacts ==
  ASSUME NEW g \in Goroutines
  PROVE  /\ Answer(g).op = call[g].op /\ Answer(g).url = call[g].url
         /\ Answer(g).version = call[g].version /\ Answer(g).since = call[g].since
         /\ Answer(g).ok = FALSE /\ Answer(g).kept = None /\ Answer(g).excused = ~call[g].alone
         /\ DOMAIN Answer(g) = {"op", "url", "version", "from", "ok", "versions", "manifest",
                                "resources", "known", "since", "kept", "excused"}
  BY DEF Answer, NoAnswer

\* A call that fails with an excuse.
LEMMA FailStep ==
  ASSUME IInv, NEW g \in Goroutines, Failed(g, TRUE), UNCHANGED <<files, outside, used>>
  PROVE  IInv'
  <1> DEFINE a == [Answer(g) EXCEPT !.excused = IF TRUE THEN TRUE ELSE @]
  <1>1. a.ok = FALSE /\ a.excused = TRUE
    BY AnswerFacts
  <1>2. AnswerOK(a)
    <2> HIDE DEF a
    <2> QED BY <1>1 DEF AnswerOK
  <1>3. Return(g, a)
    BY DEF Failed
  <1> HIDE DEF a
  <1> QED BY <1>2, <1>3, ReturnStep

\* What a call that is under way has.
LEMMA CallFacts ==
  ASSUME IInv, NEW g \in Goroutines
  PROVE  /\ call[g] \in Calls /\ PlaceOK(call[g]) /\ used \subseteq Urls
         /\ call[g].pc \notin {"idle", "next"} =>
              /\ call[g].url \in used /\ call[g].url \in Urls /\ Name(g) \in Names
              /\ Page(call[g].url) \in Pages /\ Page(call[g].url).url = call[g].url
              /\ Page(call[g].url).versions = offered[call[g].url]
  BY NameType DEF IInv, Typed, CallOK, PlaceOK, Name, Page, Pages

\* Add
LEMMA AddStep == ASSUME IInv, NEW g \in Goroutines, Add(g) PROVE IInv'
  <1>1. At(g, "add") /\ UNCHANGED <<files, outside, used>>
    BY DEF Add
  <1>2. /\ call[g] \in Calls /\ PlaceOK(call[g]) /\ call[g].pc = "add"
        /\ call[g].url \in used /\ call[g].url \in Urls /\ Name(g) \in Names
        /\ call[g].op \in {"add", "fetch", "template"}
    BY <1>1, CallFacts DEF At, PlaceOK, Adding
  <1>3. CASE repos[Name(g)] # None /\ ~replaces /\ Goto(g, After(g)) /\ UNCHANGED answer
    <2>1. After(g) \in {"end", "download", "locate"}
      BY <1>2 DEF After
    <2>2. After(g) \in Steps
      BY <2>1 DEF Steps, Fetching
    <2>3. /\ Moves(g) /\ call'[g].pc = After(g) /\ call'[g].left = call[g].left
          /\ call'[g].page = call[g].page /\ call[g].page = None
      BY <1>2, <1>3, <2>1, <2>2 DEF PlaceOK, Goto, Moves, Turns, IInv, Typed, Calls
    <2>4. /\ After(g) = "end" => call[g].op = "add"
          /\ After(g) = "download" => call[g].op = "fetch"
          /\ After(g) = "locate" => call[g].op = "template"
      BY <1>2 DEF After
    <2> HIDE DEF After
    <2>5. PlaceOK(call[g])'
      BY <1>1, <1>2, <2>1, <2>3, <2>4 DEF PlaceOK, Moves, Syncing, Adding, Fetching, Pending, files
    <2>6. LoneFiles(g)' /\ SinceFile(g)'
      BY <1>1, <1>3, <2>1, <2>3 DEF LoneFiles, SinceFile, Moves, Name, files, outside
    <2>7. \A h \in Goroutines : SincePage(h, g)'
      BY <2>1, <2>3 DEF SincePage, Pending
    <2> QED BY <1>1, <1>3, <2>3, <2>5, <2>6, <2>7, MoveStep
  <1>4. CASE /\ call' = [call EXCEPT ![g].pc = "addTruncate", ![g].page = Page(call[g].url)]
             /\ UNCHANGED answer
    <2> DEFINE page == Page(call[g].url)
    <2>1. page \in Pages /\ page.url = call[g].url /\ page.versions = offered[call[g].url]
      BY <1>2, CallFacts
    <2> HIDE DEF page
    <2>2. Moves(g) /\ call'[g].pc = "addTruncate" /\ call'[g].page = page /\ call'[g].left = call[g].left
      BY <1>2, <1>4, <2>1 DEF Moves, Turns, IInv, Typed, Calls, Steps, Adding, page
    <2>3. \A h \in Goroutines : Bound(h) /\ call[h].url = call[g].url => call[h].since \subseteq page.versions
      BY <2>1 DEF IInv, CallOK, SinceOffered
    <2>4. Bound(g)
      BY <1>2 DEF Bound, At
    <2>5. PlaceOK(call[g])'
      BY <1>1, <1>2, <2>1, <2>2, <2>3, <2>4 DEF PlaceOK, Moves, Syncing, Adding, Fetching, Pending, files
    <2>6. LoneFiles(g)' /\ SinceFile(g)'
      BY <2>2 DEF LoneFiles, SinceFile
    <2>7. \A h \in Goroutines : SincePage(h, g)'
      BY <2>1, <2>2, <2>3 DEF SincePage, Bound, At, Moves, Turns
    <2> QED BY <1>1, <1>4, <2>2, <2>5, <2>6, <2>7, MoveStep
  <1>5. CASE Failed(g, TRUE)
    BY <1>1, <1>5, FailStep
  <1> QED BY <1>3, <1>4, <1>5 DEF Add

\* Truncate: of the three places it is called from.
LEMMA TruncateStep ==
  ASSUME IInv, NEW g \in Goroutines, NEW from, NEW to, Truncate(g, from, to),
         \/ from = "addTruncate" /\ to = "addWrite"
         \/ from = "truncate" /\ to = "write"
         \/ from = "syncTruncate" /\ to = "syncWrite"
  PROVE  IInv'
  <1>1. /\ call[g] \in Calls /\ PlaceOK(call[g]) /\ call[g].pc = from
        /\ call[g].url \in used /\ Name(g) \in Names
    BY CallFacts DEF Truncate, At
  <1>2. from \in Pending /\ to \in Pending /\ to \in Steps
    BY DEF Pending, Steps, Adding, Fetching, Syncing
  <1>3. Moves(g) /\ call'[g].pc = to /\ call'[g].page = call[g].page /\ call'[g].left = call[g].left
    BY <1>1, <1>2 DEF Truncate, Goto, Moves, Turns, IInv, Typed, Calls, Pending
  <1>4. PlaceOK(call[g])'
    BY <1>1, <1>2, <1>3 DEF PlaceOK, Moves, Truncate, Syncing, Adding, Fetching, Pending
  <1>5. LoneFiles(g)'
    BY <1>2, <1>3 DEF LoneFiles, Pending
  <1> QED BY <1>1, <1>2, <1>3, <1>4, <1>5, IndexStep DEF Truncate

\* AddWrite
LEMMA AddWriteStep == ASSUME IInv, NEW g \in Goroutines, AddWrite(g) PROVE IInv'
  <1>1. At(g, "addWrite") /\ UNCHANGED <<outside, used>>
    BY DEF AddWrite
  <1>2. /\ call[g] \in Calls /\ PlaceOK(call[g]) /\ call[g].pc = "addWrite"
        /\ call[g].url \in used /\ call[g].url \in Urls /\ Name(g) \in Names
        /\ call[g].op \in {"add", "fetch", "template"} /\ call[g].page \in Pages
    BY <1>1, CallFacts DEF At, PlaceOK, Adding, Pending
  <1>3. CASE /\ index' = [index EXCEPT ![Name(g)] = call[g].page]
             /\ repos' = [repos EXCEPT ![Name(g)] = call[g].url]
             /\ Goto(g, After(g)) /\ UNCHANGED answer
    <2>1. After(g) \in {"end", "download", "locate"}
      BY <1>2 DEF After
    <2>2. After(g) \in Steps
      BY <2>1 DEF Steps, Fetching
    <2>3. Moves(g) /\ call'[g].pc = After(g) /\ call'[g].page = call[g].page /\ call'[g].left = call[g].left
      BY <1>2, <1>3, <2>1, <2>2 DEF Goto, Moves, Turns, IInv, Typed, Calls
    <2>4. /\ After(g) = "end" => call[g].op = "add"
          /\ After(g) = "download" => call[g].op = "fetch"
          /\ After(g) = "locate" => call[g].op = "template"
      BY <1>2 DEF After
    <2>5. /\ repos'[Name(g)] = call[g].url /\ index'[Name(g)] = call[g].page
          /\ \A n \in Names : repos[n] # None => repos'[n] # None
      BY <1>2, <1>3, HelmAssumption DEF IInv, Typed
    <2>6. call[g].url # None /\ call[g].page # Empty /\ Name(g)' = Name(g)
      BY <1>2, <2>3, HelmAssumption DEF Empty, Pages, Name, Moves
    <2> HIDE DEF After
    <2>7. \A n \in call[g].todo : repos'[n] # None
      BY <1>2, <2>5 DEF PlaceOK, Calls
    <2>8. PlaceOK(call[g])'
      BY <1>1, <1>2, <2>1, <2>3, <2>4, <2>7 DEF PlaceOK, Moves, Syncing, Adding, Fetching, Pending
    <2>9. LoneFiles(g)'
      <3>1. call[g].page.url = call[g].url /\ call[g].since \subseteq call[g].page.versions
        BY <1>2 DEF PlaceOK, Pending
      <3> QED BY <2>1, <2>3, <2>5, <2>6, <3>1 DEF LoneFiles, Moves
    <2>10. call[g].pc \in Pending
      BY <1>2 DEF Pending
    <2> QED BY <1>1, <1>3, <2>3, <2>8, <2>9, <2>10, IndexStep
  <1>4. CASE Failed(g, TRUE) /\ UNCHANGED files
    BY <1>1, <1>4, FailStep
  <1> QED BY <1>3, <1>4 DEF AddWrite

\* AddEnds
LEMMA AddEndsStep == ASSUME IInv, NEW g \in Goroutines, AddEnds(g) PROVE IInv'
  <1> DEFINE a == [Answer(g) EXCEPT !.ok = TRUE, !.from = call[g].url]
  <1>1. call[g].op = "add"
    BY CallFacts DEF AddEnds, At, PlaceOK
  <1>2. a.ok = TRUE /\ a.op = "add"
    BY <1>1, AnswerFacts
  <1>3. Return(g, a) /\ UNCHANGED <<files, outside, used>>
    BY DEF AddEnds
  <1> HIDE DEF a
  <1>4. AnswerOK(a)
    BY <1>2 DEF AnswerOK
  <1> QED BY <1>3, <1>4, ReturnStep

\* Download
LEMMA DownloadStep == ASSUME IInv, NEW g \in Goroutines, Download(g) PROVE IInv'
  <1>1. At(g, "download") /\ UNCHANGED <<files, outside, used>>
    BY DEF Download
  <1>2. /\ call[g] \in Calls /\ PlaceOK(call[g]) /\ call[g].pc = "download"
        /\ call[g].url \in used /\ call[g].url \in Urls /\ call[g].op = "fetch"
    BY <1>1, CallFacts DEF At, PlaceOK, Fetching
  <1>3. CASE /\ call' = [call EXCEPT ![g].pc = "truncate", ![g].page = Page(call[g].url)]
             /\ UNCHANGED answer
    <2> DEFINE page == Page(call[g].url)
    <2>1. page \in Pages /\ page.url = call[g].url /\ page.versions = offered[call[g].url]
      BY <1>2, CallFacts
    <2> HIDE DEF page
    <2>2. Moves(g) /\ call'[g].pc = "truncate" /\ call'[g].page = page /\ call'[g].left = call[g].left
      BY <1>2, <1>3, <2>1 DEF Moves, Turns, IInv, Typed, Calls, Steps, Fetching, page
    <2>3. \A h \in Goroutines : Bound(h) /\ call[h].url = call[g].url => call[h].since \subseteq page.versions
      BY <2>1 DEF IInv, CallOK, SinceOffered
    <2>4. Bound(g)
      BY <1>2 DEF Bound, At
    <2>5. PlaceOK(call[g])'
      BY <1>1, <1>2, <2>1, <2>2, <2>3, <2>4 DEF PlaceOK, Moves, Syncing, Adding, Fetching, Pending, files
    <2>6. LoneFiles(g)' /\ SinceFile(g)'
      BY <2>2 DEF LoneFiles, SinceFile
    <2>7. \A h \in Goroutines : SincePage(h, g)'
      BY <2>1, <2>2, <2>3 DEF SincePage, Bound, At, Moves, Turns
    <2> QED BY <1>1, <1>3, <2>2, <2>5, <2>6, <2>7, MoveStep
  <1>4. CASE Failed(g, TRUE)
    BY <1>1, <1>4, FailStep
  <1> QED BY <1>3, <1>4 DEF Download

\* Write
LEMMA WriteStep == ASSUME IInv, NEW g \in Goroutines, Write(g) PROVE IInv'
  <1>1. At(g, "write") /\ UNCHANGED <<repos, outside, used>>
    BY DEF Write
  <1>2. /\ call[g] \in Calls /\ PlaceOK(call[g]) /\ call[g].pc = "write"
        /\ call[g].url \in used /\ call[g].url \in Urls /\ Name(g) \in Names
        /\ call[g].op = "fetch" /\ call[g].page \in Pages
    BY <1>1, CallFacts DEF At, PlaceOK, Fetching, Pending
  <1>3. CASE index' = [index EXCEPT ![Name(g)] = call[g].page] /\ Goto(g, "poll") /\ UNCHANGED answer
    <2>1. /\ Moves(g) /\ call'[g].pc = "poll" /\ call'[g].page = call[g].page
          /\ call'[g].left = call[g].left
      BY <1>2, <1>3 DEF Goto, Moves, Turns, IInv, Typed, Calls, Steps, Fetching
    <2>2. index'[Name(g)] = call[g].page
      BY <1>2, <1>3 DEF IInv, Typed
    <2>3. call[g].page \notin {Empty, None} /\ Name(g)' = Name(g)
      BY <1>2, <2>1, HelmAssumption DEF Empty, Pages, Name, Moves
    <2>4. PlaceOK(call[g])'
      BY <1>1, <1>2, <2>1, <2>2, <2>3 DEF PlaceOK, Moves, Name, Syncing, Adding, Fetching, Pending
    <2>5. LoneFiles(g)'
      BY <2>1, <2>2, <2>3 DEF LoneFiles
    <2>6. call[g].pc \in Pending
      BY <1>2 DEF Pending
    <2> QED BY <1>1, <1>3, <2>1, <2>4, <2>5, <2>6, IndexStep
  <1>4. CASE Failed(g, TRUE) /\ UNCHANGED index
    BY <1>1, <1>4, FailStep DEF files
  <1> QED BY <1>3, <1>4 DEF Write

\* Poll
LEMMA PollStep == ASSUME IInv, NEW g \in Goroutines, Poll(g) PROVE IInv'
  <1>1. At(g, "poll") /\ UNCHANGED <<files, outside, used, answer>>
    BY DEF Poll
  <1>2. /\ call[g] \in Calls /\ PlaceOK(call[g]) /\ call[g].pc = "poll" /\ call[g].left # 0
        /\ call[g].url \in used /\ call[g].op = "fetch" /\ call[g].left \in 0..Attempts
    BY <1>1, CallFacts DEF At, PlaceOK, Fetching, Adding, Calls
  <1>3. call[g].left \in Nat /\ call[g].left - 1 \in 0..Attempts
    BY <1>2, HelmAssumption
  <1>4. Moves(g) /\ call'[g].pc \in {"poll", "load"} /\ (call'[g].pc = "poll" => call'[g].left # 0)
    <2>1. CASE index[Name(g)] # Empty
      BY <1>2, <2>1 DEF Poll, Goto, Moves, Turns, IInv, Typed, Calls, Steps, Fetching
    <2>2. CASE index[Name(g)] = Empty
      <3> DEFINE pc == IF call[g].left = 1 THEN "load" ELSE "poll"
                 left == call[g].left - 1
      <3>1. call' = [call EXCEPT ![g].left = left, ![g].pc = pc]
        BY <2>2 DEF Poll
      <3>2. /\ pc \in {"poll", "load"} /\ pc \in Steps /\ left \in 0..Attempts
            /\ pc = "poll" => left # 0
        BY <1>3 DEF Steps, Fetching
      <3> HIDE DEF pc, left
      <3> QED BY <1>2, <3>1, <3>2 DEF Moves, Turns, IInv, Typed, Calls
    <2> QED BY <2>1, <2>2
  <1>5. PlaceOK(call[g])'
    BY <1>1, <1>2, <1>4 DEF PlaceOK, Moves, files, Syncing, Adding, Fetching, Pending
  <1>6. LoneFiles(g)' /\ SinceFile(g)'
    BY <1>1, <1>2, <1>4 DEF IInv, CallOK, LoneFiles, SinceFile, Lone, Bound, At, Name, Moves, files
  <1>7. \A h \in Goroutines : SincePage(h, g)'
    BY <1>4 DEF SincePage, Pending
  <1> QED BY <1>1, <1>4, <1>5, <1>6, <1>7, MoveStep

\* Load
LEMMA LoadStep == ASSUME IInv, NEW g \in Goroutines, Load(g) PROVE IInv'
  <1> DEFINE file == index[Name(g)]
  <1>1. At(g, "load") /\ UNCHANGED <<files, outside, used>>
    BY DEF Load
  <1>2. /\ PlaceOK(call[g]) /\ call[g].pc = "load" /\ call[g].op = "fetch"
        /\ call[g].url \in Urls /\ Name(g) \in Names /\ file # None
    BY <1>1, CallFacts DEF At, PlaceOK, Fetching, Name
  <1>3. CASE file = Empty /\ Failed(g, FALSE)
    <2> DEFINE a == [Answer(g) EXCEPT !.excused = IF FALSE THEN TRUE ELSE @]
    <2>1. ~call[g].alone
      BY <1>2, <1>3 DEF IInv, CallOK, LoneFiles, Lone, At
    <2>2. a.ok = FALSE /\ a.excused
      BY <2>1, AnswerFacts
    <2>3. Return(g, a)
      BY <1>3 DEF Failed
    <2> HIDE DEF a
    <2>4. AnswerOK(a)
      BY <2>2 DEF AnswerOK
    <2> QED BY <1>1, <2>3, <2>4, ReturnStep
  <1>4. CASE /\ file # Empty
             /\ Return(g, [Answer(g) EXCEPT !.ok = TRUE, !.from = file.url,
                                            !.versions = file.versions \ Malformed])
    <2> DEFINE a == [Answer(g) EXCEPT !.ok = TRUE, !.from = file.url,
                                      !.versions = file.versions \ Malformed]
    <2>1. /\ a.ok = TRUE /\ a.op = "fetch" /\ a.url = call[g].url /\ a.from = file.url
          /\ a.since = call[g].since /\ a.versions = file.versions \ Malformed
      BY <1>2, AnswerFacts
    <2>2. file \in Pages
      BY <1>2, <1>4 DEF IInv, Typed
    <2>3. file.url \in used /\ NameOf[file.url] = NameOf[call[g].url]
      BY <1>2, <2>2 DEF IInv, FilesOK, Name
    <2>4. file.url = call[g].url => call[g].since \subseteq file.versions
      BY <1>2 DEF IInv, CallOK, SinceFile, Bound, At
    <2>5. Return(g, a)
      BY <1>4
    <2> HIDE DEF a, file
    <2>6. AnswerOK(a)
      BY <1>2, <2>1, <2>3, <2>4 DEF AnswerOK
    <2> QED BY <1>1, <2>5, <2>6, ReturnStep
  <1> QED BY <1>3, <1>4 DEF Load

\* Locate
LEMMA LocateStep == ASSUME IInv, NEW g \in Goroutines, Locate(g) PROVE IInv'
  <1> DEFINE file == index[Name(g)]
             listed == /\ file \notin {None, Empty} /\ repos[Name(g)] # None
                       /\ call[g].version \in file.versions
             from == IF listed THEN {file.url, repos[Name(g)]} ELSE {}
  <1>1. At(g, "locate") /\ UNCHANGED <<files, outside, used>>
    BY DEF Locate
  <1>2. /\ call[g] \in Calls /\ PlaceOK(call[g]) /\ call[g].pc = "locate" /\ call[g].op = "template"
        /\ call[g].url \in Urls /\ call[g].url \in used /\ Name(g) \in Names
    BY <1>1, CallFacts DEF At, PlaceOK
  <1>3. \A url \in from : url \in used /\ url \in Urls /\ NameOf[url] = Name(g)
    BY <1>2 DEF IInv, Typed, FilesOK
  <1>4. ASSUME NEW url \in from,
               call' = [call EXCEPT ![g].pc = "scope", ![g].page = Page(url)],
               UNCHANGED answer
        PROVE  IInv'
    <2>1. url \in used /\ url \in Urls /\ NameOf[url] = Name(g)
      BY <1>4, <1>3
    <2> DEFINE page == Page(url)
    <2>2. page \in Pages /\ page.url = url
      BY <2>1 DEF Page, Pages, IInv, Typed
    <2> HIDE DEF page
    <2>3. Moves(g) /\ call'[g].pc = "scope" /\ call'[g].page = page
      BY <1>2, <1>4, <2>2 DEF Moves, Turns, IInv, Typed, Calls, Steps, page
    <2>4. PlaceOK(call[g])'
      BY <1>1, <1>2, <2>1, <2>2, <2>3 DEF PlaceOK, Moves, Name, files, Syncing, Adding, Fetching, Pending
    <2>5. LoneFiles(g)' /\ SinceFile(g)'
      BY <2>3 DEF LoneFiles, SinceFile
    <2>6. \A h \in Goroutines : SincePage(h, g)'
      BY <2>3 DEF SincePage, Pending
    <2> QED BY <1>1, <1>4, <2>3, <2>4, <2>5, <2>6, MoveStep
  <1>5. ASSUME ~listed \/ \E url \in from : call[g].version \notin offered[url],
               Return(g, [Answer(g) EXCEPT !.kept = IF call[g].page = None THEN file ELSE @])
        PROVE  IInv'
    <2> DEFINE a == [Answer(g) EXCEPT !.kept = IF call[g].page = None THEN file ELSE @]
    <2>1. /\ a.ok = FALSE /\ a.excused = ~call[g].alone /\ a.op = "template"
          /\ a.url = call[g].url /\ a.version = call[g].version /\ a.since = call[g].since
          /\ a.kept = IF call[g].page = None THEN file ELSE None
      <3> HIDE DEF file
      <3> QED BY <1>2, AnswerFacts
    <2>2. Return(g, a)
      BY <1>5
    <2> HIDE DEF a
    <2>3. ASSUME call[g].alone, call[g].version \in call[g].since
          PROVE  Explained(a)
      <3>1. /\ repos[Name(g)] # None /\ file # None
            /\ call[g].page # None =>
                 /\ repos[Name(g)] = call[g].url /\ file = call[g].page
                 /\ call[g].page.url = call[g].url /\ call[g].since \subseteq call[g].page.versions
        BY <1>2, <2>3 DEF IInv, CallOK, FilesOK, LoneFiles, Lone, At
      <3>2. call[g].version \in offered[call[g].url]
        BY <1>2, <2>3 DEF IInv, CallOK, SinceOffered, Bound, At
      <3>3. file \in Pages \cup {Empty} /\ Empty.versions = {}
        BY <1>2, <3>1 DEF IInv, Typed, Empty
      <3>4. ASSUME listed PROVE \E url \in used \ {a.url} : NameOf[url] = NameOf[a.url]
        <4>1. PICK url \in from : call[g].version \notin offered[url]
          BY <1>5, <3>4
        <4>2. url \in used /\ NameOf[url] = Name(g) /\ url # call[g].url
          BY <1>3, <3>2, <4>1
        <4> QED BY <2>1, <4>2 DEF Name
      <3>5. call[g].page # None => listed
        <4>1. SUFFICES ASSUME call[g].page # None PROVE listed
          OBVIOUS
        <4>2. call[g].version \in file.versions
          BY <2>3, <3>1, <4>1
        <4> HIDE DEF file
        <4> QED BY <3>1, <3>3, <4>2
      <3>6. call[g].page # None => \A url \in from : url = call[g].url
        BY <3>1
      <3>7. call[g].page = None
        BY <1>5, <3>2, <3>5, <3>6
      <3>8. a.kept = file
        BY <2>1, <3>7
      <3>9. listed \/ a.version \notin a.kept.versions
        BY <2>1, <3>1, <3>3, <3>8
      <3> HIDE DEF listed, from, file
      <3> QED BY <2>1, <3>1, <3>4, <3>8, <3>9 DEF Explained
    <2>4. AnswerOK(a)
      <3>1. ~a.excused => Explained(a)
        BY <2>1, <2>3 DEF Explained
      <3> QED BY <2>1, <3>1 DEF AnswerOK
    <2> QED BY <1>1, <2>2, <2>4, ReturnStep
  <1>6. CASE Failed(g, TRUE)
    BY <1>1, <1>6, FailStep
  <1> QED BY <1>4, <1>5, <1>6 DEF Locate

\* Scope
LEMMA ScopeStep == ASSUME IInv, NEW g \in Goroutines, Scope(g) PROVE IInv'
  <1>1. At(g, "scope") /\ UNCHANGED <<files, outside, used>>
    BY DEF Scope
  <1>2. /\ call[g].pc = "scope" /\ call[g].op = "template" /\ call[g].url \in Urls
        /\ call[g].page.url \in used /\ NameOf[call[g].page.url] = NameOf[call[g].url]
    BY <1>1, CallFacts DEF At, PlaceOK
  <1>3. ASSUME NEW manifest \in ChartTexts,
               Return(g, [Answer(g) EXCEPT !.manifest = manifest, !.excused = TRUE])
        PROVE  IInv'
    <2> DEFINE a == [Answer(g) EXCEPT !.manifest = manifest, !.excused = TRUE]
    <2>1. a.ok = FALSE /\ a.excused = TRUE
      BY AnswerFacts
    <2>2. Return(g, a)
      BY <1>3
    <2> HIDE DEF a
    <2>3. AnswerOK(a)
      BY <2>1 DEF AnswerOK
    <2> QED BY <1>1, <2>2, <2>3, ReturnStep
  <1>4. ASSUME NEW manifest \in ChartTexts,
               Return(g, [Answer(g) EXCEPT
                            !.ok = TRUE, !.from = call[g].page.url, !.manifest = manifest,
                            !.known = kinds,
                            !.resources = RenderedChart(manifest, Instance.labels, Instance.ns,
                                                        ScopeMap)])
        PROVE  IInv'
    <2> DEFINE rendered == RenderedChart(manifest, Instance.labels, Instance.ns, ScopeMap)
               a == [Answer(g) EXCEPT !.ok = TRUE, !.from = call[g].page.url,
                                      !.manifest = manifest, !.known = kinds,
                                      !.resources = rendered]
    <2>1. Return(g, a)
      BY <1>4
    <2>2. rendered = RenderedChart(manifest, Instance.labels, Instance.ns, [k \in kinds |-> Scopes[k]])
      BY DEF ScopeMap
    <2> HIDE DEF rendered
    <2>3. /\ a.ok = TRUE /\ a.op = "template" /\ a.url = call[g].url /\ a.from = call[g].page.url
          /\ a.manifest = manifest /\ a.known = kinds /\ a.resources = rendered
      BY <1>2, AnswerFacts
    <2> HIDE DEF a
    <2>4. kinds \subseteq DOMAIN Scopes
      BY DEF IInv, Typed
    <2>5. AnswerOK(a)
      BY <1>2, <2>2, <2>3, <2>4 DEF AnswerOK
    <2> QED BY <1>1, <2>1, <2>5, ReturnStep
  <1>5. CASE Failed(g, TRUE)
    BY <1>1, <1>5, FailStep
  <1> QED BY <1>3, <1>4, <1>5 DEF Scope

\* SyncNext
LEMMA SyncNextStep == ASSUME IInv, NEW g \in Goroutines, SyncNext(g) PROVE IInv'
  <1> USE DEF files, outside
  <1>1. At(g, "next") /\ UNCHANGED <<files, outside, used>>
    BY DEF SyncNext
  <1>2. call[g] \in Calls /\ PlaceOK(call[g]) /\ call[g].pc = "next" /\ call[g].op = "sync"
    BY <1>1, CallFacts DEF At, PlaceOK, Syncing
  <1>3. ASSUME NEW n \in call[g].todo,
               call' = [call EXCEPT ![g].pc = "syncTruncate", ![g].url = repos[n],
                                    ![g].page = Page(repos[n]), ![g].todo = @ \ {n},
                                    ![g].since = offered[repos[n]]],
               UNCHANGED answer
        PROVE  IInv'
    <2> DEFINE url == repos[n]
               page == Page(url)
               rest == call[g].todo \ {n}
    <2>1. n \in Names /\ url # None /\ rest \subseteq call[g].todo /\ rest \in SUBSET Names
      BY <1>2 DEF PlaceOK, Calls
    <2>2. url \in used /\ url \in Urls /\ offered[url] \in SUBSET Versions
      BY <2>1 DEF IInv, FilesOK, Typed
    <2>3. page \in Pages /\ page.url = url /\ page.versions = offered[url]
      BY <2>2 DEF Page, Pages
    <2>4. call' = [call EXCEPT ![g].pc = "syncTruncate", ![g].url = url, ![g].page = page,
                               ![g].todo = rest, ![g].since = offered[url]]
      BY <1>2, <1>3 DEF IInv, Typed, Calls
    <2> HIDE DEF url, page, rest
    <2>5. /\ Turns(g) /\ call'[g].pc = "syncTruncate" /\ call'[g].url = url /\ call'[g].page = page
          /\ call'[g].todo = rest /\ call'[g].since = offered[url] /\ call'[g].op = "sync"
          /\ call'[g].alone = call[g].alone
      BY <1>2, <2>1, <2>2, <2>3, <2>4 DEF Turns, IInv, Typed, Calls, Steps, Syncing
    <2>6. Typed' /\ FilesOK'
      BY <1>1, <1>3, <2>5 DEF IInv, Typed, FilesOK, Turns
    <2>7. ASSUME NEW h \in Goroutines PROVE CallOK(h)'
      <3>1. PlaceOK(call[h])'
        <4>1. CASE h = g
          <5>1. \A m \in rest : repos'[m] # None
            BY <1>1, <1>2, <2>1 DEF PlaceOK
          <5> QED BY <1>1, <2>2, <2>3, <2>5, <4>1, <5>1 DEF PlaceOK, Syncing, Adding, Fetching, Pending
        <4>2. CASE h # g
          BY <1>1, <2>5, <4>2 DEF IInv, CallOK, PlaceOK, Turns
        <4> QED BY <4>1, <4>2
      <3>2. Single(h)'
        BY <1>2, <2>5 DEF IInv, CallOK, Single, Lone, At, Turns
      <3>3. LoneFiles(h)' /\ SinceFile(h)' /\ SinceOffered(h)'
        <4>1. CASE h = g
          BY <2>5, <4>1 DEF LoneFiles, SinceFile, SinceOffered, Bound
        <4>2. CASE h # g
          BY <1>1, <2>5, <4>2 DEF IInv, CallOK, LoneFiles, Lone, SinceFile, SinceOffered, Bound, At,
                                  Name, Turns
        <4> QED BY <4>1, <4>2
      <3>4. ASSUME NEW o \in Goroutines PROVE SincePage(h, o)'
        <4>1. CASE h = g
          BY <2>5, <4>1 DEF SincePage, Bound
        <4>2. CASE h # g /\ o = g
          BY <2>3, <2>5, <4>2 DEF IInv, CallOK, SinceOffered, SincePage, Bound, At, Turns
        <4>3. CASE h # g /\ o # g
          BY <2>5, <4>3 DEF IInv, CallOK, SincePage, Bound, At, Turns
        <4> QED BY <4>1, <4>2, <4>3
      <3> QED BY <3>1, <3>2, <3>3, <3>4 DEF CallOK
    <2>8. ASSUME NEW h \in Goroutines PROVE AnswerOK(answer[h])'
      BY <1>1, <1>3 DEF IInv, AnswerOK, Explained
    <2> QED BY <2>6, <2>7, <2>8 DEF IInv
  <1>4. CASE Return(g, [Answer(g) EXCEPT !.ok = TRUE, !.from = call[g].url])
    <2> DEFINE a == [Answer(g) EXCEPT !.ok = TRUE, !.from = call[g].url]
    <2>1. a.ok = TRUE /\ a.op = "sync"
      BY <1>2, AnswerFacts
    <2>2. Return(g, a)
      BY <1>4
    <2> HIDE DEF a
    <2>3. AnswerOK(a)
      BY <2>1 DEF AnswerOK
    <2> QED BY <1>1, <2>2, <2>3, ReturnStep
  <1>5. CASE Failed(g, TRUE)
    BY <1>1, <1>5, FailStep
  <1> QED BY <1>3, <1>4, <1>5 DEF SyncNext

\* SyncWrite
LEMMA SyncWriteStep == ASSUME IInv, NEW g \in Goroutines, SyncWrite(g) PROVE IInv'
  <1>1. /\ call[g] \in Calls /\ PlaceOK(call[g]) /\ call[g].pc = "syncWrite"
        /\ call[g].op = "sync" /\ call[g].url \in used /\ Name(g) \in Names
    BY CallFacts DEF SyncWrite, At, PlaceOK, Syncing
  <1>2. Moves(g) /\ call'[g].pc = "next" /\ call'[g].page = call[g].page
    BY <1>1 DEF SyncWrite, Goto, Moves, Turns, IInv, Typed, Calls, Steps, Syncing
  <1>3. PlaceOK(call[g])'
    BY <1>1, <1>2 DEF PlaceOK, Moves, SyncWrite, Syncing, Adding, Fetching, Pending
  <1>4. LoneFiles(g)'
    BY <1>2 DEF LoneFiles
  <1>5. call[g].pc \in Pending
    BY <1>1 DEF Pending
  <1> QED BY <1>2, <1>3, <1>4, <1>5, IndexStep DEF SyncWrite

\* Call c begins in goroutine g; the others are no longer alone.
Joins(g, c) ==
  /\ call' \in [Goroutines -> Calls]
  /\ call'[g] = c
  /\ \A h \in Goroutines : h # g =>
       /\ call'[h].alone = FALSE
       /\ call'[h].op = call[h].op /\ call'[h].url = call[h].url /\ call'[h].pc = call[h].pc
       /\ call'[h].page = call[h].page /\ call'[h].left = call[h].left
       /\ call'[h].todo = call[h].todo /\ call'[h].since = call[h].since

LEMMA JoinFacts ==
  ASSUME IInv, NEW g \in Goroutines, NEW c \in Calls,
         call' = [h \in Goroutines |-> IF h = g THEN c ELSE [call[h] EXCEPT !.alone = FALSE]]
  PROVE  Joins(g, c)
  <1>1. ASSUME NEW h \in Goroutines, h # g
        PROVE  /\ call'[h] \in Calls /\ call'[h].alone = FALSE
               /\ call'[h].op = call[h].op /\ call'[h].url = call[h].url /\ call'[h].pc = call[h].pc
               /\ call'[h].page = call[h].page /\ call'[h].left = call[h].left
               /\ call'[h].todo = call[h].todo /\ call'[h].since = call[h].since
    BY <1>1 DEF IInv, Typed, Calls
  <1>2. call'[g] = c
    OBVIOUS
  <1>3. call' \in [Goroutines -> Calls]
    BY <1>1, <1>2
  <1> QED BY <1>1, <1>2, <1>3 DEF Joins

\* The call is at its first step, what it must find is offered, and is what every call
\* under way for the same repository must find.
LEMMA BeginCall ==
  ASSUME IInv, NEW g \in Goroutines, At(g, "idle"), NEW c \in Calls, Joins(g, c),
         answer' = [answer EXCEPT ![g] = NoAnswer],
         used \subseteq used', used' \subseteq Urls, UNCHANGED <<files, outside>>,
         c.pc \in {"add", "next"}, PlaceOK(call[g])',
         c.alone => Busy = {},
         c.op # "sync" =>
           /\ c.since \subseteq offered[c.url]
           /\ \A o \in Busy : call[o].url = c.url => c.since \subseteq call[o].since
  PROVE  IInv'
  <1> USE DEF files, outside
  <1>1. ASSUME NEW h \in Goroutines, h # g
        PROVE  /\ call'[h].alone = FALSE
               /\ call'[h].op = call[h].op /\ call'[h].url = call[h].url /\ call'[h].pc = call[h].pc
               /\ call'[h].page = call[h].page /\ call'[h].left = call[h].left
               /\ call'[h].todo = call[h].todo /\ call'[h].since = call[h].since
    BY <1>1 DEF Joins
  <1>2. call'[g] = c
    BY DEF Joins
  <1>3. call' \in [Goroutines -> Calls]
    BY DEF Joins
  <1>4. /\ answer'[g] = NoAnswer /\ DOMAIN answer' = Goroutines
        /\ \A h \in Goroutines : h # g => answer'[h] = answer[h]
    BY DEF IInv, Typed
  <1>5. Typed'
    BY <1>3, <1>4 DEF IInv, Typed
  <1>6. FilesOK'
    BY DEF IInv, FilesOK
  <1>7. ASSUME NEW h \in Goroutines PROVE CallOK(h)'
    <2>1. PlaceOK(call[h])'
      <3>1. CASE h = g
        BY <3>1
      <3>2. CASE h # g
        <4>1. PlaceOK(call[h])
          BY DEF IInv, CallOK
        <4> QED BY <1>1, <3>2, <4>1 DEF PlaceOK
      <3> QED BY <3>1, <3>2
    <2>2. Single(h)' /\ LoneFiles(h)'
      <3>1. CASE h = g
        <4>1. LoneFiles(h)'
          BY <1>2, <3>1 DEF LoneFiles
        <4>2. ASSUME c.alone, NEW o \in Goroutines, o # g
              PROVE  At(o, "idle")'
          <5>1. call[o].pc = "idle"
            BY <4>2 DEF Busy, At
          <5> QED BY <1>1, <4>2, <5>1 DEF At
        <4>3. Single(h)'
          BY <1>2, <3>1, <4>2 DEF Single, Lone
        <4> QED BY <4>1, <4>3
      <3>2. CASE h # g
        BY <1>1, <3>2 DEF Single, LoneFiles, Lone
      <3> QED BY <3>1, <3>2
    <2>3. SinceOffered(h)' /\ SinceFile(h)'
      <3>1. CASE h = g
        BY <1>2, <3>1 DEF SinceOffered, SinceFile, Bound
      <3>2. CASE h # g
        BY <1>1, <3>2 DEF IInv, CallOK, SinceOffered, SinceFile, Bound, At, Name
      <3> QED BY <3>1, <3>2
    <2>4. ASSUME NEW o \in Goroutines PROVE SincePage(h, o)'
      <3>1. CASE o = g
        BY <1>2, <3>1 DEF SincePage, Pending
      <3>2. CASE o # g /\ h # g
        <4>1. /\ call'[o].pc = call[o].pc /\ call'[o].page = call[o].page
              /\ call'[h].pc = call[h].pc /\ call'[h].op = call[h].op
              /\ call'[h].url = call[h].url /\ call'[h].since = call[h].since
          BY <1>1, <3>2
        <4>2. SincePage(h, o)
          BY DEF IInv, CallOK
        <4> QED BY <4>1, <4>2 DEF SincePage, Bound, At
      <3>3. CASE o # g /\ h = g
        <4> SUFFICES ASSUME Bound(g)', call'[o].pc \in Pending, call'[o].page.url = call'[g].url
                     PROVE  call'[g].since \subseteq call'[o].page.versions
          BY <3>3 DEF SincePage
        <4>1. call[o].pc \in Pending /\ call[o].page.url = c.url /\ c.op # "sync"
          BY <1>1, <1>2, <3>3 DEF Bound
        <4>2. call[o].url = c.url /\ call[o].since \subseteq call[o].page.versions
          BY <4>1 DEF IInv, CallOK, PlaceOK
        <4>3. o \in Busy
          BY <4>1 DEF Busy, At, Pending
        <4> QED BY <1>1, <1>2, <3>3, <4>1, <4>2, <4>3
      <3> QED BY <3>1, <3>2, <3>3
    <2> QED BY <2>1, <2>2, <2>3, <2>4 DEF CallOK
  <1>8. ASSUME NEW h \in Goroutines PROVE AnswerOK(answer[h])'
    <2>1. CASE h = g
      BY <1>4, <2>1 DEF AnswerOK, NoAnswer
    <2>2. CASE h # g
      BY <1>4, <2>2 DEF IInv, AnswerOK, Explained
    <2> QED BY <2>1, <2>2
  <1> QED BY <1>5, <1>6, <1>7, <1>8 DEF IInv

\* Free
LEMMA FreeFacts == ASSUME NEW g, Free(g) PROVE g \in Goroutines /\ At(g, "idle")
  BY DEF Free, Busy

LEMMA NewCallType ==
  ASSUME NEW url \in Urls, NEW op \in {"add", "fetch", "template"}, NEW v \in Versions \cup {None},
         NEW alone \in BOOLEAN, NEW since \in SUBSET Versions
  PROVE  [NoCall EXCEPT !.op = op, !.url = url, !.version = v, !.pc = "add", !.left = Attempts,
                        !.alone = alone, !.since = since] \in Calls
  <1>1. Attempts \in 0..Attempts /\ "add" \in Steps /\ 0 \in 0..Attempts
    BY HelmAssumption DEF Steps, Adding
  <1> QED BY <1>1 DEF NoCall, Calls

\* Begin
LEMMA BeginStep ==
  ASSUME IInv, NEW g, NEW url \in Urls, NEW op \in {"add", "fetch", "template"}, Begin(g, op, url)
  PROVE  IInv'
  <1> DEFINE since == { v \in offered[url] : \A o \in Busy : call[o].url = url => v \in call[o].since }
             alone == Busy = {}
             New(v) == [NoCall EXCEPT !.op = op, !.url = url, !.version = v, !.pc = "add",
                                      !.left = Attempts, !.alone = alone, !.since = since]
  <1>1. g \in Goroutines /\ At(g, "idle")
    BY FreeFacts DEF Begin
  <1>2. since \in SUBSET Versions /\ since \subseteq offered[url]
    BY DEF IInv, Typed
  <1>3. \A o \in Busy : call[o].url = url => since \subseteq call[o].since
    OBVIOUS
  <1>4. PICK v \in Versions \cup {None} :
          call' = [h \in Goroutines |-> IF h = g THEN New(v) ELSE [call[h] EXCEPT !.alone = FALSE]]
    BY DEF Begin
  <1> DEFINE c == New(v)
  <1>5. alone \in BOOLEAN /\ (alone => Busy = {}) /\ v \in Versions \cup {None}
    BY <1>4
  <1> HIDE DEF since, alone
  <1>6. /\ c.op = op /\ c.url = url /\ c.pc = "add" /\ c.left = Attempts /\ c.since = since
        /\ c.page = None /\ c.todo = {} /\ c.alone = alone
    BY DEF NoCall
  <1>7. c \in Calls
    BY <1>2, <1>5, NewCallType
  <1> HIDE DEF New
  <1>8. Joins(g, c)
    BY <1>1, <1>4, <1>7, JoinFacts
  <1> HIDE DEF c
  <1>9. used' = used \cup {url} /\ answer' = [answer EXCEPT ![g] = NoAnswer] /\ UNCHANGED <<files, outside>>
    BY DEF Begin
  <1>10. used' \subseteq Urls /\ used \subseteq used' /\ url \in used'
    BY <1>9 DEF IInv, Typed
  <1>11. PlaceOK(call[g])'
    BY <1>6, <1>8, <1>10, HelmAssumption DEF Joins, PlaceOK, Syncing, Adding, Fetching, Pending
  <1>12. /\ c.alone => Busy = {}
         /\ c.since \subseteq offered[c.url]
         /\ \A o \in Busy : call[o].url = c.url => c.since \subseteq call[o].since
    BY <1>2, <1>3, <1>5, <1>6
  <1>13. c.pc \in {"add", "next"}
    BY <1>6
  <1> QED BY <1>1, <1>7, <1>8, <1>9, <1>10, <1>11, <1>12, <1>13, BeginCall

\* SyncBegin
LEMMA SyncBeginStep == ASSUME IInv, NEW g, SyncBegin(g) PROVE IInv'
  <1> DEFINE todo == { n \in Names : repos[n] # None }
             alone == Busy = {}
             c == [NoCall EXCEPT !.op = "sync", !.pc = "next", !.alone = alone, !.todo = todo]
  <1>1. g \in Goroutines /\ At(g, "idle")
    BY FreeFacts DEF SyncBegin
  <1>2. todo \in SUBSET Names /\ \A n \in todo : repos[n] # None
    OBVIOUS
  <1>3. call' = [h \in Goroutines |-> IF h = g THEN c ELSE [call[h] EXCEPT !.alone = FALSE]]
    BY DEF SyncBegin
  <1>4. alone \in BOOLEAN /\ (alone => Busy = {})
    OBVIOUS
  <1> HIDE DEF todo, alone
  <1>5. c.op = "sync" /\ c.pc = "next" /\ c.todo = todo /\ c.alone = alone
    BY DEF NoCall
  <1>6. c \in Calls
    <2>1. NoCall \in Calls
      BY HelmAssumption DEF NoCall, Calls, Steps
    <2>2. "next" \in Steps
      BY DEF Steps, Syncing
    <2> QED BY <1>2, <1>4, <2>1, <2>2 DEF Calls
  <1> HIDE DEF c
  <1>7. Joins(g, c)
    BY <1>1, <1>3, <1>6, JoinFacts
  <1>8. UNCHANGED <<files, outside, used>> /\ answer' = [answer EXCEPT ![g] = NoAnswer]
    BY DEF SyncBegin
  <1>9. PlaceOK(call[g])'
    <2>1. \A n \in todo : repos'[n] # None
      BY <1>2, <1>8 DEF files
    <2> QED BY <1>5, <1>7, <2>1 DEF Joins, PlaceOK, Syncing, Adding, Fetching, Pending
  <1>10. used' \subseteq Urls /\ used \subseteq used'
    BY <1>8 DEF IInv, Typed
  <1>11. (c.alone => Busy = {}) /\ c.op = "sync" /\ c.pc \in {"add", "next"}
    BY <1>4, <1>5
  <1> QED BY <1>1, <1>6, <1>7, <1>8, <1>9, <1>10, <1>11, BeginCall

\* Publish and Install: what is offered and what the cluster knows only grows.
LEMMA OutsideStep ==
  ASSUME IInv, UNCHANGED <<replaces, files, call, answer, used>>,
         kinds' \subseteq DOMAIN Scopes, offered' \in [Urls -> SUBSET Versions],
         \A url \in Urls : offered[url] \subseteq offered'[url]
  PROVE  IInv'
  <1> USE DEF files
  <1>1. Typed' /\ FilesOK'
    BY DEF IInv, Typed, FilesOK
  <1>2. ASSUME NEW g \in Goroutines PROVE CallOK(g)'
    <2>1. PlaceOK(call[g])' /\ Single(g)' /\ LoneFiles(g)' /\ SinceFile(g)'
          /\ \A o \in Goroutines : SincePage(g, o)'
      BY DEF IInv, CallOK, PlaceOK, Single, LoneFiles, Lone, SinceFile, SincePage, Bound, At, Name
    <2>2. SinceOffered(g)'
      <3> SUFFICES ASSUME Bound(g) PROVE call[g].since \subseteq offered'[call[g].url]
        BY DEF SinceOffered, Bound, At
      <3>1. call[g].url \in Urls
        <4>1. call[g].pc # "next"
          BY DEF Bound, At, IInv, CallOK, PlaceOK, Syncing
        <4> QED BY <4>1, CallFacts DEF Bound, At
      <3> QED BY <3>1 DEF IInv, CallOK, SinceOffered
    <2> QED BY <2>1, <2>2 DEF CallOK
  <1>3. ASSUME NEW g \in Goroutines PROVE AnswerOK(answer[g])'
    BY DEF IInv, AnswerOK, Explained
  <1> QED BY <1>1, <1>2, <1>3 DEF IInv

\* Init
LEMMA InitInvariant == Init => IInv
  <1> SUFFICES ASSUME Init PROVE IInv
    OBVIOUS
  <1>1. NoCall \in Calls /\ NoCall.pc = "idle" /\ NoCall.todo = {}
    BY HelmAssumption DEF NoCall, Calls, Steps
  <1>2. /\ call \in [Goroutines -> Calls] /\ \A g \in Goroutines : call[g] = NoCall
    BY <1>1 DEF Init
  <1>3. Typed
    BY <1>2, HelmAssumption DEF Init, Typed
  <1>4. FilesOK
    BY HelmAssumption DEF Init, FilesOK
  <1> HIDE DEF NoCall
  <1>5. ASSUME NEW g \in Goroutines PROVE CallOK(g)
    <2>1. PlaceOK(NoCall)
      BY <1>1 DEF PlaceOK, Syncing, Adding, Fetching, Pending
    <2> QED BY <1>1, <1>2, <2>1 DEF CallOK, Single, LoneFiles, Lone, SinceOffered, SinceFile, SincePage,
                                    Bound, At
  <1>6. ASSUME NEW g \in Goroutines PROVE AnswerOK(answer[g])
    BY DEF Init, AnswerOK, NoAnswer
  <1> QED BY <1>3, <1>4, <1>5, <1>6 DEF IInv

-----------------------------------------------------------------------------
(***************************************************************************)
(* What Render makes of a chart.                                           *)
(***************************************************************************)

\* Induction up to n, on a set of numbers.
LEMMA CountUp ==
  ASSUME NEW n \in Nat, NEW G, 0 \in G, \A i \in 1..n : i - 1 \in G => i \in G
  PROVE  0..n \subseteq G
  <1> DEFINE Bad == { i \in 0..n : i \notin G }
  <1>1. SUFFICES ASSUME Bad # {} PROVE FALSE
    OBVIOUS
  <1>2. Bad \subseteq Nat
    OBVIOUS
  <1> HIDE DEF Bad
  <1>3. PICK m \in Bad : \A k \in Bad : ~(<<k, m>> \in OpToRel(<, Nat))
    BY <1>1, <1>2, NatLessThanWellFounded, WFMin
  <1>4. m \in 0..n /\ m \notin G
    BY DEF Bad
  <1>5. m # 0 /\ m \in 1..n /\ m - 1 \in Nat /\ m - 1 \in 0..n /\ m - 1 < m
    BY <1>4
  <1>6. <<m - 1, m>> \in OpToRel(<, Nat)
    BY <1>5 DEF OpToRel
  <1>7. m - 1 \notin Bad
    BY <1>3, <1>6
  <1>8. m - 1 \in G
    BY <1>5, <1>7 DEF Bad
  <1> QED BY <1>4, <1>5, <1>8

\* A loop of n rounds: what it has after each.
Rounds(n, S, start, step, g) ==
  /\ g \in [0..n -> S]
  /\ \A i \in 0..n : g[i] = IF i = 0 THEN start ELSE step[i][g[i - 1]]

\* A loop has a result.
LEMMA LoopExists ==
  ASSUME NEW n \in Nat, NEW S, NEW start \in S, NEW step \in [1..n -> [S -> S]]
  PROVE  \E g : Rounds(n, S, start, step, g)
  <1> DEFINE Run(g, m) == Rounds(m, S, start, step, g)
             Good == { m \in 0..n : \E g : Run(g, m) }
  <1>1. 0 \in Good
    <2> DEFINE h == [i \in 0..0 |-> start]
    <2>1. Run(h, 0)
      BY DEF Rounds
    <2> HIDE DEF h
    <2>2. 0 \in 0..n
      OBVIOUS
    <2> QED BY <2>1, <2>2
  <1>2. ASSUME NEW m \in 1..n, m - 1 \in Good PROVE m \in Good
    <2>1. PICK g : Run(g, m - 1)
      BY <1>2
    <2>2. m - 1 \in 0..(m - 1) /\ m \in 0..n /\ m # 0 /\ m - 1 \in 0..m /\ m - 1 # m /\ m \in 0..m
      OBVIOUS
    <2> DEFINE last == step[m][g[m - 1]]
               h == [i \in 0..m |-> IF i = m THEN last ELSE g[i]]
    <2>3. last \in S
      BY <2>1, <2>2 DEF Rounds
    <2>4. h \in [0..m -> S]
      <3>1. \A i \in 0..m : i = m \/ i \in 0..(m - 1)
        OBVIOUS
      <3> HIDE DEF last
      <3> QED BY <2>1, <2>3, <3>1 DEF Rounds
    <2>5. ASSUME NEW i \in 0..m PROVE h[i] = IF i = 0 THEN start ELSE step[i][h[i - 1]]
      <3>1. CASE i = m
        <4>1. h[m] = last /\ h[m - 1] = g[m - 1]
          BY <2>2
        <4> HIDE DEF h
        <4> QED BY <2>2, <3>1, <4>1
      <3>2. CASE i # m
        <4>1. i \in 0..(m - 1)
          BY <2>5, <3>2
        <4>2. i - 1 # m /\ (i # 0 => i - 1 \in 0..m)
          BY <4>1
        <4> HIDE DEF last
        <4>3. h[i] = g[i] /\ (i # 0 => h[i - 1] = g[i - 1])
          BY <3>2, <4>2
        <4>4. g[i] = IF i = 0 THEN start ELSE step[i][g[i - 1]]
          BY <2>1, <4>1 DEF Rounds
        <4> HIDE DEF h
        <4> QED BY <4>3, <4>4
      <3> QED BY <3>1, <3>2
    <2> HIDE DEF h
    <2>6. Run(h, m)
      BY <2>4, <2>5 DEF Rounds
    <2> QED BY <2>2, <2>6
  <1> HIDE DEF Good
  <1>3. 0..n \subseteq Good
    BY <1>1, <1>2, CountUp
  <1>4. n \in Good
    BY <1>3
  <1> QED BY <1>4 DEF Good

\* The loop of Without: what it has kept after each round.
IsLoop(drop, n, pieces, g) ==
  /\ g[0] = <<>>
  /\ \A i \in 1..n :
       g[i] = IF pieces[i].kind \in drop THEN g[i - 1] ELSE Append(g[i - 1], pieces[i])

LEMMA WithoutLoop ==
  ASSUME NEW drop, NEW P, NEW pieces \in Seq(P)
  PROVE  \E g : /\ IsLoop(drop, Len(pieces), pieces, g)
                /\ Without(drop, pieces) = g[Len(pieces)]
                /\ \A i \in 0..Len(pieces) : g[i] \in Seq(P)
  <1> DEFINE n == Len(pieces)
             Body(f) == [i \in 0..n |->
                           IF i = 0 THEN <<>>
                           ELSE IF pieces[i].kind \in drop THEN f[i - 1]
                           ELSE Append(f[i - 1], pieces[i])]
             kept == CHOOSE f : f = Body(f)
             step == [i \in 1..n |-> [s \in Seq(P) |->
                        IF pieces[i].kind \in drop THEN s ELSE Append(s, pieces[i])]]
  <1>1. n \in Nat /\ \A i \in 1..n : pieces[i] \in P
    OBVIOUS
  <1>2. <<>> \in Seq(P)
    OBVIOUS
  <1>3. step \in [1..n -> [Seq(P) -> Seq(P)]]
    BY <1>1
  <1> HIDE DEF n
  <1>4. PICK g : Rounds(n, Seq(P), <<>>, step, g)
    <2> HIDE DEF step
    <2> QED BY <1>1, <1>2, <1>3, LoopExists
  <1>5. ASSUME NEW i \in 0..n, i # 0
        PROVE  step[i][g[i - 1]] =
                 IF pieces[i].kind \in drop THEN g[i - 1] ELSE Append(g[i - 1], pieces[i])
    <2>1. i \in 1..n /\ i - 1 \in 0..n
      BY <1>1, <1>5
    <2>2. g[i - 1] \in Seq(P)
      BY <1>4, <2>1 DEF Rounds
    <2> QED BY <2>1, <2>2
  <1> HIDE DEF step
  <1>6. g = Body(g)
    BY <1>4, <1>5 DEF Rounds
  <1>7. kept = Body(kept)
    BY <1>6
  <1>8. Without(drop, pieces) = kept[n]
    BY DEF Without, n
  <1> HIDE DEF kept
  <1>9. IsLoop(drop, n, pieces, kept)
    <2>1. kept[0] = <<>>
      BY <1>1, <1>7
    <2>2. ASSUME NEW i \in 1..n
          PROVE  kept[i] = IF pieces[i].kind \in drop THEN kept[i - 1]
                           ELSE Append(kept[i - 1], pieces[i])
      <3>1. i \in 0..n /\ i # 0
        BY <1>1
      <3> QED BY <1>7, <3>1
    <2> QED BY <2>1, <2>2 DEF IsLoop
  <1> DEFINE Good == { i \in 0..n : kept[i] \in Seq(P) }
  <1>10. 0 \in Good
    <2>1. kept[0] = <<>> /\ 0 \in 0..n
      BY <1>1, <1>9 DEF IsLoop
    <2> QED BY <1>2, <2>1
  <1>11. ASSUME NEW i \in 1..n, i - 1 \in Good PROVE i \in Good
    <2>1. i \in 0..n /\ kept[i - 1] \in Seq(P) /\ pieces[i] \in P
      BY <1>1, <1>11
    <2>2. kept[i] = IF pieces[i].kind \in drop THEN kept[i - 1] ELSE Append(kept[i - 1], pieces[i])
      BY <1>9 DEF IsLoop
    <2>3. kept[i] \in Seq(P)
      BY <2>1, <2>2
    <2> QED BY <2>1, <2>3
  <1>12. 0..n \subseteq Good
    <2> HIDE DEF Good
    <2> QED BY <1>1, <1>10, <1>11, CountUp
  <1> QED BY <1>8, <1>9, <1>12 DEF n

\* Without, piece by piece.
LEMMA WithoutAppend ==
  ASSUME NEW drop, NEW P, NEW pieces \in Seq(P), NEW last \in P
  PROVE  /\ Without(drop, pieces) \in Seq(P)
         /\ Without(drop, Append(pieces, last)) =
              IF last.kind \in drop THEN Without(drop, pieces)
              ELSE Append(Without(drop, pieces), last)
  <1> DEFINE n == Len(pieces)
             longer == Append(pieces, last)
  <1>1. /\ n \in Nat /\ longer \in Seq(P) /\ Len(longer) = n + 1 /\ longer[n + 1] = last
        /\ \A i \in 1..n : longer[i] = pieces[i]
    OBVIOUS
  <1> HIDE DEF n, longer
  <1>2. PICK g : /\ IsLoop(drop, n, pieces, g) /\ Without(drop, pieces) = g[n]
                 /\ \A i \in 0..n : g[i] \in Seq(P)
    BY WithoutLoop DEF n
  <1>3. PICK h : IsLoop(drop, n + 1, longer, h) /\ Without(drop, longer) = h[n + 1]
    BY <1>1, WithoutLoop
  <1> DEFINE Good == { i \in 0..n : g[i] = h[i] }
  <1>4. 0 \in Good
    BY <1>1, <1>2, <1>3 DEF IsLoop
  <1>5. ASSUME NEW i \in 1..n, i - 1 \in Good PROVE i \in Good
    <2>1. i \in 1..(n + 1) /\ i \in 0..n /\ g[i - 1] = h[i - 1]
      BY <1>1, <1>5
    <2>2. h[i] = IF longer[i].kind \in drop THEN h[i - 1] ELSE Append(h[i - 1], longer[i])
      BY <1>3, <2>1 DEF IsLoop
    <2>3. g[i] = IF pieces[i].kind \in drop THEN g[i - 1] ELSE Append(g[i - 1], pieces[i])
      BY <1>2 DEF IsLoop
    <2> QED BY <1>1, <2>1, <2>2, <2>3
  <1>6. n \in Good
    <2>1. 0..n \subseteq Good
      <3> HIDE DEF Good
      <3> QED BY <1>1, <1>4, <1>5, CountUp
    <2> QED BY <1>1, <2>1
  <1>7. n + 1 \in 1..(n + 1) /\ (n + 1) - 1 = n
    BY <1>1
  <1>8. h[n + 1] = IF longer[n + 1].kind \in drop THEN h[n] ELSE Append(h[n], longer[n + 1])
    BY <1>3, <1>7 DEF IsLoop
  <1>9. Without(drop, pieces) \in Seq(P)
    BY <1>1, <1>2
  <1> QED BY <1>1, <1>2, <1>3, <1>6, <1>8, <1>9 DEF longer

LEMMA WithoutNothing ==
  ASSUME NEW drop PROVE Without(drop, <<>>) = <<>>
  <1> DEFINE empty == <<>>
  <1>1. empty \in Seq({}) /\ Len(empty) = 0
    OBVIOUS
  <1> HIDE DEF empty
  <1>2. PICK g : IsLoop(drop, Len(empty), empty, g) /\ Without(drop, empty) = g[Len(empty)]
    BY <1>1, WithoutLoop
  <1>3. Without(drop, empty) = <<>>
    BY <1>1, <1>2 DEF IsLoop
  <1> QED BY <1>3 DEF empty

\* An object has its fields.
Formed(piece) == IsObject(piece) => Fields \subseteq DOMAIN piece

\* What post-processing does to an object: kind, name and specification stay, and so does
\* the namespace if there is one.
Processed(labels, ns, scope, piece, r) ==
  /\ r.kind = piece.kind
  /\ ~IsObject(piece) => r = piece
  /\ IsObject(piece) =>
       /\ r.name = piece.name /\ r.spec = piece.spec
       /\ r.labels = Merge(labels, piece.labels)
       /\ r.template = IF piece.kind \in Templated /\ piece.template # None
                       THEN Merge(labels, piece.template) ELSE piece.template
       /\ piece.ns # "" => r.ns = piece.ns
       /\ piece.ns = "" /\ piece.kind \in DOMAIN scope => r.ns = IF scope[piece.kind] THEN "" ELSE ns

LEMMA ProcessFacts ==
  ASSUME NEW labels, NEW ns, NEW scope, NEW piece, Formed(piece)
  PROVE  Processed(labels, ns, scope, piece, Process(labels, ns, scope, piece))
  <1>1. CASE ~IsObject(piece)
    BY <1>1 DEF Process, Processed
  <1>2. CASE IsObject(piece)
    <2> DEFINE out == Merge(labels, piece.labels)
               pods == IF piece.kind \in Templated /\ piece.template # None
                       THEN Merge(labels, piece.template) ELSE piece.template
               obj == [piece EXCEPT !.labels = out, !.template = pods]
               r == Process(labels, ns, scope, piece)
    <2>1. {"kind", "name", "ns", "labels", "template", "spec"} \subseteq DOMAIN piece
      BY <1>2 DEF Formed, Fields
    <2>2. AddLabels(labels, piece) = obj
      BY DEF AddLabels
    <2> HIDE DEF out, pods
    <2>3. /\ DOMAIN obj = DOMAIN piece /\ obj.kind = piece.kind /\ obj.name = piece.name
          /\ obj.ns = piece.ns /\ obj.labels = out /\ obj.template = pods
          /\ obj.spec = piece.spec
      BY <2>1
    <2> HIDE DEF obj
    <2>4. r = AddNamespace(ns, scope, obj)
      BY <1>2, <2>2 DEF Process
    <2> HIDE DEF r
    <2>5. /\ r.kind = piece.kind /\ r.name = piece.name /\ r.labels = out /\ r.template = pods
          /\ r.spec = piece.spec
          /\ piece.ns # "" => r.ns = piece.ns
          /\ piece.ns = "" /\ piece.kind \in DOMAIN scope => r.ns = IF scope[piece.kind] THEN "" ELSE ns
      BY <2>1, <2>3, <2>4 DEF AddNamespace
    <2> QED BY <1>2, <2>5 DEF out, pods, r, Processed
  <1> QED BY <1>1, <1>2

\* The pieces of a sequence, each of them processed.
Image(labels, ns, scope, pieces) ==
  [i \in 1..Len(pieces) |-> Process(labels, ns, scope, pieces[i])]

Images(labels, ns, scope, P) == { Process(labels, ns, scope, p) : p \in P }

LEMMA ImageAppend ==
  ASSUME NEW labels, NEW ns, NEW scope, NEW P, NEW pieces \in Seq(P), NEW last \in P
  PROVE  /\ Image(labels, ns, scope, Append(pieces, last)) =
              Append(Image(labels, ns, scope, pieces), Process(labels, ns, scope, last))
         /\ Image(labels, ns, scope, pieces) \in Seq(Images(labels, ns, scope, P))
  <1> DEFINE Pr(p) == Process(labels, ns, scope, p)
             image == Image(labels, ns, scope, pieces)
             n == Len(pieces)
             longer == Append(pieces, last)
  <1>1. /\ n \in Nat /\ Len(longer) = n + 1 /\ longer[n + 1] = last
        /\ \A i \in 1..n : longer[i] = pieces[i] /\ pieces[i] \in P
    OBVIOUS
  <1> HIDE DEF n, longer
  <1>2. image = [i \in 1..n |-> Pr(pieces[i])]
    BY DEF Image, n
  <1>3. image \in Seq({ Pr(p) : p \in P }) /\ Len(image) = n
    BY <1>1, <1>2
  <1> DEFINE Q == { Pr(p) : p \in P }
             two == Image(labels, ns, scope, longer)
             three == Append(image, Pr(last))
  <1>4. /\ two \in Seq(Q) /\ Len(two) = n + 1 /\ \A i \in 1..(n + 1) : two[i] = Pr(longer[i])
    <2>1. two = [i \in 1..(n + 1) |-> Pr(longer[i])]
      BY <1>1 DEF Image
    <2>2. \A i \in 1..(n + 1) : longer[i] \in P
      BY <1>1
    <2> QED BY <1>1, <2>1, <2>2
  <1>5. /\ three \in Seq(Q) /\ Len(three) = n + 1 /\ three[n + 1] = Pr(last)
        /\ \A i \in 1..n : three[i] = image[i]
    <2>1. Pr(last) \in Q
      OBVIOUS
    <2> HIDE DEF image, Q, Pr
    <2> QED BY <1>1, <1>3, <2>1 DEF Q
  <1>6. ASSUME NEW i \in 1..(n + 1) PROVE two[i] = three[i]
    <2>1. i = n + 1 \/ i \in 1..n
      BY <1>1
    <2> QED BY <1>1, <1>2, <1>4, <1>5, <2>1
  <1>7. Image(labels, ns, scope, longer) = Append(image, Pr(last))
    <2> HIDE DEF two, three, Q
    <2>1. two = three
      BY <1>4, <1>5, <1>6, SeqEqual
    <2> QED BY <2>1 DEF two, three
  <1> QED BY <1>3, <1>7 DEF longer, Images

\* Render: exactly the objects of the chart come out, each processed, in order.
LEMMA RenderedObjects ==
  ASSUME NEW labels, NEW ns, NEW scope, NEW P, NEW manifest \in Seq(P),
         \A piece \in P : Formed(piece)
  PROVE  LET objects == Without(Others, manifest)
         IN  /\ RenderedChart(manifest, labels, ns, scope) = Image(labels, ns, scope, objects)
             /\ objects \in Seq({ piece \in P : IsObject(piece) })
  <1> DEFINE Pr(p) == Process(labels, ns, scope, p)
             Im(s) == Image(labels, ns, scope, s)
             Objects == { piece \in P : IsObject(piece) }
             n == Len(manifest)
             Upto(k) == SubSeq(manifest, 1, k)
             docs(k) == Without({"blank"}, Upto(k))
             objects(k) == Without(Others, Upto(k))
             Good == { k \in 0..n : /\ Without(Others, Im(docs(k))) = Im(objects(k))
                                    /\ objects(k) \in Seq(Objects) }
  <1>1. n \in Nat /\ \A k \in 0..n : Upto(k) \in Seq(P)
    OBVIOUS
  <1>2. 0 \in Good
    <2>1. Upto(0) = <<>>
      OBVIOUS
    <2>2. docs(0) = <<>> /\ objects(0) = <<>>
      BY <2>1, WithoutNothing
    <2>3. Im(<<>>) = <<>>
      BY DEF Image
    <2>4. Without(Others, Im(docs(0))) = Im(objects(0))
      BY <2>2, <2>3, WithoutNothing
    <2>5. objects(0) \in Seq(Objects)
      <3>1. <<>> \in Seq(Objects)
        OBVIOUS
      <3> HIDE DEF Objects, objects
      <3> QED BY <2>2, <3>1
    <2> HIDE DEF docs, objects
    <2> QED BY <1>1, <2>4, <2>5
  <1>3. ASSUME NEW k \in 1..n, k - 1 \in Good PROVE k \in Good
    <2> DEFINE x == manifest[k]
               b == Upto(k - 1)
               d == docs(k - 1)
               o == objects(k - 1)
    <2>1. /\ k \in 0..n /\ k - 1 \in 0..n /\ x \in P /\ b \in Seq(P)
          /\ Upto(k) = Append(b, x)
      BY <1>1
    <2>2. /\ d \in Seq(P) /\ o \in Seq(P)
          /\ docs(k) = IF x.kind = "blank" THEN d ELSE Append(d, x)
          /\ objects(k) = IF x.kind \in Others THEN o ELSE Append(o, x)
      <3> HIDE DEF b, x
      <3>1. /\ Without({"blank"}, b) \in Seq(P)
            /\ Without({"blank"}, Append(b, x)) =
                 IF x.kind \in {"blank"} THEN Without({"blank"}, b)
                 ELSE Append(Without({"blank"}, b), x)
        BY <2>1, WithoutAppend
      <3>2. /\ Without(Others, b) \in Seq(P)
            /\ Without(Others, Append(b, x)) =
                 IF x.kind \in Others THEN Without(Others, b) ELSE Append(Without(Others, b), x)
        BY <2>1, WithoutAppend
      <3>3. d = Without({"blank"}, b) /\ o = Without(Others, b)
        BY DEF b
      <3>4. docs(k) = Without({"blank"}, Append(b, x)) /\ objects(k) = Without(Others, Append(b, x))
        BY <2>1
      <3> HIDE DEF docs, objects
      <3> QED BY <3>1, <3>2, <3>3, <3>4
    <2>3. Without(Others, Im(d)) = Im(o) /\ o \in Seq(Objects)
      BY <1>3
    <2> HIDE DEF x, b, d, o, docs, objects
    <2>4. Pr(x).kind = x.kind
      <3>1. Formed(x)
        BY <2>1
      <3>2. Processed(labels, ns, scope, x, Pr(x))
        BY <3>1, ProcessFacts
      <3> QED BY <3>2 DEF Processed
    <2>5. /\ Im(Append(d, x)) = Append(Im(d), Pr(x)) /\ Im(d) \in Seq(Images(labels, ns, scope, P))
          /\ Im(Append(o, x)) = Append(Im(o), Pr(x))
      <3>1. x \in P /\ d \in Seq(P) /\ o \in Seq(P)
        BY <2>1, <2>2
      <3>2. Im(Append(d, x)) = Append(Im(d), Pr(x)) /\ Im(d) \in Seq(Images(labels, ns, scope, P))
        BY <3>1, ImageAppend
      <3>3. /\ Im(Append(o, x)) = Append(Im(o), Pr(x))
            /\ Im(o) \in Seq(Images(labels, ns, scope, P))
        BY <3>1, ImageAppend
      <3> QED BY <3>2, <3>3
    <2>6. Without(Others, Append(Im(d), Pr(x))) =
            IF x.kind \in Others THEN Without(Others, Im(d))
            ELSE Append(Without(Others, Im(d)), Pr(x))
      <3>1. Pr(x) \in Images(labels, ns, scope, P)
        BY <2>1 DEF Images
      <3> QED BY <2>4, <2>5, <3>1, WithoutAppend
    <2>7. Without(Others, Im(docs(k))) = Im(objects(k))
      <3>1. CASE x.kind = "blank"
        BY <2>2, <2>3, <3>1 DEF Others
      <3>2. CASE x.kind # "blank" /\ x.kind \in Others
        BY <2>2, <2>3, <2>5, <2>6, <3>2
      <3>3. CASE x.kind \notin Others
        <4>1. x.kind # "blank"
          BY <3>3 DEF Others
        <4> QED BY <2>2, <2>3, <2>5, <2>6, <3>3, <4>1
      <3> QED BY <3>1, <3>2, <3>3
    <2>8. objects(k) \in Seq(Objects)
      <3>1. CASE x.kind \in Others
        BY <2>2, <2>3, <3>1
      <3>2. CASE x.kind \notin Others
        <4>1. x \in Objects
          BY <2>1, <3>2 DEF IsObject
        <4> HIDE DEF Objects
        <4> QED BY <2>2, <2>3, <3>2, <4>1
      <3> QED BY <3>1, <3>2
    <2> QED BY <2>1, <2>7, <2>8
  <1>4. n \in Good
    <2>1. 0..n \subseteq Good
      <3> HIDE DEF Good, n
      <3> QED BY <1>1, <1>2, <1>3, CountUp
    <2> HIDE DEF Good
    <2> QED BY <1>1, <2>1
  <1>5. Upto(n) = manifest
    OBVIOUS
  <1>6. RenderedChart(manifest, labels, ns, scope) = Without(Others, Im(Without({"blank"}, manifest)))
    BY DEF RenderedChart, SplitYAML, PostProcessManifests, Image
  <1> QED BY <1>4, <1>5, <1>6

\* A merged set of labels has the new ones.
LEMMA MergeFacts ==
  ASSUME NEW new, NEW old
  PROVE  \A l \in DOMAIN new : l \in DOMAIN Merge(new, old) /\ Merge(new, old)[l] = new[l]
  BY DEF Merge

-----------------------------------------------------------------------------
(***************************************************************************)
(* Folds over a finite set.                                                *)
(***************************************************************************)

\* Induction on the subsets of a finite set.
LEMMA GrowUp ==
  ASSUME NEW S, IsFiniteSet(S), NEW G, {} \in G,
         \A s \in SUBSET S : s # {} /\ (\A x \in s : s \ {x} \in G) => s \in G
  PROVE  SUBSET S \subseteq G
  <1> DEFINE n == Cardinality(S)
             Small(m) == { s \in SUBSET S : Cardinality(s) <= m }
             Good == { m \in 0..n : Small(m) \subseteq G }
  <1>1. n \in Nat
    BY FS_CardinalityType
  <1>2. ASSUME NEW s \in SUBSET S
        PROVE  IsFiniteSet(s) /\ Cardinality(s) \in Nat /\ Cardinality(s) <= n
    BY FS_CardinalityType, FS_Subset
  <1> HIDE DEF n
  <1>3. 0 \in Good
    <2>1. ASSUME NEW s \in Small(0) PROVE s \in G
      <3>1. Cardinality(s) = 0 /\ IsFiniteSet(s)
        BY <1>2
      <3> QED BY <3>1, FS_EmptySet
    <2> QED BY <1>1, <2>1
  <1>4. ASSUME NEW m \in 1..n, m - 1 \in Good PROVE m \in Good
    <2>1. ASSUME NEW s \in Small(m) PROVE s \in G
      <3>1. ASSUME NEW x \in s PROVE s \ {x} \in G
        <4>1. Cardinality(s \ {x}) = Cardinality(s) - 1
          BY <1>2, FS_RemoveElement
        <4>2. s \ {x} \in SUBSET S /\ Cardinality(s) \in Nat /\ Cardinality(s) <= m
          BY <1>2
        <4>3. Cardinality(s \ {x}) <= m - 1
          BY <4>1, <4>2
        <4>4. Small(m - 1) \subseteq G
          BY <1>4
        <4> QED BY <4>2, <4>3, <4>4
      <3> QED BY <3>1
    <2>2. m \in 0..n
      OBVIOUS
    <2> HIDE DEF Small
    <2> QED BY <2>1, <2>2
  <1>5. 0..n \subseteq Good
    <2> HIDE DEF Good
    <2> QED BY <1>1, <1>3, <1>4, CountUp
  <1>6. Small(n) \subseteq G
    BY <1>1, <1>5
  <1> QED BY <1>2, <1>6

\* The element a fold takes next.
Pick(s) == CHOOSE x \in s : TRUE

LEMMA PickFacts == ASSUME NEW s, s # {} PROVE Pick(s) \in s
  BY DEF Pick

\* A fold of step over the sets of D.
Folded(D, A, start, step, f) ==
  /\ f \in [D -> A]
  /\ \A s \in D : f[s] = IF s = {} THEN start ELSE step[Pick(s)][f[s \ {Pick(s)}]]

\* A fold has a result.
LEMMA FoldExists ==
  ASSUME NEW S, IsFiniteSet(S), NEW A, NEW start \in A, NEW step \in [S -> [A -> A]]
  PROVE  \E f : Folded(SUBSET S, A, start, step, f)
  <1> DEFINE n == Cardinality(S)
             Small(m) == { s \in SUBSET S : Cardinality(s) <= m }
             Good == { m \in 0..n : \E f : Folded(Small(m), A, start, step, f) }
  <1>1. n \in Nat
    BY FS_CardinalityType
  <1>2. ASSUME NEW s \in SUBSET S
        PROVE  IsFiniteSet(s) /\ Cardinality(s) \in Nat /\ Cardinality(s) <= n
    BY FS_CardinalityType, FS_Subset
  <1>3. ASSUME NEW s \in SUBSET S, s # {}
        PROVE  /\ Pick(s) \in S /\ s \ {Pick(s)} \in SUBSET S
               /\ Cardinality(s \ {Pick(s)}) = Cardinality(s) - 1
    BY <1>2, <1>3, PickFacts, FS_RemoveElement
  <1> HIDE DEF n
  <1>4. 0 \in Good
    <2>1. \A s \in Small(0) : s = {}
      BY <1>2, FS_EmptySet
    <2> DEFINE h == [s \in Small(0) |-> start]
    <2>2. Folded(Small(0), A, start, step, h)
      <3> HIDE DEF Small
      <3>1. h \in [Small(0) -> A] /\ \A s \in Small(0) : h[s] = start
        OBVIOUS
      <3> HIDE DEF h
      <3> QED BY <2>1, <3>1 DEF Folded
    <2> HIDE DEF h, Small
    <2> QED BY <1>1, <2>2
  <1>5. ASSUME NEW m \in 1..n, m - 1 \in Good PROVE m \in Good
    <2>1. PICK f : Folded(Small(m - 1), A, start, step, f)
      BY <1>5
    <2>2. \A s \in Small(m - 1) : s \in Small(m)
      BY <1>2
    <2>3. ASSUME NEW s \in Small(m), s # {}
          PROVE  Pick(s) \in S /\ s \ {Pick(s)} \in Small(m - 1)
      BY <1>2, <1>3, <2>3
    <2> HIDE DEF Small
    <2> DEFINE h == [s \in Small(m) |-> IF s = {} THEN start ELSE step[Pick(s)][f[s \ {Pick(s)}]]]
    <2>4. h \in [Small(m) -> A]
      BY <2>1, <2>3 DEF Folded
    <2>5. \A s \in Small(m - 1) : h[s] = f[s]
      BY <2>1, <2>2 DEF Folded
    <2>6. ASSUME NEW s \in Small(m)
          PROVE  h[s] = IF s = {} THEN start ELSE step[Pick(s)][h[s \ {Pick(s)}]]
      BY <2>3, <2>5
    <2> HIDE DEF h
    <2>7. Folded(Small(m), A, start, step, h)
      BY <2>4, <2>6 DEF Folded
    <2> QED BY <2>7
  <1>6. 0..n \subseteq Good
    <2> HIDE DEF Good
    <2> QED BY <1>1, <1>4, <1>5, CountUp
  <1>7. \E f : Folded(Small(n), A, start, step, f)
    <2>1. n \in Good
      <3> HIDE DEF Good
      <3> QED BY <1>1, <1>6
    <2> HIDE DEF Small
    <2> QED BY <2>1
  <1>8. \A s \in SUBSET S : s \in Small(n)
    BY <1>2
  <1>9. Small(n) = SUBSET S
    BY <1>8
  <1> QED BY <1>7, <1>9

\* The sums of the weights of subsets, as the folds of the library compute them.
IsSum(S, w, sum) ==
  /\ sum \in [SUBSET S -> Int]
  /\ \A s \in SUBSET S : sum[s] = IF s = {} THEN 0 ELSE w[Pick(s)] + sum[s \ {Pick(s)}]

LEMMA SumExists ==
  ASSUME NEW S, IsFiniteSet(S), NEW w \in [S -> Int]
  PROVE  \E sum : IsSum(S, w, sum)
  <1> DEFINE step == [x \in S |-> [v \in Int |-> w[x] + v]]
  <1>1. step \in [S -> [Int -> Int]] /\ 0 \in Int
    OBVIOUS
  <1>2. PICK f : Folded(SUBSET S, Int, 0, step, f)
    <2> HIDE DEF step
    <2> QED BY <1>1, FoldExists
  <1>3. ASSUME NEW s \in SUBSET S, s # {}
        PROVE  step[Pick(s)][f[s \ {Pick(s)}]] = w[Pick(s)] + f[s \ {Pick(s)}]
    <2>1. Pick(s) \in S /\ s \ {Pick(s)} \in SUBSET S
      BY <1>3, PickFacts
    <2>2. f[s \ {Pick(s)}] \in Int
      BY <1>2, <2>1 DEF Folded
    <2> QED BY <2>1, <2>2
  <1> HIDE DEF step
  <1> QED BY <1>2, <1>3 DEF Folded, IsSum

\* In whichever order the elements are taken.
LEMMA SumTakes ==
  ASSUME NEW S, IsFiniteSet(S), NEW w \in [S -> Int], NEW sum, IsSum(S, w, sum),
         NEW s \in SUBSET S, NEW x \in s
  PROVE  sum[s] = w[x] + sum[s \ {x}]
  <1> DEFINE G == { t \in SUBSET S : \A y \in t : sum[t] = w[y] + sum[t \ {y}] }
  <1>1. {} \in G
    OBVIOUS
  <1>2. ASSUME NEW t \in SUBSET S, t # {}, \A y \in t : t \ {y} \in G
        PROVE  t \in G
    <2> DEFINE c == Pick(t)
    <2>1. c \in t /\ sum[t] = w[c] + sum[t \ {c}]
      BY <1>2, PickFacts DEF IsSum
    <2> HIDE DEF c
    <2>2. ASSUME NEW y \in t PROVE sum[t] = w[y] + sum[t \ {y}]
      <3>1. CASE y = c
        BY <2>1, <3>1
      <3>2. CASE y # c
        <4>1. y \in t \ {c} /\ c \in t \ {y} /\ (t \ {c}) \ {y} = (t \ {y}) \ {c}
          BY <2>1, <3>2
        <4>2. sum[t \ {c}] = w[y] + sum[(t \ {c}) \ {y}] /\ sum[t \ {y}] = w[c] + sum[(t \ {y}) \ {c}]
          BY <1>2, <2>1, <4>1
        <4>3. w[y] \in Int /\ w[c] \in Int /\ sum[(t \ {c}) \ {y}] \in Int
          BY <2>1 DEF IsSum
        <4> DEFINE rest == sum[(t \ {c}) \ {y}]
        <4>4. sum[t] = w[c] + (w[y] + rest) /\ sum[t \ {y}] = w[c] + rest
          BY <2>1, <4>1, <4>2
        <4> HIDE DEF rest
        <4>5. w[c] + (w[y] + rest) = w[y] + (w[c] + rest)
          BY <4>3 DEF rest
        <4> QED BY <4>4, <4>5
      <3> QED BY <3>1, <3>2
    <2> QED BY <2>2
  <1>3. SUBSET S \subseteq G
    <2> HIDE DEF G
    <2> QED BY <1>1, <1>2, GrowUp
  <1> QED BY <1>3

-----------------------------------------------------------------------------
(***************************************************************************)
(* What the parsers of internal/resources add up.                          *)
(***************************************************************************)

Totals == UNION { [names -> Int] : names \in SUBSET Range(Lower) }

\* A quantity more.
LEMMA AddQuantityFacts ==
  ASSUME NEW T \in Totals, NEW key \in Range(Lower), NEW q \in Int
  PROVE  /\ AddQuantity(T, key, q) \in Totals
         /\ DOMAIN AddQuantity(T, key, q) = DOMAIN T \cup {key}
         /\ \A name \in DOMAIN T : name # key => AddQuantity(T, key, q)[name] = T[name]
         /\ AddQuantity(T, key, q)[key] = IF key \in DOMAIN T THEN T[key] + q ELSE q
  <1> DEFINE U == AddQuantity(T, key, q)
  <1>1. PICK names \in SUBSET Range(Lower) : T \in [names -> Int]
    BY DEF Totals
  <1>2. DOMAIN T = names /\ \A name \in names : T[name] \in Int
    BY <1>1
  <1>3. U = [name \in names \cup {key} |->
               IF name # key THEN T[name] ELSE IF key \in names THEN T[key] + q ELSE q]
    BY <1>2 DEF AddQuantity
  <1> HIDE DEF U
  <1>4. U \in [names \cup {key} -> Int] /\ names \cup {key} \in SUBSET Range(Lower)
    BY <1>2, <1>3
  <1>5. U \in Totals
    BY <1>4 DEF Totals
  <1> QED BY <1>2, <1>3, <1>5 DEF U

\* The rounds of addResources over the names of a map.
Round(input, T, k) ==
  IF Counted(input[k]) THEN AddQuantity(T, Lower[k], input[k].amount) ELSE T

IsAdding(input, T, f) ==
  /\ f \in [SUBSET DOMAIN input -> Totals]
  /\ \A s \in SUBSET DOMAIN input :
       f[s] = IF s = {} THEN T ELSE Round(input, f[s \ {Pick(s)}], Pick(s))

LEMMA RoundType ==
  ASSUME NEW input, IsAmounts(input), input \notin {None, Invalid}, NEW T \in Totals,
         NEW k \in DOMAIN input
  PROVE  Round(input, T, k) \in Totals
  <1>1. k \in DOMAIN Lower /\ (Counted(input[k]) => input[k].amount \in Int)
    BY DEF IsAmounts, Counted, Quantities
  <1>2. Lower[k] \in Range(Lower)
    BY <1>1 DEF Range
  <1>3. CASE ~Counted(input[k])
    BY <1>3 DEF Round
  <1>4. CASE Counted(input[k])
    BY <1>1, <1>2, <1>4, AddQuantityFacts DEF Round
  <1> QED BY <1>3, <1>4

LEMMA AddingLoop ==
  ASSUME NEW input, IsAmounts(input), input \notin {None, Invalid}, NEW T \in Totals
  PROVE  \E f : IsAdding(input, T, f) /\ AddResources(T, input) = f[DOMAIN input]
  <1> DEFINE D == DOMAIN input
             Body(f) == [s \in SUBSET D |->
                           IF s = {} THEN T
                           ELSE LET k == CHOOSE x \in s : TRUE
                                IN  IF Counted(input[k])
                                    THEN AddQuantity(f[s \ {k}], Lower[k], input[k].amount)
                                    ELSE f[s \ {k}]]
             iter == CHOOSE f : f = Body(f)
             step == [k \in D |-> [U \in Totals |-> Round(input, U, k)]]
  <1>1. IsFiniteSet(D)
    <2>1. D \in SUBSET DOMAIN Lower
      BY DEF IsAmounts
    <2> QED BY <2>1, ManifestsAssumption, FS_Subset
  <1>2. step \in [D -> [Totals -> Totals]]
    BY RoundType
  <1>3. AddResources(T, input) = iter[D]
    BY DEF AddResources, FoldSet, MapThenFoldSet
  <1> HIDE DEF D
  <1>4. PICK f : Folded(SUBSET D, Totals, T, step, f)
    <2> HIDE DEF step
    <2> QED BY <1>1, <1>2, FoldExists
  <1>5. ASSUME NEW s \in SUBSET D, s # {}
        PROVE  /\ Pick(s) \in D /\ s \ {Pick(s)} \in SUBSET D
               /\ step[Pick(s)][f[s \ {Pick(s)}]] = Round(input, f[s \ {Pick(s)}], Pick(s))
    <2>1. Pick(s) \in D /\ s \ {Pick(s)} \in SUBSET D
      BY <1>5, PickFacts
    <2>2. f[s \ {Pick(s)}] \in Totals
      BY <1>4, <2>1 DEF Folded
    <2> QED BY <2>1, <2>2
  <1> HIDE DEF step
  <1>6. /\ f \in [SUBSET D -> Totals]
        /\ \A s \in SUBSET D : f[s] = IF s = {} THEN T ELSE Round(input, f[s \ {Pick(s)}], Pick(s))
    BY <1>4, <1>5 DEF Folded
  <1>7. \A g : Body(g) = [s \in SUBSET D |-> IF s = {} THEN T
                                            ELSE Round(input, g[s \ {Pick(s)}], Pick(s))]
    BY DEF Round, Pick
  <1> HIDE DEF Body
  <1>8. f = Body(f)
    BY <1>6, <1>7
  <1>9. iter = Body(iter)
    BY <1>8
  <1> HIDE DEF iter
  <1>10. \A s \in SUBSET D :
           iter[s] = IF s = {} THEN T ELSE Round(input, iter[s \ {Pick(s)}], Pick(s))
    BY <1>7, <1>9
  <1> DEFINE G == { s \in SUBSET D : iter[s] = f[s] }
  <1>11. {} \in G
    BY <1>6, <1>10
  <1>12. ASSUME NEW s \in SUBSET D, s # {}, \A x \in s : s \ {x} \in G
         PROVE  s \in G
    BY <1>6, <1>10, <1>12, PickFacts
  <1>13. SUBSET D \subseteq G
    <2> HIDE DEF G
    <2> QED BY <1>1, <1>11, <1>12, GrowUp
  <1>14. iter[D] = f[D]
    BY <1>13
  <1> QED BY <1>3, <1>6, <1>14 DEF IsAdding, D

\* Those who ask for a quantity, in text, and how much of it.
Asked(objects, field, name) ==
  { p \in (DOMAIN objects) \X (DOMAIN Lower) :
      LET asks == objects[p[1]][field]
      IN  /\ asks # None /\ p[2] \in DOMAIN asks
          /\ Lower[p[2]] = name /\ Counted(asks[p[2]]) }

\* The first i of them.
AskedUpto(objects, field, name, i) == { p \in Asked(objects, field, name) : p[1] <= i }

Weights(objects, field, name) ==
  [p \in Asked(objects, field, name) |-> objects[p[1]][field][p[2]].amount]

\* The total of a name is the sum over the pairs of A.
Right(sum, name, T, A) ==
  /\ name \in DOMAIN T <=> A # {}
  /\ name \in DOMAIN T => T[name] = sum[A]

LEMMA RightQuantity ==
  ASSUME NEW S, IsFiniteSet(S), NEW w \in [S -> Int], NEW sum, IsSum(S, w, sum),
         NEW name, NEW T \in Totals, NEW A \in SUBSET S, Right(sum, name, T, A),
         NEW q \in Int, name \in Range(Lower), NEW p \in S \ A, w[p] = q
  PROVE  Right(sum, name, AddQuantity(T, name, q), A \cup {p})
  <1> DEFINE U == AddQuantity(T, name, q)
  <1>1. DOMAIN U = DOMAIN T \cup {name} /\ U[name] = IF name \in DOMAIN T THEN T[name] + q ELSE q
    BY DEF AddQuantity
  <1> HIDE DEF U
  <1>2. (A \cup {p}) \ {p} = A /\ A \cup {p} \in SUBSET S /\ p \in A \cup {p}
    OBVIOUS
  <1>3. sum[A \cup {p}] = q + sum[A]
    BY <1>2, SumTakes
  <1>4. sum[A] \in Int /\ sum[{}] = 0
    BY DEF IsSum
  <1>5. CASE name \in DOMAIN T
    BY <1>1, <1>3, <1>4, <1>5 DEF Right, U
  <1>6. CASE name \notin DOMAIN T
    BY <1>1, <1>3, <1>4, <1>6 DEF Right, U
  <1> QED BY <1>5, <1>6

\* Requests and limits that are maps, or absent.
AreMaps(objects) ==
  AreAskers(objects) /\ \A i \in DOMAIN objects : \A field \in {"requests", "limits"} :
                          objects[i][field] # Invalid

LEMMA MapsFacts ==
  ASSUME NEW objects, AreAskers(objects), ~CollectFails(objects)
  PROVE  AreMaps(objects)
  BY DEF AreMaps, CollectFails

LEMMA AskedFacts ==
  ASSUME NEW objects, AreMaps(objects), NEW field \in {"requests", "limits"}, NEW name
  PROVE  /\ IsFiniteSet(Asked(objects, field, name))
         /\ Weights(objects, field, name) \in [Asked(objects, field, name) -> Int]
  <1> DEFINE S == Asked(objects, field, name)
  <1>1. objects \in Seq(Range(objects)) /\ Len(objects) \in Nat /\ DOMAIN objects = 1..Len(objects)
    BY DEF AreMaps, AreAskers
  <1>2. IsFiniteSet(DOMAIN objects)
    BY <1>1, FS_Interval
  <1>3. IsFiniteSet((DOMAIN objects) \X (DOMAIN Lower))
    BY <1>2, ManifestsAssumption, FS_Product
  <1>4. S \in SUBSET ((DOMAIN objects) \X (DOMAIN Lower))
    BY DEF Asked
  <1>5. IsFiniteSet(S)
    <2> HIDE DEF S
    <2> QED BY <1>3, <1>4, FS_Subset
  <1>6. ASSUME NEW p \in S PROVE objects[p[1]][field][p[2]].amount \in Int
    <2> DEFINE asks == objects[p[1]][field]
    <2>1. p[1] \in DOMAIN objects /\ asks # None /\ p[2] \in DOMAIN asks /\ Counted(asks[p[2]])
      BY DEF Asked
    <2>2. IsAmounts(asks) /\ asks # Invalid
      BY <2>1 DEF AreMaps, AreAskers
    <2> HIDE DEF asks
    <2>3. asks[p[2]].amount \in Int
      BY <2>1, <2>2 DEF IsAmounts, Counted, Quantities
    <2> QED BY <2>3 DEF asks
  <1> QED BY <1>5, <1>6 DEF Weights

\* addResources keeps the types.
LEMMA AddResourcesType ==
  ASSUME NEW objects, AreMaps(objects), NEW field \in {"requests", "limits"},
         NEW i \in DOMAIN objects, NEW T \in Totals
  PROVE  AddResources(T, objects[i][field]) \in Totals
  <1> DEFINE input == objects[i][field]
  <1>1. IsAmounts(input) /\ input # Invalid
    BY DEF AreMaps, AreAskers
  <1> HIDE DEF input
  <1>2. CASE input = None
    BY <1>2 DEF AddResources, input
  <1>3. CASE input # None
    <2>1. PICK f : IsAdding(input, T, f) /\ AddResources(T, input) = f[DOMAIN input]
      BY <1>1, <1>3, AddingLoop
    <2> QED BY <2>1 DEF IsAdding, input
  <1> QED BY <1>2, <1>3

\* One asker more: addResources adds what it asks for to the right totals.
LEMMA RightAsker ==
  ASSUME NEW objects, AreMaps(objects), NEW field \in {"requests", "limits"},
         NEW name \in Range(Lower),
         NEW sum, IsSum(Asked(objects, field, name), Weights(objects, field, name), sum),
         NEW i \in DOMAIN objects, NEW T \in Totals,
         Right(sum, name, T, AskedUpto(objects, field, name, i - 1))
  PROVE  Right(sum, name, AddResources(T, objects[i][field]), AskedUpto(objects, field, name, i))
  <1> DEFINE S == Asked(objects, field, name)
             w == Weights(objects, field, name)
             input == objects[i][field]
             D == DOMAIN input
             Part(s) == { p \in S : p[1] <= i - 1 \/ (p[1] = i /\ p[2] \in s) }
  <1>1. IsAmounts(input) /\ input # Invalid /\ i \in Int /\ \A p \in S : p[1] \in Int
    BY DEF AreMaps, AreAskers, Asked
  <1>2. IsFiniteSet(S) /\ w \in [S -> Int]
    BY AskedFacts
  <1>3. ASSUME NEW p \in S PROVE p[1] <= i <=> p[1] <= i - 1 \/ p[1] = i
    BY <1>1
  <1>4. ASSUME NEW p \in S, p[1] = i
        PROVE  /\ input # None /\ p[2] \in D /\ Counted(input[p[2]]) /\ Lower[p[2]] = name
               /\ p = <<i, p[2]>>
    BY <1>4 DEF Asked
  <1>5. ASSUME NEW k \in D, input # None, Counted(input[k]), Lower[k] = name
        PROVE  <<i, k>> \in S /\ w[<<i, k>>] = input[k].amount
    <2>1. k \in DOMAIN Lower
      BY <1>1, <1>5 DEF IsAmounts
    <2>2. <<i, k>> \in S
      BY <1>5, <2>1 DEF Asked
    <2> QED BY <2>2 DEF Weights
  <1>6. /\ Part({}) = AskedUpto(objects, field, name, i - 1)
        /\ Part(D) = AskedUpto(objects, field, name, i)
    <2>1. \A p \in S : p[1] <= i <=> p[1] <= i - 1 \/ (p[1] = i /\ p[2] \in D)
      <3> HIDE DEF S, D
      <3> QED BY <1>3, <1>4
    <2>2. \A p \in S : p[1] <= i - 1 <=> p[1] <= i - 1 \/ (p[1] = i /\ p[2] \in {})
      OBVIOUS
    <2>3. \A j : AskedUpto(objects, field, name, j) = { p \in S : p[1] <= j }
      BY DEF AskedUpto
    <2> HIDE DEF S, D
    <2> QED BY <2>1, <2>2, <2>3
  <1>7. CASE input = None
    <2>1. Part(D) = Part({})
      <3>1. \A p \in S : p[1] # i
        BY <1>4, <1>7
      <3> HIDE DEF S, D
      <3> QED BY <3>1
    <2>2. AddResources(T, input) = T
      BY <1>7 DEF AddResources
    <2> HIDE DEF Part
    <2> QED BY <1>6, <2>1, <2>2
  <1>8. CASE input # None
    <2>1. PICK f : IsAdding(input, T, f) /\ AddResources(T, input) = f[D]
      BY <1>1, <1>8, AddingLoop
    <2> DEFINE G == { s \in SUBSET D : Right(sum, name, f[s], Part(s)) }
    <2>2. f[{}] = T
      BY <2>1 DEF IsAdding
    <2>3. {} \in G
      <3> HIDE DEF Part
      <3> QED BY <1>6, <2>2
    <2>4. ASSUME NEW s \in SUBSET D, s # {}, \A x \in s : s \ {x} \in G
          PROVE  s \in G
      <3> DEFINE k == Pick(s)
                 U == f[s \ {k}]
                 A == Part(s \ {k})
      <3>1. k \in s /\ k \in D
        BY <2>4, PickFacts
      <3>2. Right(sum, name, U, A)
        BY <2>4, <3>1
      <3>3. U \in Totals /\ f[s] = Round(input, U, k)
        BY <2>1, <2>4, <3>1 DEF IsAdding
      <3> HIDE DEF k, U
      <3>4. Part(s) = IF <<i, k>> \in S THEN A \cup {<<i, k>>} ELSE A
        <4>1. ASSUME NEW p \in S
              PROVE  p \in Part(s) <=> p \in A \/ p = <<i, k>>
          <5>1. CASE p[1] = i
            <6>1. p[2] \in s <=> p[2] \in s \ {k} \/ p[2] = k
              BY <3>1
            <6>2. p = <<i, k>> <=> p[2] = k
              BY <1>4, <5>1
            <6> HIDE DEF S
            <6> QED BY <5>1, <6>1, <6>2
          <5>2. CASE p[1] # i
            <6>1. p # <<i, k>>
              BY <5>2
            <6> HIDE DEF S
            <6> QED BY <5>2, <6>1
          <5> QED BY <5>1, <5>2
        <4>2. Part(s) \subseteq S /\ A \subseteq S
          <5> HIDE DEF S
          <5> QED OBVIOUS
        <4> HIDE DEF S, A, Part
        <4> QED BY <4>1, <4>2
      <3>5. A \in SUBSET S /\ <<i, k>> \notin A
        BY <1>1
      <3>6. k \in DOMAIN Lower /\ (Counted(input[k]) => input[k].amount \in Int)
        BY <1>1, <1>8, <3>1 DEF IsAmounts, Counted, Quantities
      <3> HIDE DEF A
      <3>7. CASE ~Counted(input[k])
        <4>1. <<i, k>> \notin S
          BY <1>4, <3>7
        <4>2. f[s] = U
          BY <3>3, <3>7 DEF Round
        <4> QED BY <3>2, <3>4, <4>1, <4>2
      <3>8. CASE Counted(input[k]) /\ Lower[k] # name
        <4>1. <<i, k>> \notin S
          BY <1>4, <3>8
        <4>2. f[s] = AddQuantity(U, Lower[k], input[k].amount)
          BY <3>3, <3>8 DEF Round
        <4>3. /\ name \in DOMAIN f[s] <=> name \in DOMAIN U
              /\ name \in DOMAIN U => f[s][name] = U[name]
          BY <3>8, <4>2 DEF AddQuantity
        <4> QED BY <3>2, <3>4, <4>1, <4>3 DEF Right
      <3>9. CASE Counted(input[k]) /\ Lower[k] = name
        <4>1. <<i, k>> \in S /\ w[<<i, k>>] = input[k].amount
          BY <1>5, <1>8, <3>1, <3>9
        <4>2. f[s] = AddQuantity(U, name, input[k].amount)
          BY <3>3, <3>9 DEF Round
        <4> HIDE DEF S, w, input
        <4>3. Right(sum, name, AddQuantity(U, name, input[k].amount), A \cup {<<i, k>>})
          BY <1>2, <3>2, <3>3, <3>5, <3>6, <3>9, <4>1, RightQuantity DEF S, w
        <4> QED BY <3>4, <4>1, <4>2, <4>3
      <3> QED BY <3>7, <3>8, <3>9
    <2>5. IsFiniteSet(D)
      <3>1. D \in SUBSET DOMAIN Lower
        BY <1>1, <1>8 DEF IsAmounts
      <3> HIDE DEF D
      <3> QED BY <3>1, ManifestsAssumption, FS_Subset
    <2>6. SUBSET D \subseteq G
      <3> HIDE DEF G, D
      <3> QED BY <2>3, <2>4, <2>5, GrowUp
    <2>7. Right(sum, name, f[D], Part(D))
      BY <2>6
    <2> HIDE DEF Part
    <2> QED BY <1>6, <2>1, <2>7
  <1> QED BY <1>7, <1>8

\* The fold of the library is such a sum.
LEMMA SumOfAsked ==
  ASSUME NEW objects, AreMaps(objects), NEW field \in {"requests", "limits"}, NEW name
  PROVE  \E sum :
           /\ IsSum(Asked(objects, field, name), Weights(objects, field, name), sum)
           /\ MapThenSumSet(LAMBDA p : objects[p[1]][field][p[2]].amount, Asked(objects, field, name)) =
                sum[Asked(objects, field, name)]
  <1> DEFINE S == Asked(objects, field, name)
             w == Weights(objects, field, name)
             Body(f) == [s \in SUBSET S |->
                           IF s = {} THEN 0
                           ELSE LET p == CHOOSE x \in s : TRUE
                                IN  objects[p[1]][field][p[2]].amount + f[s \ {p}]]
             iter == CHOOSE f : f = Body(f)
  <1>1. IsFiniteSet(S) /\ w \in [S -> Int]
    BY AskedFacts
  <1>2. \A p \in S : w[p] = objects[p[1]][field][p[2]].amount
    BY DEF Weights
  <1>3. MapThenSumSet(LAMBDA p : objects[p[1]][field][p[2]].amount, S) = iter[S]
    BY DEF MapThenSumSet, MapThenFoldSet
  <1> HIDE DEF S, w
  <1>4. PICK sum : IsSum(S, w, sum)
    BY <1>1, SumExists
  <1>5. ASSUME NEW s \in SUBSET S, s # {}
        PROVE  Pick(s) \in S /\ Pick(s) \in s /\ w[Pick(s)] = objects[Pick(s)[1]][field][Pick(s)[2]].amount
    BY <1>2, <1>5, PickFacts
  <1>6. \A g : Body(g) = [s \in SUBSET S |-> IF s = {} THEN 0 ELSE w[Pick(s)] + g[s \ {Pick(s)}]]
    BY <1>5 DEF Pick
  <1> HIDE DEF Body
  <1>7. sum = Body(sum)
    BY <1>4, <1>6 DEF IsSum
  <1>8. iter = Body(iter)
    BY <1>7
  <1> HIDE DEF iter
  <1>9. \A s \in SUBSET S : iter[s] = IF s = {} THEN 0 ELSE w[Pick(s)] + iter[s \ {Pick(s)}]
    BY <1>6, <1>8
  <1> DEFINE G == { s \in SUBSET S : iter[s] = sum[s] }
  <1>10. {} \in G
    BY <1>4, <1>9 DEF IsSum
  <1>11. ASSUME NEW s \in SUBSET S, s # {}, \A x \in s : s \ {x} \in G
         PROVE  s \in G
    BY <1>4, <1>5, <1>9, <1>11 DEF IsSum
  <1>12. SUBSET S \subseteq G
    <2> HIDE DEF G
    <2> QED BY <1>1, <1>10, <1>11, GrowUp
  <1>13. iter[S] = sum[S]
    BY <1>12
  <1> QED BY <1>3, <1>4, <1>13 DEF S, w

\* The rounds of CollectResources.
Zero == [requests |-> Nothing, limits |-> Nothing]

IsCollecting(objects, n, g) ==
  /\ g \in [0..n -> [requests : Totals, limits : Totals]]
  /\ g[0] = Zero
  /\ \A i \in 1..n : \A field \in {"requests", "limits"} :
       g[i][field] = AddResources(g[i - 1][field], objects[i][field])

LEMMA ZeroFacts ==
  /\ Zero \in [requests : Totals, limits : Totals]
  /\ \A field \in {"requests", "limits"} : DOMAIN Zero[field] = {}
  <1>1. Nothing \in [{} -> Int] /\ DOMAIN Nothing = {}
    BY DEF Nothing
  <1>2. Nothing \in Totals
    BY <1>1 DEF Totals
  <1> HIDE DEF Nothing
  <1> QED BY <1>1, <1>2 DEF Zero

LEMMA CollectLoop ==
  ASSUME NEW objects, AreMaps(objects)
  PROVE  \E g : /\ IsCollecting(objects, Len(objects), g)
                /\ CollectResources(objects) = g[Len(objects)]
  <1> DEFINE n == Len(objects)
             Both == [requests : Totals, limits : Totals]
             More(i, T) == [requests |-> AddResources(T.requests, objects[i].requests),
                            limits |-> AddResources(T.limits, objects[i].limits)]
             Body(f) == [i \in 0..n |-> IF i = 0 THEN Zero ELSE More(i, f[i - 1])]
             totals == CHOOSE f : f = Body(f)
             step == [i \in 1..n |-> [T \in Both |-> More(i, T)]]
  <1>1. n \in Nat /\ DOMAIN objects = 1..n
    BY DEF AreMaps, AreAskers
  <1>2. CollectResources(objects) = totals[n]
    BY DEF CollectResources, Zero
  <1> HIDE DEF n
  <1>3. ASSUME NEW i \in 1..n, NEW T \in Both
        PROVE  More(i, T) \in Both
    <2>1. T.requests \in Totals /\ T.limits \in Totals /\ i \in DOMAIN objects
      BY <1>1, <1>3
    <2>2. AddResources(T.requests, objects[i].requests) \in Totals
      BY <2>1, AddResourcesType
    <2>3. AddResources(T.limits, objects[i].limits) \in Totals
      BY <2>1, AddResourcesType
    <2> QED BY <2>2, <2>3
  <1> HIDE DEF More
  <1>4. step \in [1..n -> [Both -> Both]]
    <2> HIDE DEF Both
    <2> QED BY <1>3
  <1>5. Zero \in Both
    BY ZeroFacts
  <1> HIDE DEF Both
  <1>6. PICK g : Rounds(n, Both, Zero, step, g)
    <2> HIDE DEF step
    <2> QED BY <1>1, <1>4, <1>5, LoopExists
  <1>7. ASSUME NEW i \in 0..n, i # 0
        PROVE  step[i][g[i - 1]] = More(i, g[i - 1])
    <2>1. i \in 1..n /\ i - 1 \in 0..n
      BY <1>1, <1>7
    <2>2. g[i - 1] \in Both
      BY <1>6, <2>1 DEF Rounds
    <2> QED BY <2>1, <2>2
  <1> HIDE DEF step
  <1>8. g = Body(g)
    BY <1>6, <1>7 DEF Rounds
  <1>9. totals = Body(totals)
    BY <1>8
  <1> HIDE DEF totals
  <1> DEFINE G == { i \in 0..n : totals[i] = g[i] }
  <1>10. 0 \in G
    <2>1. totals[0] = Zero /\ g[0] = Zero /\ 0 \in 0..n
      BY <1>1, <1>8, <1>9
    <2> QED BY <2>1
  <1>11. ASSUME NEW i \in 1..n, i - 1 \in G PROVE i \in G
    <2>1. i \in 0..n /\ i # 0
      BY <1>1
    <2>2. totals[i] = More(i, totals[i - 1]) /\ g[i] = More(i, g[i - 1])
      BY <1>8, <1>9, <2>1
    <2> QED BY <1>11, <2>1, <2>2
  <1>12. 0..n \subseteq G
    <2> HIDE DEF G
    <2> QED BY <1>1, <1>10, <1>11, CountUp
  <1>13. totals[n] = g[n]
    BY <1>1, <1>12
  <1>14. IsCollecting(objects, n, g)
    <2>1. g \in [0..n -> Both] /\ g[0] = Zero
      BY <1>1, <1>6 DEF Rounds
    <2>2. ASSUME NEW i \in 1..n, NEW field \in {"requests", "limits"}
          PROVE  g[i][field] = AddResources(g[i - 1][field], objects[i][field])
      <3>1. i \in 0..n /\ i # 0
        BY <1>1
      <3>2. g[i] = More(i, g[i - 1])
        BY <1>6, <1>7, <3>1 DEF Rounds
      <3> QED BY <3>2 DEF More
    <2> QED BY <2>1, <2>2 DEF IsCollecting, Both
  <1> QED BY <1>2, <1>13, <1>14 DEF n

\* CollectResources adds up.
LEMMA CollectAddsUp ==
  ASSUME NEW objects, AreMaps(objects)
  PROVE  AddUp(CollectResources(objects), objects)
  <1> DEFINE n == Len(objects)
             all == CollectResources(objects)
  <1>1. n \in Nat /\ DOMAIN objects = 1..n
    BY DEF AreMaps, AreAskers
  <1>2. PICK g : IsCollecting(objects, n, g) /\ all = g[n]
    BY CollectLoop
  <1> HIDE DEF n, all
  <1>3. ASSUME NEW field \in {"requests", "limits"}, NEW name \in Range(Lower)
        PROVE  IF name \in DOMAIN all[field]
               THEN all[field][name] = MapThenSumSet(LAMBDA p : objects[p[1]][field][p[2]].amount,
                                                     Asked(objects, field, name))
               ELSE Asked(objects, field, name) = {}
    <2> DEFINE S == Asked(objects, field, name)
               w == Weights(objects, field, name)
               Upto(i) == AskedUpto(objects, field, name, i)
    <2>1. PICK sum : /\ IsSum(S, w, sum)
                     /\ MapThenSumSet(LAMBDA p : objects[p[1]][field][p[2]].amount, S) = sum[S]
      BY SumOfAsked
    <2>2. \A p \in S : p[1] \in 1..n
      BY <1>1 DEF Asked
    <2> HIDE DEF S, w
    <2> DEFINE G == { i \in 0..n : Right(sum, name, g[i][field], Upto(i)) }
    <2>3. 0 \in G
      <3>1. Upto(0) = {}
        BY <1>1, <2>2 DEF AskedUpto, S
      <3>2. DOMAIN g[0][field] = {} /\ 0 \in 0..n
        BY <1>1, <1>2, ZeroFacts DEF IsCollecting
      <3> HIDE DEF Upto
      <3> QED BY <3>1, <3>2 DEF Right
    <2>4. ASSUME NEW i \in 1..n, i - 1 \in G PROVE i \in G
      <3>1. i \in 0..n /\ i - 1 \in 0..n /\ i \in DOMAIN objects
        BY <1>1
      <3>2. g[i - 1][field] \in Totals
        BY <1>2, <3>1 DEF IsCollecting
      <3>3. g[i][field] = AddResources(g[i - 1][field], objects[i][field])
        BY <1>2 DEF IsCollecting
      <3>4. Right(sum, name, g[i - 1][field], Upto(i - 1))
        BY <2>4
      <3>5. Right(sum, name, AddResources(g[i - 1][field], objects[i][field]), Upto(i))
        BY <2>1, <3>1, <3>2, <3>4, RightAsker DEF S, w
      <3> HIDE DEF Upto
      <3> QED BY <3>1, <3>3, <3>5
    <2>5. 0..n \subseteq G
      <3> HIDE DEF G
      <3> QED BY <1>1, <2>3, <2>4, CountUp
    <2>6. Upto(n) = S
      BY <1>1, <2>2 DEF AskedUpto, S
    <2>7. Right(sum, name, all[field], S)
      <3>1. n \in G
        <4> HIDE DEF G
        <4> QED BY <1>1, <2>5
      <3> HIDE DEF Upto
      <3> QED BY <1>2, <2>6, <3>1
    <2> QED BY <2>1, <2>7 DEF Right, S
  <1>4. SUFFICES ASSUME NEW field \in {"requests", "limits"}, NEW name \in Range(Lower)
                 PROVE  LET All  == { p \in (DOMAIN objects) \X (DOMAIN Lower) :
                                        LET asks == objects[p[1]][field]
                                        IN  /\ asks # None /\ p[2] \in DOMAIN asks
                                            /\ Lower[p[2]] = name /\ asks[p[2]] # Invalid }
                            Bare == { p \in All : ~objects[p[1]][field][p[2]].text }
                        IN  IF name \in DOMAIN all[field]
                            THEN all[field][name] =
                                   MapThenSumSet(LAMBDA p : objects[p[1]][field][p[2]].amount,
                                                 All \ Bare)
                            ELSE All \subseteq Bare
    BY DEF AddUp, all
  <1> DEFINE All  == { p \in (DOMAIN objects) \X (DOMAIN Lower) :
                         LET asks == objects[p[1]][field]
                         IN  /\ asks # None /\ p[2] \in DOMAIN asks
                             /\ Lower[p[2]] = name /\ asks[p[2]] # Invalid }
             Bare == { p \in All : ~objects[p[1]][field][p[2]].text }
             Sum(A) == MapThenSumSet(LAMBDA p : objects[p[1]][field][p[2]].amount, A)
  <1>5. All \ Bare = Asked(objects, field, name)
    BY DEF Asked, Counted
  <1> HIDE DEF All, Bare
  <1>6. IF name \in DOMAIN all[field] THEN all[field][name] = Sum(Asked(objects, field, name))
        ELSE Asked(objects, field, name) = {}
    BY <1>3
  <1> HIDE DEF Sum
  <1>7. IF name \in DOMAIN all[field] THEN all[field][name] = Sum(All \ Bare) ELSE All \subseteq Bare
    BY <1>5, <1>6
  <1> QED BY <1>7 DEF Sum, All, Bare

\* The elements of two sequences, one after the other.
LEMMA RangeConcat ==
  ASSUME NEW X, NEW s \in Seq(X), NEW t \in Seq(X)
  PROVE  /\ s \o t \in Seq(X) /\ s \o t \in Seq(Range(s \o t))
         /\ Range(s \o t) = Range(s) \cup Range(t)
  <1> DEFINE u == s \o t
             m == Len(s)
             n == Len(t)
  <1>1. m \in Nat /\ n \in Nat /\ DOMAIN s = 1..m /\ DOMAIN t = 1..n
    OBVIOUS
  <1>2. /\ u \in Seq(X) /\ Len(u) = m + n /\ DOMAIN u = 1..(m + n)
        /\ \A i \in 1..(m + n) : u[i] = IF i <= m THEN s[i] ELSE t[i - m]
    OBVIOUS
  <1> HIDE DEF u, m, n
  <1>3. \A i \in 1..m : i \in DOMAIN u /\ u[i] = s[i]
    BY <1>1, <1>2
  <1>4. \A i \in 1..n : m + i \in DOMAIN u /\ u[m + i] = t[i]
    BY <1>1, <1>2
  <1>5. \A i \in DOMAIN u : u[i] \in Range(s) \cup Range(t)
    <2> SUFFICES ASSUME NEW i \in DOMAIN u PROVE u[i] \in Range(s) \cup Range(t)
      OBVIOUS
    <2>1. CASE i <= m
      <3>1. i \in DOMAIN s /\ u[i] = s[i]
        BY <1>1, <1>2, <2>1
      <3> QED BY <3>1 DEF Range
    <2>2. CASE ~(i <= m)
      <3>1. i - m \in DOMAIN t /\ u[i] = t[i - m]
        BY <1>1, <1>2, <2>2
      <3> QED BY <3>1 DEF Range
    <2> QED BY <2>1, <2>2
  <1>6. Range(u) = Range(s) \cup Range(t)
    <2>1. Range(s) \subseteq Range(u)
      BY <1>1, <1>3 DEF Range
    <2>2. Range(t) \subseteq Range(u)
      BY <1>1, <1>4 DEF Range
    <2>3. Range(u) \subseteq Range(s) \cup Range(t)
      BY <1>5 DEF Range
    <2> QED BY <2>1, <2>2, <2>3
  <1>7. u \in Seq(Range(u))
    <2>1. \A i \in 1..Len(u) : u[i] \in Range(u)
      BY <1>2 DEF Range
    <2> QED BY <1>2, <2>1
  <1> QED BY <1>2, <1>6, <1>7 DEF u

LEMMA AskersConcat ==
  ASSUME NEW s, AreAskers(s), NEW t, AreAskers(t)
  PROVE  AreAskers(s \o t)
  <1> DEFINE X == Range(s) \cup Range(t)
             Fine(c) == IsAmounts(c.requests) /\ IsAmounts(c.limits)
  <1>1. s \in Seq(Range(s)) /\ t \in Seq(Range(t))
    BY DEF AreAskers
  <1>2. s \in Seq(X) /\ t \in Seq(X)
    BY <1>1
  <1>3. s \o t \in Seq(Range(s \o t)) /\ Range(s \o t) = Range(s) \cup Range(t)
    <2> HIDE DEF X
    <2> QED BY <1>2, RangeConcat
  <1>4. \A c \in Range(s) \cup Range(t) : Fine(c)
    BY DEF AreAskers, Range
  <1>5. \A i \in DOMAIN (s \o t) : (s \o t)[i] \in Range(s \o t)
    BY DEF Range
  <1> HIDE DEF Fine
  <1>6. \A i \in DOMAIN (s \o t) : Fine((s \o t)[i])
    BY <1>3, <1>4, <1>5
  <1> QED BY <1>3, <1>6 DEF AreAskers, Fine

\* What extractSpec finds in a workload.
ClaimItem(obj, j) ==
  [name |-> obj.spec.claims[j].name, replica |-> 3,
   totals |-> CollectResources(<<obj.spec.claims[j].spec>>)]

Items(obj) == {PodResources(obj)} \cup { ClaimItem(obj, j) : j \in DOMAIN obj.spec.claims }

LEMMA ExtractFacts ==
  ASSUME NEW obj, IsSpec(obj.spec)
  PROVE  ExtractSpec(obj) \in Seq(Items(obj)) /\ Range(ExtractSpec(obj)) = Items(obj)
  <1> DEFINE claims == obj.spec.claims
             n == Len(claims)
             one == <<PodResources(obj)>>
             more == PVCResources(obj)
             Q == { ClaimItem(obj, j) : j \in DOMAIN claims }
  <1>1. n \in Nat /\ DOMAIN claims = 1..n
    BY DEF IsSpec
  <1>2. more = [j \in 1..n |-> ClaimItem(obj, j)]
    BY <1>1 DEF PVCResources, ClaimItem
  <1>3. Items(obj) = {PodResources(obj)} \cup Q
    BY DEF Items
  <1> HIDE DEF more, n
  <1>4. more \in Seq(Q) /\ Range(more) = Q
    <2>1. more \in [1..n -> Q]
      BY <1>1, <1>2
    <2>2. more \in Seq(Q)
      BY <1>1, <2>1
    <2>3. Range(more) = Q
      BY <1>1, <1>2 DEF Range
    <2> QED BY <2>2, <2>3
  <1> HIDE DEF Q
  <1>5. one \in Seq(Items(obj)) /\ Range(one) = {PodResources(obj)}
    <2>1. DOMAIN one = {1} /\ one[1] = PodResources(obj)
      OBVIOUS
    <2>2. PodResources(obj) \in Items(obj)
      BY <1>3
    <2>3. one \in Seq(Items(obj))
      BY <2>2
    <2> HIDE DEF one
    <2> QED BY <2>1, <2>3 DEF Range
  <1>6. more \in Seq(Items(obj))
    BY <1>3, <1>4
  <1> HIDE DEF one
  <1>7. one \o more \in Seq(Items(obj)) /\ Range(one \o more) = Range(one) \cup Range(more)
    BY <1>5, <1>6, RangeConcat
  <1> QED BY <1>3, <1>4, <1>5, <1>7 DEF ExtractSpec, one, more

\* The rounds of ApplicationSpecParser.Parse: nothing that was found is lost.
LEMMA ParseLoop ==
  ASSUME NEW resources, NEW n \in Nat, n = Len(resources),
         \A i \in 1..n : Extracted(resources[i]) => IsSpec(resources[i].spec)
  PROVE  \A i \in 1..n : Extracted(resources[i]) => Items(resources[i]) \subseteq Range(ParseSpec(resources))
  <1> DEFINE X == UNION { Items(resources[i]) : i \in { j \in 1..n : Extracted(resources[j]) } }
             More(i, s) == IF Extracted(resources[i]) THEN s \o ExtractSpec(resources[i]) ELSE s
             Body(f) == [i \in 0..n |->
                           IF i = 0 THEN <<>>
                           ELSE IF Extracted(resources[i]) THEN f[i - 1] \o ExtractSpec(resources[i])
                           ELSE f[i - 1]]
             found == CHOOSE f : f = Body(f)
             step == [i \in 1..n |-> [s \in Seq(X) |-> More(i, s)]]
  <1>1. ParseSpec(resources) = found[n]
    BY DEF ParseSpec
  <1>2. ASSUME NEW i \in 1..n, Extracted(resources[i])
        PROVE  /\ ExtractSpec(resources[i]) \in Seq(X)
               /\ Range(ExtractSpec(resources[i])) = Items(resources[i])
    <2>1. /\ ExtractSpec(resources[i]) \in Seq(Items(resources[i]))
          /\ Range(ExtractSpec(resources[i])) = Items(resources[i])
      BY <1>2, ExtractFacts
    <2>2. Items(resources[i]) \subseteq X
      BY <1>2
    <2> HIDE DEF X
    <2>3. ExtractSpec(resources[i]) \in Seq(X)
      BY <2>1, <2>2
    <2> QED BY <2>1, <2>3
  <1> HIDE DEF X
  <1>3. ASSUME NEW i \in 1..n, NEW s \in Seq(X)
        PROVE  /\ More(i, s) \in Seq(X) /\ Range(s) \subseteq Range(More(i, s))
               /\ Extracted(resources[i]) => Items(resources[i]) \subseteq Range(More(i, s))
    <2>1. CASE Extracted(resources[i])
      <3> DEFINE t == ExtractSpec(resources[i])
      <3>1. t \in Seq(X) /\ Range(t) = Items(resources[i])
        BY <1>2, <2>1
      <3> HIDE DEF t
      <3>2. s \o t \in Seq(X) /\ Range(s \o t) = Range(s) \cup Range(t)
        BY <3>1, RangeConcat
      <3>3. More(i, s) = s \o t
        BY <2>1 DEF t
      <3> HIDE DEF More
      <3> QED BY <3>1, <3>2, <3>3
    <2>2. CASE ~Extracted(resources[i])
      BY <2>2
    <2> QED BY <2>1, <2>2
  <1>4. \A f : Body(f) = [i \in 0..n |-> IF i = 0 THEN <<>> ELSE More(i, f[i - 1])]
    OBVIOUS
  <1> HIDE DEF More, Body
  <1>5. step \in [1..n -> [Seq(X) -> Seq(X)]] /\ <<>> \in Seq(X)
    BY <1>3
  <1>6. PICK g : Rounds(n, Seq(X), <<>>, step, g)
    <2> HIDE DEF step
    <2> QED BY <1>5, LoopExists
  <1>7. ASSUME NEW i \in 0..n, i # 0
        PROVE  step[i][g[i - 1]] = More(i, g[i - 1])
    <2>1. i \in 1..n /\ i - 1 \in 0..n
      BY <1>7
    <2>2. g[i - 1] \in Seq(X)
      BY <1>6, <2>1 DEF Rounds
    <2> QED BY <2>1, <2>2
  <1> HIDE DEF step
  <1>8. g = Body(g)
    BY <1>4, <1>6, <1>7 DEF Rounds
  <1>9. found = Body(found)
    BY <1>8
  <1> HIDE DEF found
  <1>10. found[0] = <<>> /\ \A i \in 1..n : found[i] = More(i, found[i - 1])
    <2>1. found = [i \in 0..n |-> IF i = 0 THEN <<>> ELSE More(i, found[i - 1])]
      BY <1>4, <1>9
    <2>2. 0 \in 0..n
      OBVIOUS
    <2>3. found[0] = <<>>
      BY <2>1, <2>2
    <2>4. ASSUME NEW i \in 1..n PROVE found[i] = More(i, found[i - 1])
      <3>1. i \in 0..n /\ i # 0
        OBVIOUS
      <3> QED BY <2>1, <3>1
    <2> QED BY <2>3, <2>4
  <1> DEFINE Kept(i) == \A j \in 1..i : Extracted(resources[j]) => Items(resources[j]) \subseteq Range(found[i])
             G == { i \in 0..n : found[i] \in Seq(X) /\ Kept(i) }
  <1>11. 0 \in G
    <2>1. Kept(0) /\ 0 \in 0..n
      OBVIOUS
    <2> HIDE DEF Kept
    <2> QED BY <1>5, <1>10, <2>1
  <1>12. ASSUME NEW i \in 1..n, i - 1 \in G PROVE i \in G
    <2>1. i \in 0..n /\ found[i - 1] \in Seq(X) /\ Kept(i - 1) /\ found[i] = More(i, found[i - 1])
      BY <1>10, <1>12
    <2> DEFINE s == found[i - 1]
    <2>2. /\ found[i] \in Seq(X) /\ Range(s) \subseteq Range(found[i])
          /\ Extracted(resources[i]) => Items(resources[i]) \subseteq Range(found[i])
      BY <1>3, <2>1
    <2>3. ASSUME NEW j \in 1..i, Extracted(resources[j])
          PROVE  Items(resources[j]) \subseteq Range(found[i])
      <3>1. j = i \/ j \in 1..(i - 1)
        OBVIOUS
      <3> QED BY <2>1, <2>2, <2>3, <3>1
    <2> QED BY <2>1, <2>2, <2>3
  <1>13. 0..n \subseteq G
    <2> HIDE DEF G
    <2> QED BY <1>11, <1>12, CountUp
  <1>14. Kept(n)
    <2>1. n \in G
      <3> HIDE DEF G
      <3> QED BY <1>13
    <2> HIDE DEF Kept
    <2> QED BY <2>1
  <1> QED BY <1>1, <1>14

\* What was parsed, of resources whose specifications can be.
Parsable(obj) ==
  /\ IsSpec(obj.spec) /\ ~CollectFails(obj.spec.containers \o obj.spec.initContainers)
  /\ \A j \in DOMAIN obj.spec.claims :
       obj.spec.claims[j].spec # None /\ ~CollectFails(<<obj.spec.claims[j].spec>>)

LEMMA ItemsAddUp ==
  ASSUME NEW obj, Parsable(obj)
  PROVE  /\ \E item \in Items(obj) :
              /\ item.name = obj.name
              /\ AddUp(item.totals, obj.spec.containers \o obj.spec.initContainers)
         /\ \A j \in DOMAIN obj.spec.claims : \E item \in Items(obj) :
              /\ item.name = obj.spec.claims[j].name
              /\ AddUp(item.totals, <<obj.spec.claims[j].spec>>)
  <1> DEFINE all == obj.spec.containers \o obj.spec.initContainers
             pods == PodResources(obj)
  <1>1. AddUp(CollectResources(all), all)
    <2>1. AreAskers(all)
      BY AskersConcat DEF Parsable, IsSpec
    <2>2. ~CollectFails(all)
      BY DEF Parsable
    <2> HIDE DEF all
    <2> QED BY <2>1, <2>2, MapsFacts, CollectAddsUp
  <1>2. pods.name = obj.name /\ pods.totals = CollectResources(all) /\ pods \in Items(obj)
    BY DEF PodResources, Items
  <1>3. ASSUME NEW j \in DOMAIN obj.spec.claims
        PROVE  \E item \in Items(obj) : /\ item.name = obj.spec.claims[j].name
                                        /\ AddUp(item.totals, <<obj.spec.claims[j].spec>>)
    <2> DEFINE asked == <<obj.spec.claims[j].spec>>
               item == ClaimItem(obj, j)
    <2>1. AreAskers(asked) /\ ~CollectFails(asked)
      BY DEF Parsable, IsSpec
    <2>2. /\ item.name = obj.spec.claims[j].name /\ item.totals = CollectResources(asked)
          /\ item \in Items(obj)
      BY DEF ClaimItem, Items
    <2> HIDE DEF asked, item
    <2>3. AddUp(CollectResources(asked), asked)
      BY <2>1, MapsFacts, CollectAddsUp
    <2> QED BY <2>2, <2>3 DEF asked
  <1> HIDE DEF all, pods
  <1> QED BY <1>1, <1>2, <1>3 DEF all

-----------------------------------------------------------------------------
(***************************************************************************)
(* The theorems.                                                           *)
(***************************************************************************)

\* Every step of the calls, of the repositories and of the cluster keeps the
\* invariant.
THEOREM Invariance == Spec => []IInv
  <1>1. IInv /\ [Next]_vars => IInv'
    <2> SUFFICES ASSUME IInv, [Next]_vars PROVE IInv'
      OBVIOUS
    <2>1. ASSUME NEW g \in Goroutines, CallStep(g) PROVE IInv'
      BY <2>1, AddStep, TruncateStep, AddWriteStep, AddEndsStep, DownloadStep, WriteStep, PollStep,
         LoadStep, LocateStep, ScopeStep, SyncNextStep, SyncWriteStep DEF CallStep
    <2>2. ASSUME NEW g \in Goroutines, SyncBegin(g) PROVE IInv'
      BY <2>2, SyncBeginStep
    <2>3. ASSUME NEW g \in Goroutines, NEW url \in Urls, NEW op \in {"add", "fetch", "template"},
                 Begin(g, op, url)
          PROVE  IInv'
      BY <2>3, BeginStep
    <2>4. ASSUME NEW url \in Urls, NEW v \in News, Publish(url, v) PROVE IInv'
      <3>1. v \in Versions
        BY DEF Versions
      <3>2. /\ offered' \in [Urls -> SUBSET Versions] /\ kinds' \subseteq DOMAIN Scopes
            /\ \A u \in Urls : offered[u] \subseteq offered'[u]
        BY <2>4, <3>1 DEF Publish, IInv, Typed
      <3> QED BY <2>4, <3>2, OutsideStep DEF Publish
    <2>5. ASSUME NEW k \in DOMAIN Scopes, Install(k) PROVE IInv'
      <3>1. /\ offered' \in [Urls -> SUBSET Versions] /\ kinds' \subseteq DOMAIN Scopes
            /\ \A u \in Urls : offered[u] \subseteq offered'[u]
        BY <2>5 DEF Install, IInv, Typed
      <3> QED BY <2>5, <3>1, OutsideStep DEF Install
    <2>6. CASE UNCHANGED vars
      <3>1. /\ offered' \in [Urls -> SUBSET Versions] /\ kinds' \subseteq DOMAIN Scopes
            /\ \A u \in Urls : offered[u] \subseteq offered'[u]
        BY <2>6 DEF vars, IInv, Typed
      <3> QED BY <2>6, <3>1, OutsideStep DEF vars, files
    <2> QED BY <2>1, <2>2, <2>3, <2>4, <2>5, <2>6 DEF Next
  <1> QED BY <1>1, InitInvariant, PTL DEF Spec

\* The repositories registered, the index files and the looks left at them have their
\* types, and a call has the repository it was made for.
THEOREM TypeCorrect == Spec => []TypeOK
  <1>1. IInv => TypeOK
    <2> SUFFICES ASSUME IInv PROVE TypeOK
      OBVIOUS
    <2>1. \A g \in Goroutines : call[g].left \in 0..Attempts
      BY DEF IInv, Typed, Calls
    <2>2. ASSUME NEW g \in Busy, call[g].op # "sync" PROVE call[g].url \in Urls
      <3>1. g \in Goroutines /\ call[g].pc # "idle"
        BY DEF Busy, At
      <3>2. call[g].pc # "next"
        BY <2>2, <3>1 DEF IInv, CallOK, PlaceOK, Syncing
      <3> QED BY <3>1, <3>2, CallFacts
    <2> QED BY <2>1, <2>2 DEF IInv, Typed, TypeOK
  <1> QED BY <1>1, Invariance, PTL

\* FetchVersions: whatever other goroutines download and write meanwhile, an answer
\* has every version that the call must find.
THEOREM Freshness == Spec => []FetchFresh
  <1>1. IInv => FetchFresh
    BY DEF IInv, AnswerOK, FetchFresh, Answers
  <1> QED BY <1>1, Invariance, PTL

\* Whatever earlier calls have left behind, a call that meets neither a fault nor another
\* call succeeds, but for Template, if the version it is asked for is not offered, or if
\* the library keeps an entry whose index file does not list the version or whose name is
\* that of another repository too.
THEOREM LoneSuccess == Spec => []LoneCallSucceeds
  <1>1. IInv => LoneCallSucceeds
    <2> SUFFICES ASSUME IInv, NEW g \in Goroutines, answer[g].op # None, ~answer[g].excused,
                        ~answer[g].ok
                 PROVE  Explained(answer[g])
      BY DEF LoneCallSucceeds, Answers, Explained
    <2> QED BY DEF IInv, AnswerOK
  <1> QED BY <1>1, Invariance, PTL

\* DeriveUniqueHelmRepoName decides alone from where an answer comes: if no two
\* repositories get the same name but those that share host and last part of the path,
\* every answer comes from the repository asked for or from one that shares these.
THEOREM RepositoryByName ==
  ASSUME \A u, v \in Urls : RepoName(u) = RepoName(v) => u.host = v.host /\ Last(u.path) = Last(v.path)
  PROVE  Spec => []OwnRepository
  <1>1. IInv => OwnRepository
    <2> SUFFICES ASSUME IInv, NEW g \in Goroutines, answer[g].ok,
                        answer[g].op \in {"fetch", "template"}, answer[g].from # answer[g].url
                 PROVE  \E url \in used \ {answer[g].url} :
                          /\ url.host = answer[g].url.host
                          /\ Last(url.path) = Last(answer[g].url.path)
      BY DEF OwnRepository, Answers
    <2>1. /\ answer[g].url \in Urls /\ answer[g].from \in used /\ used \subseteq Urls
          /\ NameOf[answer[g].from] = NameOf[answer[g].url]
      BY DEF IInv, Typed, AnswerOK
    <2>2. RepoName(answer[g].from) = RepoName(answer[g].url)
      BY <2>1 DEF NameOf
    <2> HIDE DEF RepoName
    <2> QED BY <2>1, <2>2
  <1> QED BY <1>1, Invariance, PTL

\* Whatever the chart, and whatever pieces beside objects its text has: what Render
\* gives can be found again.
THEOREM Findable == Spec => []RenderedFindable
  <1>1. IInv => RenderedFindable
    <2> SUFFICES ASSUME IInv, NEW a \in Answers, a.ok, a.op = "template"
                 PROVE  LET objects == Without(Others, a.manifest)
                            Carries(labels) == \A l \in DOMAIN Instance.labels :
                                                 l \in DOMAIN labels /\ labels[l] = Instance.labels[l]
                        IN  /\ Len(a.resources) = Len(objects)
                            /\ \A i \in DOMAIN objects :
                                 LET r == a.resources[i]
                                 IN  /\ r.kind = objects[i].kind /\ r.name = objects[i].name
                                     /\ Carries(r.labels)
                                     /\ r.kind \in Templated /\ r.template # None => Carries(r.template)
                                     /\ objects[i].ns # "" => r.ns = objects[i].ns
                                     /\ objects[i].ns = "" /\ r.kind \in a.known =>
                                          (r.ns = "") = Scopes[r.kind]
      BY DEF RenderedFindable
    <2> DEFINE objects == Without(Others, a.manifest)
               Carries(labels) == \A l \in DOMAIN Instance.labels :
                                    l \in DOMAIN labels /\ labels[l] = Instance.labels[l]
               scope == [k \in a.known |-> Scopes[k]]
               labels == Instance.labels
               ns == Instance.ns
    <2>1. /\ a.manifest \in ChartTexts /\ a.known \subseteq DOMAIN Scopes
          /\ a.resources = RenderedChart(a.manifest, labels, ns, scope)
      BY DEF IInv, AnswerOK, Answers
    <2>2. a.manifest \in Seq(ChartPieces) /\ \A piece \in ChartPieces : Formed(piece)
      BY <2>1, ChartAssumption DEF Formed
    <2>3. DOMAIN scope = a.known /\ \A k \in a.known : scope[k] = Scopes[k] /\ Scopes[k] \in BOOLEAN
      BY <2>1, ChartAssumption
    <2> HIDE DEF scope, labels, ns, objects
    <2>4. /\ a.resources = Image(labels, ns, scope, objects)
          /\ objects \in Seq({ piece \in ChartPieces : IsObject(piece) })
      BY <2>1, <2>2, RenderedObjects DEF objects
    <2>5. Len(a.resources) = Len(objects)
      BY <2>4 DEF Image
    <2>6. ASSUME NEW i \in DOMAIN objects
          PROVE  LET r == a.resources[i]
                 IN  /\ r.kind = objects[i].kind /\ r.name = objects[i].name
                     /\ Carries(r.labels)
                     /\ r.kind \in Templated /\ r.template # None => Carries(r.template)
                     /\ objects[i].ns # "" => r.ns = objects[i].ns
                     /\ objects[i].ns = "" /\ r.kind \in a.known => (r.ns = "") = Scopes[r.kind]
      <3> DEFINE r == a.resources[i]
                 obj == objects[i]
      <3>1. i \in 1..Len(objects) /\ obj \in ChartPieces /\ IsObject(obj)
        BY <2>4
      <3>2. r = Process(labels, ns, scope, obj)
        BY <2>4, <3>1 DEF Image
      <3> HIDE DEF r, obj
      <3>3. Processed(labels, ns, scope, obj, r)
        BY <2>2, <3>1, <3>2, ProcessFacts
      <3>4. /\ r.kind = obj.kind /\ r.name = obj.name
            /\ obj.ns # "" => r.ns = obj.ns
        BY <3>1, <3>3 DEF Processed
      <3>5. Carries(r.labels)
        <4>1. r.labels = Merge(labels, obj.labels)
          BY <3>1, <3>3 DEF Processed
        <4> QED BY <4>1, MergeFacts DEF labels
      <3>6. r.kind \in Templated /\ r.template # None => Carries(r.template)
        <4>1. SUFFICES ASSUME r.kind \in Templated, r.template # None PROVE Carries(r.template)
          OBVIOUS
        <4>2. r.template = Merge(labels, obj.template)
          BY <3>1, <3>3, <4>1 DEF Processed
        <4> QED BY <4>2, MergeFacts DEF labels
      <3>7. obj.ns = "" /\ r.kind \in a.known => (r.ns = "") = Scopes[r.kind]
        <4>1. SUFFICES ASSUME obj.ns = "", r.kind \in a.known PROVE (r.ns = "") = Scopes[r.kind]
          OBVIOUS
        <4>2. r.ns = IF scope[obj.kind] THEN "" ELSE ns
          BY <2>3, <3>1, <3>3, <3>4, <4>1 DEF Processed
        <4>3. scope[obj.kind] = Scopes[r.kind] /\ Scopes[r.kind] \in BOOLEAN
          BY <2>3, <3>4, <4>1
        <4>4. ns # ""
          BY ChartAssumption DEF ns
        <4>5. CASE Scopes[r.kind] = TRUE
          BY <4>2, <4>3, <4>5
        <4>6. CASE Scopes[r.kind] = FALSE
          BY <4>2, <4>3, <4>4, <4>6
        <4> QED BY <4>3, <4>5, <4>6
      <3> QED BY <3>4, <3>5, <3>6, <3>7 DEF r, obj
    <2> QED BY <2>5, <2>6 DEF objects
  <1> QED BY <1>1, Invariance, PTL

\* Whatever charts there are, and however their workloads spell the names of quantities:
\* what ApplicationSpecParser.Parse makes of a rendered chart adds up, of every workload
\* and of every claim, what is written as a string, unless it fails or panics; a bare
\* number is left out.
THEOREM Totalled == Spec => []SpecAddsUp
  <1>1. IInv => SpecAddsUp
    <2> SUFFICES ASSUME IInv, NEW a \in Answers, a.ok, a.op = "template",
                        ~ParseFails(a.resources), ~ParsePanics(a.resources),
                        NEW i \in DOMAIN a.resources, Extracted(a.resources[i])
                 PROVE  LET obj   == a.resources[i]
                            items == Range(ParseSpec(a.resources))
                        IN  /\ \E item \in items :
                                 /\ item.name = obj.name
                                 /\ AddUp(item.totals, obj.spec.containers \o obj.spec.initContainers)
                            /\ \A j \in DOMAIN obj.spec.claims : \E item \in items :
                                 /\ item.name = obj.spec.claims[j].name
                                 /\ AddUp(item.totals, <<obj.spec.claims[j].spec>>)
      BY DEF SpecAddsUp
    <2> DEFINE objects == Without(Others, a.manifest)
               scope == [k \in a.known |-> Scopes[k]]
               labels == Instance.labels
               ns == Instance.ns
               n == Len(a.resources)
    <2>1. /\ a.manifest \in ChartTexts
          /\ a.resources = RenderedChart(a.manifest, labels, ns, scope)
      BY DEF IInv, AnswerOK, Answers
    <2>2. a.manifest \in Seq(ChartPieces) /\ \A piece \in ChartPieces : Formed(piece)
      BY <2>1, ChartAssumption DEF Formed
    <2> HIDE DEF scope, labels, ns, objects
    <2>3. /\ a.resources = Image(labels, ns, scope, objects)
          /\ objects \in Seq({ piece \in ChartPieces : IsObject(piece) })
      BY <2>1, <2>2, RenderedObjects DEF objects
    <2>4. n \in Nat /\ n = Len(objects) /\ DOMAIN a.resources = 1..n
      BY <2>3 DEF Image
    <2>5. ASSUME NEW j \in 1..n, Extracted(a.resources[j])
          PROVE  IsSpec(a.resources[j].spec)
      <3> DEFINE r == a.resources[j]
                 obj == objects[j]
      <3>1. obj \in ChartPieces /\ IsObject(obj)
        BY <2>3, <2>4
      <3>2. r = Process(labels, ns, scope, obj)
        BY <2>3, <2>4 DEF Image
      <3>e. Extracted(r)
        BY <2>5
      <3> HIDE DEF r, obj
      <3>3. Processed(labels, ns, scope, obj, r)
        BY <2>2, <3>1, <3>2, ProcessFacts
      <3>4. r.kind = obj.kind /\ r.spec = obj.spec
        BY <3>1, <3>3 DEF Processed
      <3>5. r.kind \in Templated /\ r.spec # None
        BY <3>e DEF Extracted
      <3>6. IsSpec(obj.spec)
        BY <3>1, <3>4, <3>5, ChartAssumption
      <3> QED BY <3>4, <3>6 DEF r
    <2> HIDE DEF n
    <2>6. Items(a.resources[i]) \subseteq Range(ParseSpec(a.resources))
      BY <2>4, <2>5, ParseLoop DEF n
    <2>7. Parsable(a.resources[i])
      <3>1. IsSpec(a.resources[i].spec)
        BY <2>4, <2>5
      <3>2. ~CollectFails(a.resources[i].spec.containers \o a.resources[i].spec.initContainers)
        BY DEF ParseFails
      <3>3. ASSUME NEW j \in DOMAIN a.resources[i].spec.claims
            PROVE  /\ a.resources[i].spec.claims[j].spec # None
                   /\ ~CollectFails(<<a.resources[i].spec.claims[j].spec>>)
        BY DEF ParseFails, ParsePanics
      <3> QED BY <3>1, <3>2, <3>3 DEF Parsable
    <2> QED BY <2>6, <2>7, ItemsAddUp
  <1> QED BY <1>1, Invariance, PTL

\* FetchVersions and the rest, for any repositories, goroutines and number of looks: the
\* steps of a call descend, so that it ends if it goes on.
THEOREM Descent == Spec => CallsDescend
  <1> DEFINE Own(g) == /\ \A h \in Goroutines : h # g => call'[h] = call[h]
                       /\ call'[g] = NoCall \/ Nearer(call'[g], call[g])
             Goal == \A g \in Busy :
                       \/ call'[g] \in {NoCall, call[g], [call[g] EXCEPT !.alone = FALSE]}
                       \/ Nearer(call'[g], call[g])
  <1>1. ASSUME IInv, NEW g \in Goroutines, CallStep(g)
        PROVE  Own(g)
    <2>1. call \in [Goroutines -> Calls]
      BY <1>1 DEF IInv, Typed
    <2>2. call[g].op # "sync" /\ call[g].pc \in Adding => After(g) \in {"end", "download", "locate"}
      BY <1>1 DEF After, IInv, CallOK, PlaceOK
    <2>3. call[g].pc \in Adding => call[g].op # "sync"
      BY <1>1 DEF IInv, CallOK, PlaceOK
    <2>4. ASSUME NEW result, Return(g, result)
          PROVE  Own(g)
      BY <2>1, <2>4 DEF Return
    <2>5. ASSUME NEW pc, Goto(g, pc), Stage[pc] > Stage[call[g].pc]
          PROVE  Own(g)
      BY <2>1, <2>5 DEF Goto, Nearer, Calls
    <2>6. CASE Add(g)
      <3>1. CASE Goto(g, After(g)) /\ At(g, "add")
        BY <2>2, <2>3, <2>5, <3>1 DEF At, Adding, Stage
      <3>2. CASE call' = [call EXCEPT ![g].pc = "addTruncate", ![g].page = Page(call[g].url)]
        BY <1>1, <2>1, <2>6, <3>2 DEF Add, At, Nearer, Calls, Stage
      <3> QED BY <2>4, <2>6, <3>1, <3>2 DEF Add, Failed
    <2>7. CASE Truncate(g, "addTruncate", "addWrite")
      BY <2>5, <2>7 DEF Truncate, At, Stage
    <2>8. CASE AddWrite(g)
      <3>1. CASE Goto(g, After(g)) /\ At(g, "addWrite")
        BY <2>2, <2>3, <2>5, <3>1 DEF At, Adding, Stage
      <3> QED BY <2>4, <2>8, <3>1 DEF AddWrite, Failed
    <2>9. CASE AddEnds(g) \/ Load(g) \/ Scope(g)
      BY <2>4, <2>9 DEF AddEnds, Load, Scope, Failed
    <2>10. CASE Download(g)
      <3>1. CASE call' = [call EXCEPT ![g].pc = "truncate", ![g].page = Page(call[g].url)]
        BY <2>1, <2>10, <3>1 DEF Download, At, Nearer, Calls, Stage
      <3> QED BY <2>4, <2>10, <3>1 DEF Download, Failed
    <2>11. CASE Truncate(g, "truncate", "write")
      BY <2>5, <2>11 DEF Truncate, At, Stage
    <2>12. CASE Write(g)
      <3>1. CASE Goto(g, "poll") /\ At(g, "write")
        BY <2>5, <3>1 DEF At, Stage
      <3> QED BY <2>4, <2>12, <3>1 DEF Write, Failed
    <2>13. CASE Poll(g)
      <3>1. CASE Goto(g, "load") /\ At(g, "poll")
        BY <2>5, <3>1 DEF At, Stage
      <3>2. CASE call' = [call EXCEPT ![g].left = @ - 1,
                                      ![g].pc = IF call[g].left = 1 THEN "load" ELSE "poll"]
        <4>1. /\ call'[g].todo = call[g].todo /\ call'[g].left = call[g].left - 1
              /\ call'[g].pc = IF call[g].left = 1 THEN "load" ELSE "poll"
              /\ \A h \in Goroutines : h # g => call'[h] = call[h]
          BY <2>1, <3>2 DEF Calls
        <4>2. call[g].left \in Int /\ call[g].pc = "poll"
          BY <2>1, <2>13, HelmAssumption DEF Calls, Poll, At
        <4>3. Nearer(call'[g], call[g])
          BY <4>1, <4>2 DEF Nearer, Stage
        <4> QED BY <4>1, <4>3
      <3> QED BY <2>13, <3>1, <3>2 DEF Poll
    <2>14. CASE Locate(g)
      <3>1. ASSUME NEW url, At(g, "locate"),
                   call' = [call EXCEPT ![g].pc = "scope", ![g].page = Page(url)]
            PROVE  Own(g)
        BY <2>1, <3>1 DEF At, Nearer, Calls, Stage
      <3> QED BY <2>4, <2>14, <3>1 DEF Locate, Failed
    <2>15. CASE SyncNext(g)
      <3>1. ASSUME NEW n \in call[g].todo,
                   call' = [call EXCEPT ![g].pc = "syncTruncate", ![g].url = repos[n],
                                        ![g].page = Page(repos[n]), ![g].todo = @ \ {n},
                                        ![g].since = offered[repos[n]]]
            PROVE  Own(g)
        <4>1. /\ call'[g].todo = call[g].todo \ {n}
              /\ \A h \in Goroutines : h # g => call'[h] = call[h]
          BY <2>1, <3>1 DEF Calls
        <4> QED BY <4>1 DEF Nearer
      <3> QED BY <2>4, <2>15, <3>1 DEF SyncNext, Failed
    <2>16. CASE Truncate(g, "syncTruncate", "syncWrite")
      BY <2>5, <2>16 DEF Truncate, At, Stage
    <2>17. CASE SyncWrite(g)
      BY <2>5, <2>17 DEF SyncWrite, At, Stage
    <2> HIDE DEF Own
    <2> QED BY <1>1, <2>6, <2>7, <2>8, <2>9, <2>10, <2>11, <2>12, <2>13, <2>14, <2>15, <2>16,
               <2>17 DEF CallStep
  <1>2. ASSUME NEW g \in Goroutines, Free(g),
               \A h \in Goroutines : h # g => call'[h] = [call[h] EXCEPT !.alone = FALSE]
        PROVE  Goal
    <2>1. At(g, "idle")
      BY <1>2 DEF Free, Busy
    <2> QED BY <1>2, <2>1 DEF Busy
  <1>3. ASSUME IInv, [Next]_vars
        PROVE  Goal
    <2>1. CASE \E g \in Goroutines : CallStep(g)
      BY <1>1, <1>3, <2>1 DEF Busy
    <2>2. ASSUME NEW g \in Goroutines, SyncBegin(g) \/ \E url \in Urls, op \in {"add", "fetch", "template"} : Begin(g, op, url)
          PROVE  Goal
      <3>1. Free(g) /\ \A h \in Goroutines : h # g => call'[h] = [call[h] EXCEPT !.alone = FALSE]
        BY <2>2 DEF SyncBegin, Begin
      <3> HIDE DEF Goal
      <3> QED BY <1>2, <3>1
    <2>3. CASE call' = call
      BY <2>3
    <2>4. ASSUME NEW url, NEW v, Publish(url, v) PROVE call' = call
      BY <2>4 DEF Publish
    <2>5. ASSUME NEW k, Install(k) PROVE call' = call
      BY <2>5 DEF Install
    <2>6. CASE UNCHANGED vars
      BY <2>3, <2>6 DEF vars
    <2> HIDE DEF Goal
    <2> QED BY <1>3, <2>1, <2>2, <2>3, <2>4, <2>5, <2>6 DEF Next
  <1> HIDE DEF Own
  <1> QED BY <1>3, Invariance, PTL DEF Spec, CallsDescend
=============================================================================
