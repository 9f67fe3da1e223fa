----------------------------- MODULE HelmClient -----------------------------
(***************************************************************************)
(* The helm client (internal/helm/client_impl.go) shared by the goroutines *)
(* of the controller: passes and jobs that render charts, the chart        *)
(* registry that lists versions, and the handlers of the HTTP API that     *)
(* show what an application asks for.  They share the registered           *)
(* repositories and, under each repository's name, an index file on disk.  *)
(*                                                                         *)
(* A step is one call of a repository, one operation on a file, or the     *)
(* discovery of the cluster's kinds.  Writing a file truncates it first.   *)
(***************************************************************************)
EXTENDS Manifests

CONSTANTS Urls,        \* repositories: host and path, as words
          Goroutines,
          Offers,      \* url -> the versions of the chart offered at first
          News,        \* versions that may be published
          Malformed,   \* versions that do not parse
          ChartTexts,  \* what a chart may render to
          Scopes,      \* kind -> whether it is cluster-scoped
          Installed,   \* kinds the cluster knows at first
          Instance,    \* namespace and labels of the application
          Attempts,    \* looks at the index file (10 in the code)
          Budgets      \* scenarios: how often a kind of event may happen

EventKinds == {"add", "fetch", "template", "sync", "fault", "publish", "install"}

\* Versions that are offered at some time.
Versions == News \cup UNION Range(Offers)

\* An index file, once it is truncated and once it is written.
Empty == [url |-> None, versions |-> {}]

Pages == [url : Urls, versions : SUBSET Versions]

\* What charts are made of; an object has these fields at least.
ChartPieces == UNION { Range(text) : text \in ChartTexts }

Fields == {"kind", "name", "ns", "labels", "template", "spec"}

ASSUME HelmAssumption ==
  /\ Attempts \in Nat \ {0} /\ Installed \subseteq DOMAIN Scopes
  /\ Offers \in [Urls -> SUBSET Versions]
  /\ None \notin Urls /\ None \notin Pages /\ None # Empty
  /\ Budgets \subseteq [EventKinds -> Nat]

ASSUME ChartAssumption ==
  /\ ChartTexts \subseteq Seq(ChartPieces) /\ Instance.ns # ""
  /\ \A kind \in DOMAIN Scopes : Scopes[kind] \in BOOLEAN
  /\ \A piece \in ChartPieces : IsObject(piece) =>
       /\ Fields \subseteq DOMAIN piece
       /\ piece.kind \in Templated /\ piece.spec # None => IsSpec(piece.spec)

VARIABLES
  replaces,  \* AddOrUpdateChartRepo replaces what is registered under the name
  repos,     \* name -> the URL registered, or None
  index,     \* name -> the index file: None, Empty or the URL and its versions
  offered,   \* url -> versions of the chart the repository offers
  kinds,     \* kinds the cluster knows
  call,      \* goroutine -> the call it is in
  answer,    \* goroutine -> what its last call came to; kept: the index file it failed
             \*   on, if it had not written one itself
  used,      \* history: URLs used so far
  budget     \* remaining events

vars == <<replaces, repos, index, offered, kinds, call, answer, used, budget>>

files == <<repos, index>>

outside == <<replaces, offered, kinds>>

\* Mutant: the host alone.
HostName(url) == url.host

\* DeriveUniqueHelmRepoName: the host, with dashes for dots, and the last part of the
\* path.
RepoName(url) == ReplaceAll(url.host, ".", "-") \o <<"-">> \o Last(url.path)

NameOf == [url \in Urls |-> RepoName(url)]

Names == Range(NameOf)

NoCall == [op |-> None, url |-> None, version |-> None, pc |-> "idle", page |-> None,
           left |-> 0, todo |-> {}, since |-> {}, alone |-> TRUE]

NoAnswer == [op |-> None, url |-> None, version |-> None, from |-> None, ok |-> FALSE,
             versions |-> {}, manifest |-> None, resources |-> None, known |-> {},
             since |-> {}, kept |-> None, excused |-> FALSE]

Init ==
  /\ replaces \in BOOLEAN
  /\ repos = [n \in Names |-> None]
  /\ index = [n \in Names |-> None]
  /\ offered = Offers
  /\ kinds = Installed
  /\ call = [g \in Goroutines |-> NoCall]
  /\ answer = [g \in Goroutines |-> NoAnswer]
  /\ used = {}
  /\ budget \in Budgets

Spend(kind) ==
  /\ budget[kind] > 0
  /\ budget' = [budget EXCEPT ![kind] = @ - 1]

At(g, pc) == call[g].pc = pc

Busy == { g \in Goroutines : ~At(g, "idle") }

\* A goroutine that may begin a call; which one does not matter.
Free(g) == Busy # Goroutines /\ g = CHOOSE h \in Goroutines : At(h, "idle")

Name(g) == NameOf[call[g].url]

Goto(g, pc) == call' = [call EXCEPT ![g].pc = pc]

\* The call is over.  excused: it met a fault, or another call was under way.
Return(g, result) ==
  /\ call' = [call EXCEPT ![g] = NoCall]
  /\ answer' = [answer EXCEPT ![g] = result]

Answer(g) == [NoAnswer EXCEPT !.op = call[g].op, !.url = call[g].url,
                              !.version = call[g].version, !.since = call[g].since,
                              !.excused = ~call[g].alone]

Failed(g, excused) == Return(g, [Answer(g) EXCEPT !.excused = IF excused THEN TRUE ELSE @])

-----------------------------------------------------------------------------
\* AddOrUpdateChartRepo, FetchVersions and Template begin alike; Template is asked for
\* a version, which the repository offers or not.  since: what the repository offers
\* now, less what calls under way may not have seen.
Begin(g, op, url) ==
  /\ Free(g) /\ Spend(op)
  /\ used' = used \cup {url}
  /\ \E version \in IF op = "template" THEN Versions \ Malformed ELSE {None} :
       call' = [h \in Goroutines |->
         IF h = g
         THEN [NoCall EXCEPT !.op = op, !.url = url, !.version = version, !.pc = "add",
                 !.left = Attempts, !.alone = Busy = {},
                 !.since = { v \in offered[url] :
                               \A o \in Busy : call[o].url = url => v \in call[o].since }]
         ELSE [call[h] EXCEPT !.alone = FALSE]]
  /\ answer' = [answer EXCEPT ![g] = NoAnswer]
  /\ UNCHANGED <<files, outside>>

\* The repository's index is read from the network; it may not be reachable.
Page(url) == [url |-> url, versions |-> offered[url]]

After(g) ==
  CASE call[g].op = "add" -> "end"
    [] call[g].op = "fetch" -> "download"
    [] call[g].op = "template" -> "locate"

\* addOrUpdateChartRepo: a name that is registered is kept, or its index is read.
Add(g) ==
  /\ At(g, "add")
  /\ \/ /\ repos[Name(g)] # None /\ ~replaces
        /\ Goto(g, After(g))
        /\ UNCHANGED <<answer, budget>>
     \/ /\ repos[Name(g)] = None \/ replaces
        /\ call' = [call EXCEPT ![g].pc = "addTruncate", ![g].page = Page(call[g].url)]
        /\ UNCHANGED <<answer, budget>>
     \/ Spend("fault") /\ Failed(g, TRUE)
  /\ UNCHANGED <<files, outside, used>>

\* The index file is truncated and then written.
Truncate(g, from, to) ==
  /\ At(g, from)
  /\ index' = [index EXCEPT ![Name(g)] = Empty]
  /\ Goto(g, to)
  /\ UNCHANGED <<repos, outside, answer, used, budget>>

\* Mutant: the repository is not registered.
AddWriteIndexOnly(g) ==
  /\ At(g, "addWrite")
  /\ index' = [index EXCEPT ![Name(g)] = call[g].page]
  /\ Goto(g, After(g))
  /\ UNCHANGED <<repos, answer, budget, outside, used>>

\* Written, the repository is registered; or the disk is full.
AddWrite(g) ==
  /\ At(g, "addWrite")
  /\ \/ /\ index' = [index EXCEPT ![Name(g)] = call[g].page]
        /\ repos' = [repos EXCEPT ![Name(g)] = call[g].url]
        /\ Goto(g, After(g))
        /\ UNCHANGED <<answer, budget>>
     \/ /\ Spend("fault") /\ Failed(g, TRUE)
        /\ UNCHANGED files
  /\ UNCHANGED <<outside, used>>

AddEnds(g) ==
  /\ At(g, "end")
  /\ Return(g, [Answer(g) EXCEPT !.ok = TRUE, !.from = call[g].url])
  /\ UNCHANGED <<files, outside, used, budget>>

-----------------------------------------------------------------------------
(***************************************************************************)
(* FetchVersions.                                                          *)
(***************************************************************************)

\* Mutant: the index file that is there will do.
DownloadNothing(g) ==
  /\ At(g, "download") /\ Goto(g, "poll")
  /\ UNCHANGED <<files, outside, used, answer, budget>>

\* DownloadIndexFile
Download(g) ==
  /\ At(g, "download")
  /\ \/ /\ call' = [call EXCEPT ![g].pc = "truncate", ![g].page = Page(call[g].url)]
        /\ UNCHANGED <<answer, budget>>
     \/ Spend("fault") /\ Failed(g, TRUE)
  /\ UNCHANGED <<files, outside, used>>

Write(g) ==
  /\ At(g, "write")
  /\ \/ /\ index' = [index EXCEPT ![Name(g)] = call[g].page]
        /\ Goto(g, "poll")
        /\ UNCHANGED <<answer, budget>>
     \/ /\ Spend("fault") /\ Failed(g, TRUE)
        /\ UNCHANGED index
  /\ UNCHANGED <<repos, outside, used>>

\* Mutant: looks are not counted.
PollForever(g) ==
  /\ At(g, "poll")
  /\ call' = [call EXCEPT ![g].pc = IF index[Name(g)] # Empty THEN "load" ELSE "poll"]
  /\ UNCHANGED <<files, outside, used, answer, budget>>

\* Mutant: one look too many.
PollOnceMore(g) ==
  /\ At(g, "poll")
  /\ IF index[Name(g)] # Empty THEN Goto(g, "load")
     ELSE call' = [call EXCEPT ![g].left = @ - 1,
                               ![g].pc = IF call[g].left = 0 THEN "load" ELSE "poll"]
  /\ UNCHANGED <<files, outside, used, answer, budget>>

\* Mutant: an empty file is downloaded again.
PollAgain(g) ==
  /\ At(g, "poll") /\ Goto(g, IF index[Name(g)] # Empty THEN "load" ELSE "download")
  /\ UNCHANGED <<files, outside, used, answer, budget>>

\* The file is looked at until it is not empty, so many times.
Poll(g) ==
  /\ At(g, "poll")
  /\ IF index[Name(g)] # Empty THEN Goto(g, "load")
     ELSE call' = [call EXCEPT ![g].left = @ - 1,
                               ![g].pc = IF call[g].left = 1 THEN "load" ELSE "poll"]
  /\ UNCHANGED <<files, outside, used, answer, budget>>

\* LoadIndexFile: an empty file is an error.  Versions that do not parse are left out.
Load(g) ==
  LET file == index[Name(g)]
  IN  /\ At(g, "load")
      /\ IF file = Empty THEN Failed(g, FALSE)
         ELSE Return(g, [Answer(g) EXCEPT !.ok = TRUE, !.from = file.url,
                                          !.versions = file.versions \ Malformed])
      /\ UNCHANGED <<files, outside, used, budget>>

-----------------------------------------------------------------------------
(***************************************************************************)
(* Template, and Render, which calls it.                                   *)
(***************************************************************************)

\* TemplateChart looks up the version in the index file under the repository's name,
\* and loads the chart from where the index says or, if that is relative, from the URL
\* registered.  The index of an entry that was kept may be another repository's, or
\* older than the version.
Locate(g) ==
  LET file   == index[Name(g)]
      listed == /\ file \notin {None, Empty} /\ repos[Name(g)] # None
                /\ call[g].version \in file.versions
      from   == IF listed THEN {file.url, repos[Name(g)]} ELSE {}
  IN  /\ At(g, "locate")
      /\ \/ /\ \E url \in from :
                 /\ call[g].version \in offered[url]
                 /\ call' = [call EXCEPT ![g].pc = "scope", ![g].page = Page(url)]
            /\ UNCHANGED <<answer, budget>>
         \/ /\ ~listed \/ \E url \in from : call[g].version \notin offered[url]
            /\ Return(g, [Answer(g) EXCEPT !.kept = IF call[g].page = None THEN file ELSE @])
            /\ UNCHANGED budget
         \/ Spend("fault") /\ Failed(g, TRUE)
      /\ UNCHANGED <<files, outside, used>>

\* buildGVKClusterScopeMap
ScopeMap == [k \in kinds |-> Scopes[k]]

\* The chart is templated, the cluster asked for its kinds; PostProcessManifests and
\* SplitYAML do the rest.
Scope(g) ==
  /\ At(g, "scope")
  /\ \/ /\ \E manifest \in ChartTexts :
             IF RenderFails(manifest)
             THEN Return(g, [Answer(g) EXCEPT !.manifest = manifest, !.excused = TRUE])
             ELSE Return(g, [Answer(g) EXCEPT
                    !.ok = TRUE, !.from = call[g].page.url, !.manifest = manifest,
                    !.known = kinds,
                    !.resources = RenderedChart(manifest, Instance.labels, Instance.ns,
                                                ScopeMap)])
        /\ UNCHANGED budget
     \/ Spend("fault") /\ Failed(g, TRUE)
  /\ UNCHANGED <<files, outside, used>>

-----------------------------------------------------------------------------
(***************************************************************************)
(* SyncRepositories: the index of every repository registered is           *)
(* downloaded, one after the other.                                        *)
(***************************************************************************)

SyncBegin(g) ==
  /\ Free(g) /\ Spend("sync")
  /\ call' = [h \in Goroutines |->
       IF h = g THEN [NoCall EXCEPT !.op = "sync", !.pc = "next", !.alone = Busy = {},
                                    !.todo = { n \in Names : repos[n] # None }]
       ELSE [call[h] EXCEPT !.alone = FALSE]]
  /\ answer' = [answer EXCEPT ![g] = NoAnswer]
  /\ UNCHANGED <<files, outside, used>>

SyncNext(g) ==
  /\ At(g, "next")
  /\ \/ \E n \in call[g].todo :
          /\ call' = [call EXCEPT ![g].pc = "syncTruncate", ![g].url = repos[n],
                                  ![g].page = Page(repos[n]), ![g].todo = @ \ {n},
                                  ![g].since = offered[repos[n]]]
          /\ UNCHANGED <<answer, budget>>
     \/ /\ call[g].todo = {}
        /\ Return(g, [Answer(g) EXCEPT !.ok = TRUE, !.from = call[g].url])
        /\ UNCHANGED budget
     \/ Spend("fault") /\ Failed(g, TRUE)
  /\ UNCHANGED <<files, outside, used>>

SyncWrite(g) ==
  /\ At(g, "syncWrite")
  /\ index' = [index EXCEPT ![Name(g)] = call[g].page]
  /\ Goto(g, "next")
  /\ UNCHANGED <<repos, outside, used, answer, budget>>

-----------------------------------------------------------------------------
CallStep(g) ==
  \/ Add(g) \/ Truncate(g, "addTruncate", "addWrite") \/ AddWrite(g) \/ AddEnds(g)
  \/ Download(g) \/ Truncate(g, "truncate", "write") \/ Write(g) \/ Poll(g) \/ Load(g)
  \/ Locate(g) \/ Scope(g)
  \/ SyncNext(g) \/ Truncate(g, "syncTruncate", "syncWrite") \/ SyncWrite(g)

\* A version is published; a custom resource definition is installed.
Publish(url, v) ==
  /\ v \notin offered[url] /\ Spend("publish")
  /\ offered' = [offered EXCEPT ![url] = @ \cup {v}]
  /\ UNCHANGED <<replaces, files, kinds, call, answer, used>>

Install(k) ==
  /\ k \notin kinds /\ Spend("install")
  /\ kinds' = kinds \cup {k}
  /\ UNCHANGED <<replaces, files, offered, call, answer, used>>

Next ==
  \/ \E g \in Goroutines :
       \/ CallStep(g) \/ SyncBegin(g)
       \/ \E url \in Urls, op \in {"add", "fetch", "template"} : Begin(g, op, url)
  \/ \E url \in Urls, v \in News : Publish(url, v)
  \/ \E k \in DOMAIN Scopes : Install(k)

Spec == Init /\ [][Next]_vars

\* A goroutine that is in a call goes on; the library's calls have timeouts.
FairSpec == Spec /\ \A g \in Goroutines : WF_vars(CallStep(g))

-----------------------------------------------------------------------------
(***************************************************************************)
(* Properties.                                                             *)
(***************************************************************************)

Answers == { answer[g] : g \in Goroutines }

TypeOK ==
  /\ repos \in [Names -> Urls \cup {None}]
  /\ index \in [Names -> Pages \cup {Empty, None}]
  /\ \A g \in Goroutines : call[g].left \in 0..Attempts
  /\ \A g \in Busy : call[g].op # "sync" => call[g].url \in Urls

\* FetchVersions and Template answer from the repository they were asked about,
\* whatever other goroutines do, unless one that differs only in the middle of its
\* path was used too: DeriveUniqueHelmRepoName leaves that out.
OwnRepository ==
  \A a \in Answers : a.ok /\ a.op \in {"fetch", "template"} =>
    \/ a.from = a.url
    \/ \E url \in used \ {a.url} : url.host = a.url.host /\ Last(url.path) = Last(a.url.path)

\* FetchVersions answers with every version that was offered when it was called,
\* or when the oldest call under way then was: a download that took long may put
\* an older index in place of the own one.
FetchFresh ==
  \A a \in Answers : a.ok /\ a.op = "fetch" /\ a.from = a.url =>
    a.since \ Malformed \subseteq a.versions

\* A call that meets no fault and no other call succeeds, whatever earlier calls
\* have left behind: repositories registered or not, truncated files.  Only Template
\* may fail: if the repository does not offer the version it is asked for, or if the
\* library has kept the entry, the index file under the name (which Template does not
\* download again) may be empty or older than the version, and it or the URL
\* registered may belong to another repository that got the same name.
LoneCallSucceeds ==
  \A a \in Answers : a.op # None /\ ~a.excused =>
    \/ a.ok
    \/ a.op = "template" /\ a.version \notin a.since
    \/ /\ a.op = "template" /\ a.kept # None
       /\ \/ a.version \notin a.kept.versions
          \/ \E url \in used \ {a.url} : NameOf[url] = NameOf[a.url]

\* Every object of a chart comes out of Render, in order, with the labels by which
\* Applications finds it, also on the pods of its template if it is of one of the four
\* kinds, and, if it does not name a namespace itself, under the one the cluster has
\* it in, unless its kind was not known to the cluster by then.
RenderedFindable ==
  \A a \in Answers : a.ok /\ a.op = "template" =>
    LET objects == Without(Others, a.manifest)
        Carries(labels) == \A l \in DOMAIN Instance.labels :
                             l \in DOMAIN labels /\ labels[l] = Instance.labels[l]
    IN  /\ Len(a.resources) = Len(objects)
        /\ \A i \in DOMAIN objects :
             LET r == a.resources[i]
             IN  /\ r.kind = objects[i].kind /\ r.name = objects[i].name
                 /\ Carries(r.labels)
                 /\ r.kind \in Templated /\ r.template # None => Carries(r.template)
                 /\ objects[i].ns # "" => r.ns = objects[i].ns
                 /\ objects[i].ns = "" /\ r.kind \in a.known => (r.ns = "") = Scopes[r.kind]

\* Of each quantity, the requests and the limits are the sums over all who ask for it,
\* however they spell its name, but for those who write it as a bare number.
AddUp(totals, objects) ==
  \A field \in {"requests", "limits"} : \A name \in Range(Lower) :
    LET Asked == { p \in (DOMAIN objects) \X (DOMAIN Lower) :
                     LET asks == objects[p[1]][field]
                     IN  /\ asks # None /\ p[2] \in DOMAIN asks
                         /\ Lower[p[2]] = name /\ asks[p[2]] # Invalid }
        Bare  == { p \in Asked : ~objects[p[1]][field][p[2]].text }
    IN  IF name \in DOMAIN totals[field]
        THEN totals[field][name] =
               MapThenSumSet(LAMBDA p : objects[p[1]][field][p[2]].amount, Asked \ Bare)
        ELSE Asked \subseteq Bare

\* What the HTTP API says an application asks for (ApplicationSpecParser.Parse) is, of
\* every workload, the sum over its containers, and what each of its claims asks for,
\* less the quantities a chart writes as numbers (cpu: 1), which addResources leaves
\* out: it reads strings only, so the API says too little of such a chart.
SpecAddsUp ==
  \A a \in Answers : a.ok /\ a.op = "template" =>
    \/ ParseFails(a.resources) \/ ParsePanics(a.resources)
    \/ \A i \in DOMAIN a.resources : Extracted(a.resources[i]) =>
         LET obj   == a.resources[i]
             items == Range(ParseSpec(a.resources))
         IN  /\ \E item \in items :
                  /\ item.name = obj.name
                  /\ AddUp(item.totals, obj.spec.containers \o obj.spec.initContainers)
             /\ \A j \in DOMAIN obj.spec.claims : \E item \in items :
                  /\ item.name = obj.spec.claims[j].name
                  /\ AddUp(item.totals, <<obj.spec.claims[j].spec>>)

\* The stages of a call in the order it goes through them; SyncRepositories goes through
\* its own once for every repository that is left.
Stage == [add |-> 1, addTruncate |-> 2, addWrite |-> 3, end |-> 4, locate |-> 4, scope |-> 5,
          download |-> 4, truncate |-> 5, write |-> 6, poll |-> 7, load |-> 8,
          syncTruncate |-> 1, syncWrite |-> 2, next |-> 3]

Nearer(c, d) ==
  \/ c.todo \subseteq d.todo /\ c.todo # d.todo
  \/ c.todo = d.todo /\ Stage[c.pc] > Stage[d.pc]
  \/ c.todo = d.todo /\ c.pc = d.pc /\ c.left < d.left

\* Whatever other goroutines do to the files it shares with them, every step of a call
\* (FetchVersions, which looks again at an empty index file, included) ends it or brings
\* it nearer to its end, and no step of another takes it back.
CallsDescend ==
  [][\A g \in Busy :
       \/ call'[g] \in {NoCall, call[g], [call[g] EXCEPT !.alone = FALSE]}
       \/ Nearer(call'[g], call[g])]_vars

\* Every call comes to an end (FetchVersions), even if another one has left the
\* index file empty for good.
CallsEnd == \A g \in Goroutines : ~At(g, "idle") ~> At(g, "idle")
=============================================================================
