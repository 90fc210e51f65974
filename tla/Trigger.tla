------------------------------ MODULE Trigger -------------------------------
(***************************************************************************)
(* From a push to the working copy of a build: the webhooks                *)
(* (internal/webhook), dispatch and the run request                        *)
(* (internal/server/handlers.go), the clone stage that CreateBuild puts in *)
(* front (internal/store/store.go), and the step that clones               *)
(* (internal/gitclone).  Around them the repositories, which change before *)
(* a delivery arrives and before its build runs.                           *)
(*                                                                         *)
(* An address is the sequence of its parts, <<"https", "://", "hub", "/",  *)
(* "app", ".git">>; a repository is the pair of its host and its path, a   *)
(* branch the sequence of its commits, oldest first.                       *)
(***************************************************************************)
EXTENDS Naturals, Sequences, FiniteSets, SequencesExt

CONSTANTS
  Name,         \* the names of hosts and paths, in any letters
  Small,        \* Small[t]: the part t, which has capitals, in small letters
  Repo,         \* the repositories: <<host, path>>
  GitHub,       \* the host that sends GitHub's webhooks; the others send GitLab's
  Branch,       \* the names of branches
  Main,         \* the default branch
  Pipeline,     \* the names of pipelines
  StageName,    \* the names of stages
  Known,        \* what LoadDir may bring: functions from names to definitions
  Definition,   \* what a registration may bring later
  Request,      \* the run requests: [repo, branch, commit], all optional
  None, Failed, UserStep, \* no commit; a failed clone; a step of the user's instead of it
  Depth,        \* git clone --depth (50)
  MaxCommits,   \* bounds the commits
  MaxSent,      \* bounds the deliveries that are not lost
  MaxRequests   \* bounds the deliveries that arrive and the run requests

\* An address is made of these.
Mark == {"/", ":", "://", "@", ".git"}

\* What a definition says of its stages.
Stage == [name : StageName, deps : SUBSET StageName]
Names(stages) == {stages[i].name : i \in DOMAIN stages}
DepsOf(stages, s) == UNION {stages[i].deps : i \in {j \in DOMAIN stages : stages[j].name = s}}
UniqueNames(stages) ==
  \A i, j \in DOMAIN stages : stages[i].name = stages[j].name => i = j

\* Some stage of any set depends on none of it.
NoCycle(stages) ==
  \A S \in (SUBSET Names(stages)) \ {{}} : \E s \in S : DepsOf(stages, s) \cap S = {}

\* The stages that Validate lets through; DagAlgorithms has the search for cycles.
Valid(stages) ==
  /\ stages \in Seq(Stage)
  /\ UniqueNames(stages) /\ NoCycle(stages)
  /\ \A i \in DOMAIN stages : stages[i].deps \subseteq Names(stages)

Definitions == Definition \cup UNION {Range(known) : known \in Known}
PipelineNames == Pipeline \cup UNION {DOMAIN known : known \in Known}

\* strings.ToLower
Lower(t) == IF t \in DOMAIN Small THEN Small[t] ELSE t
LowerAll(url) == [i \in DOMAIN url |-> Lower(url[i])]

\* A repository is known by its address up to letters; a branch has a name.
ASSUME RepoAssumption ==
  /\ Repo \subseteq Name \X Name /\ Repo # {}
  /\ Name \cap Mark = {}
  /\ \A t \in DOMAIN Small : Small[t] \notin (DOMAIN Small) \cup Mark
  /\ \A t \in Mark \cup {"https", "push", "pr", "mr", "pull_request", "merge_request"} :
       t \notin DOMAIN Small
  /\ \A r, s \in Repo : LowerAll(r) = LowerAll(s) => r = s
  /\ Main \in Branch /\ "" \notin Branch

\* Validate has seen every definition; a request may name anything.
ASSUME PipelineAssumption ==
  /\ \A def \in Definitions : Valid(def.stages)
  /\ \A req \in Request : req.commit \in Nat \cup {None}

ASSUME BoundAssumption ==
  /\ Depth \in Nat \ {0}
  /\ MaxCommits \in Nat /\ MaxSent \in Nat /\ MaxRequests \in Nat

VARIABLES
  remote,    \* remote[r][b]: the commits of branch b, none if there is no such branch
  commits,   \* how many commits were ever made: the next is commits + 1
  sent,      \* the deliveries that are not lost: they may arrive late, or again
  pipelines, \* Store.pipelines
  todo,      \* what the handlers in dispatch have yet to create
  builds,    \* Store.builds in their order
  requests,  \* how many deliveries and run requests have arrived
  owed       \* history: for each delivery that arrived, the pipelines it is meant for

vars == <<remote, commits, sent, pipelines, todo, builds, requests, owed>>

Tag == "refs/tags/v1"

-----------------------------------------------------------------------------
(***************************************************************************)
(* Matching.                                                               *)
(***************************************************************************)

TrimSuffix(url, part) == IF url # <<>> /\ Last(url) = part THEN Front(url) ELSE url

\* Where part is first, 0 if nowhere.
First(url, part) ==
  IF part \in Range(url)
    THEN CHOOSE i \in DOMAIN url : url[i] = part /\ \A j \in 1 .. i - 1 : url[j] # part
    ELSE 0

After(url, i) == SubSeq(url, i + 1, Len(url))

\* The steps of normalizeRepo after the suffixes.
NoScheme(url) == After(url, First(url, "://"))
NoUser(url) ==
  LET user == First(url, "@") IN
  IF "/" \in Range(SubSeq(url, 1, user)) THEN url ELSE After(url, user)
WithSlash(url) ==
  LET colon == First(url, ":") IN IF colon = 0 THEN url ELSE ReplaceAt(url, colon, "/")

NormalizeRepo(url) ==
  WithSlash(NoUser(NoScheme(TrimSuffix(TrimSuffix(LowerAll(url), ".git"), "/"))))

\* mutant: knows only GitHub's name
NormEventGitHubOnly(e) == IF Lower(e) \in {"pr", "pull_request"} THEN "pr" ELSE Lower(e)

NormEvent(e) ==
  IF Lower(e) \in {"pr", "pull_request", "pull-request", "mr", "merge_request", "merge-request"}
    THEN "pr" ELSE Lower(e)

MatchPipeline(def, info) ==
  /\ def.repo # <<>> /\ NormalizeRepo(def.repo) = NormalizeRepo(info.repo)
  /\ def.events = {} \/ \E e \in def.events : NormEvent(e) = NormEvent(info.event)
  /\ def.branches = {} \/ info.branch \in def.branches

-----------------------------------------------------------------------------
(***************************************************************************)
(* What the platforms send.  head is the repository of the commit, repo    *)
(* the one that it is pushed or proposed to.                               *)
(***************************************************************************)
CloneURL(r) == <<"https", "://", r[1], "/", r[2], ".git">>

Delivery(kind, repo, head, branch, commit) ==
  [kind |-> kind, repo |-> repo, head |-> head, branch |-> branch, commit |-> commit]

TriggerInfo(event, repo, d) ==
  [event |-> event, repo |-> CloneURL(repo), branch |-> d.branch, commit |-> d.commit]

\* A tag is a push whose ref is not under refs/heads/.  The repository of a pull
\* request is the one it comes from.
ParseGitHub(d) ==
  CASE d.kind \in {"push", "tag"} -> {TriggerInfo("push", d.repo, d)}
    [] d.kind = "propose"         -> {TriggerInfo("pull_request", d.head, d)}
    [] OTHER                      -> {}

\* A tag has a hook of its own, which is not handled.
ParseGitLab(d) ==
  CASE d.kind = "push"    -> {TriggerInfo("push", d.repo, d)}
    [] d.kind = "propose" -> {TriggerInfo("merge_request", d.repo, d)}
    [] OTHER              -> {}

\* No info: the event is ignored.
Parse(d) == IF d.repo[1] = GitHub THEN ParseGitHub(d) ELSE ParseGitLab(d)

\* A delivery may be lost.
Send(d) ==
  \/ UNCHANGED sent
  \/ Cardinality(sent) < MaxSent /\ sent' = sent \cup {d}

\* A new commit on top of a branch, or instead of its last one (a forced push).
Push(r, b) ==
  /\ commits < MaxCommits
  /\ LET old == IF remote[r][b] = <<>> THEN remote[r][Main] ELSE remote[r][b] IN
     \E keep \in {Len(old), Len(old) - 1} :
       remote' = [remote EXCEPT ![r][b] = Append(SubSeq(old, 1, keep), commits + 1)]
  /\ commits' = commits + 1
  /\ Send(Delivery("push", r, r, b, commits + 1))
  /\ UNCHANGED <<pipelines, todo, builds, requests, owed>>

DeleteBranch(r, b) ==
  /\ b # Main /\ remote[r][b] # <<>>
  /\ remote' = [remote EXCEPT ![r][b] = <<>>]
  /\ Send(Delivery("delete", r, r, b, None))
  /\ UNCHANGED <<commits, pipelines, todo, builds, requests, owed>>

PushTag(r) ==
  /\ Send(Delivery("tag", r, r, Tag, Last(remote[r][Main])))
  /\ UNCHANGED <<remote, commits, pipelines, todo, builds, requests, owed>>

\* A branch of the same repository or of a fork is proposed to Main, or the proposal
\* is closed.
Propose(r, head, b, kind) ==
  /\ head[1] = r[1] /\ <<head, b>> # <<r, Main>> /\ remote[head][b] # <<>>
  /\ Send(Delivery(kind, r, head, Main, Last(remote[head][b])))
  /\ UNCHANGED <<remote, commits, pipelines, todo, builds, requests, owed>>

-----------------------------------------------------------------------------
(***************************************************************************)
(* The handlers.                                                           *)
(***************************************************************************)

Register(p, def) ==
  /\ ~(p \in DOMAIN pipelines /\ pipelines[p] = def)
  /\ pipelines' = [q \in DOMAIN pipelines \cup {p} |-> IF q = p THEN def ELSE pipelines[q]]
  /\ UNCHANGED <<remote, commits, sent, todo, builds, requests, owed>>

Delete(p) ==
  /\ p \in DOMAIN pipelines
  /\ pipelines' = [q \in DOMAIN pipelines \ {p} |-> pipelines[q]]
  /\ UNCHANGED <<remote, commits, sent, todo, builds, requests, owed>>

Room == requests < MaxRequests /\ requests' = requests + 1

\* The repository a delivery counts for.  A GitHub pull request from a fork counts for
\* the fork: so does the code, and no document says which of the two it should be.
Subject(d) == IF d.kind = "propose" /\ d.repo[1] = GitHub THEN d.head ELSE d.repo

\* The spellings of README.md:112 and webhook_test.go, in small letters.
Scheme == {<<"https", "://">>, <<"http", "://">>, <<"ssh", "://", "git", "@">>, <<>>}
Suffix == {<<>>, <<".git">>, <<"/">>}
Bare(host, path) ==
  {scheme \o <<host, "/", path>> : scheme \in Scheme} \cup {<<"git", "@", host, ":", path>>}
Spellings(host, path) ==
  UNION {{bare \o tail : bare \in Bare(host, path)} : tail \in Suffix}

About(url, r) == LowerAll(url) \in Spellings(Lower(r[1]), Lower(r[2]))

\* The names of a proposal in README.md:58 and webhook_test.go.
ProposalName == {"pr", "mr", "pull_request", "merge_request"}

\* A trigger as README.md describes it.
Documented(def) ==
  /\ def.repo = <<>> \/ \E r \in Name \X Name : About(def.repo, r)
  /\ \A e \in def.events : Lower(e) \in {"push"} \cup ProposalName

\* What a delivery is meant for, by README.md: the address in any spelling, the event
\* under any of its names, the branch.  README.md does not mention tags: one that is
\* pushed to GitHub counts as a push, as in the code.
Meant(def, d) ==
  /\ Documented(def)
  /\ \/ d.kind \in {"push", "propose"}
     \/ d.kind = "tag" /\ d.repo[1] = GitHub
  /\ About(def.repo, Subject(d))
  /\ \/ def.events = {}
     \/ \E e \in def.events : Lower(e) \in IF d.kind = "propose" THEN ProposalName ELSE {"push"}
  /\ def.branches = {} \/ d.branch \in def.branches

\* A delivery arrives: dispatch lists the pipelines and will create a build for each
\* that matches; what becomes of the store after that does not change the list.
Deliver(d) ==
  /\ Room /\ d \in sent
  /\ LET n == requests + 1
         hits == {x \in (DOMAIN pipelines) \X Parse(d) : MatchPipeline(pipelines[x[1]], x[2])}
     IN  /\ todo' = todo \cup {[from |-> n, pipe |-> x[1], stages |-> pipelines[x[1]].stages,
                                info |-> x[2]] : x \in hits}
         /\ owed' = owed \cup {[n |-> n, d |-> d,
                                pipes |-> {p \in DOMAIN pipelines : Meant(pipelines[p], d)},
                                open |-> {p \in DOMAIN pipelines : ~ Documented(pipelines[p])}]}
  /\ UNCHANGED <<remote, commits, sent, pipelines, builds>>

\* handleRunPipeline: repository, branch and commit are optional.
RunRequest(p, req) ==
  /\ Room /\ p \in DOMAIN pipelines
  /\ todo' = todo \cup {[from |-> 0, pipe |-> p, stages |-> pipelines[p].stages,
                         info |-> [event |-> None, repo |-> req.repo, branch |-> req.branch,
                                   commit |-> req.commit]]}
  /\ UNCHANGED <<remote, commits, sent, pipelines, builds, owed>>

\* mutant: only the first stage waits for the clone
WithCloneFirstOnly(stages) ==
  <<[name |-> "clone", deps |-> {}]>> \o
  [i \in DOMAIN stages |-> IF i = 1 THEN [stages[i] EXCEPT !.deps = {"clone"}] ELSE stages[i]]

\* The clone stage, and the roots that now wait for it.
WithClone(stages) ==
  <<[name |-> "clone", deps |-> {}]>> \o
  [i \in DOMAIN stages |->
     IF stages[i].deps = {} THEN [stages[i] EXCEPT !.deps = {"clone"}] ELSE stages[i]]

CreateBuild(x) ==
  /\ x \in todo
  /\ todo' = todo \ {x}
  /\ builds' = Append(builds,
       [from |-> x.from, pipe |-> x.pipe, info |-> x.info, copy |-> None,
        stages |-> IF x.info.repo = <<>> THEN x.stages ELSE WithClone(x.stages)])
  /\ UNCHANGED <<remote, commits, sent, pipelines, requests, owed>>

-----------------------------------------------------------------------------
(***************************************************************************)
(* The clone stage.                                                        *)
(***************************************************************************)

\* What git clone --depth brings of a branch.
Recent(history) ==
  SubSeq(history, IF Len(history) > Depth THEN Len(history) - Depth + 1 ELSE 1, Len(history))

History(repo, branch) ==
  LET b == IF branch = "" THEN Main ELSE branch IN
  IF b \in Branch /\ \E r \in Repo : About(repo, r)
    THEN remote[CHOOSE r \in Repo : About(repo, r)][b] ELSE <<>>

\* mutant: clones the default branch
GitCloneDefault(info) ==
  LET got == Recent(History(info.repo, "")) IN
  IF got = <<>> THEN Failed
  ELSE IF info.commit \in Range(got) THEN info.commit ELSE Last(got)

\* The step of gitclone.Step: without such a branch it fails; a checkout that fails
\* leaves the head of the branch.
GitClone(info) ==
  LET got == Recent(History(info.repo, info.branch)) IN
  IF got = <<>> THEN Failed
  ELSE IF info.commit \in Range(got) THEN info.commit ELSE Last(got)

\* runBuild reads the pipeline again, and runStage prefers a definition found in it: a
\* pipeline with a stage of that name has its own step run.
RunClone(i) ==
  /\ builds[i].info.repo # <<>> /\ builds[i].copy = None
  /\ builds[i].pipe \in DOMAIN pipelines
  /\ builds' = [builds EXCEPT ![i].copy =
                  IF "clone" \in Names(pipelines[builds[i].pipe].stages)
                    THEN UserStep ELSE GitClone(builds[i].info)]
  /\ UNCHANGED <<remote, commits, sent, pipelines, todo, requests, owed>>

-----------------------------------------------------------------------------
\* Every repository has a commit on Main; main has loaded the pipelines.
Init ==
  /\ remote = [r \in Repo |-> [b \in Branch |-> IF b = Main THEN <<1>> ELSE <<>>]]
  /\ commits = 1
  /\ pipelines \in Known
  /\ sent = {} /\ todo = {} /\ builds = <<>> /\ requests = 0 /\ owed = {}

Repositories ==
  \E r \in Repo, b \in Branch :
    \/ Push(r, b) \/ DeleteBranch(r, b) \/ PushTag(r)
    \/ \E head \in Repo, kind \in {"propose", "close"} : Propose(r, head, b, kind)

Handlers ==
  \/ \E p \in Pipeline : Delete(p) \/ \E def \in Definition : Register(p, def)
  \/ \E d \in sent : Deliver(d)
  \/ \E p \in Pipeline, req \in Request : RunRequest(p, req)
  \/ \E x \in todo : CreateBuild(x)

Next == Repositories \/ Handlers \/ \E i \in DOMAIN builds : RunClone(i)

Spec == Init /\ [][Next]_vars

-----------------------------------------------------------------------------
\* A commit is known by its number.
Info ==
  [event : {"push", "pull_request", "merge_request", None},
   repo : {CloneURL(r) : r \in Repo} \cup {req.repo : req \in Request},
   branch : Branch \cup {Tag} \cup {req.branch : req \in Request},
   commit : Nat \cup {None}]

Deliveries ==
  [kind : {"push", "delete", "tag", "propose", "close"}, repo : Repo, head : Repo,
   branch : Branch \cup {Tag}, commit : Nat \cup {None}]
Work == [from : Nat, pipe : PipelineNames, stages : Seq(Stage), info : Info]
BuildStage ==
  [name : StageName \cup {"clone"}, deps : SUBSET (StageName \cup {"clone"})]
Build ==
  [from : Nat, pipe : PipelineNames, info : Info, copy : Nat \cup {None, Failed, UserStep},
   stages : Seq(BuildStage)]

TypeOK ==
  /\ remote \in [Repo -> [Branch -> Seq(Nat)]]
  /\ \A r \in Repo : remote[r][Main] # <<>>
  /\ commits \in Nat /\ requests \in Nat
  /\ sent \subseteq Deliveries
  /\ DOMAIN pipelines \subseteq PipelineNames /\ Range(pipelines) \subseteq Definitions
  /\ todo \subseteq Work
  /\ builds \in Seq(Build)
  /\ owed \subseteq [n : Nat, d : sent, pipes : SUBSET PipelineNames, open : SUBSET PipelineNames]

(***************************************************************************)
(* A delivery gets one build of every pipeline it is meant for, about its  *)
(* commit, and of no other: whatever spelling of the address the pipeline  *)
(* has, whichever name of the event it lists, and whatever is registered   *)
(* or deleted meanwhile.  What becomes of a pipeline whose trigger is not  *)
(* written as README.md says is left open (.git/ at the end of an address  *)
(* keeps its .git, webhook.go:129).                                        *)
(***************************************************************************)
Made(n) == {i \in DOMAIN builds : builds[i].from = n}
Due(n) == {x \in todo : x.from = n}
BuiltAsMeant ==
  \A o \in owed :
    /\ ({builds[i].pipe : i \in Made(o.n)} \cup {x.pipe : x \in Due(o.n)}) \ o.open = o.pipes
    /\ \A i \in Made(o.n) :
         /\ builds[i].info.commit = o.d.commit
         /\ \A j \in Made(o.n) : builds[i].pipe = builds[j].pipe => i = j
    /\ \A x \in Due(o.n) :
         /\ x.info.commit = o.d.commit
         /\ \A y \in Due(o.n) : x.pipe = y.pipe => x = y
         /\ \A i \in Made(o.n) : builds[i].pipe # x.pipe

(***************************************************************************)
(* A build of a push to a branch works on the commit that was pushed, and  *)
(* not on what the branch has become since, as long as that commit is      *)
(* among the last Depth of its branch when the clone runs.                 *)
(***************************************************************************)
PushIsTested ==
  [][\A i \in DOMAIN builds : \A o \in owed :
       LET was == builds[i] IN
       /\ was.copy = None /\ builds'[i].copy \notin {None, UserStep}
       /\ o.n = was.from /\ o.d.kind = "push"
       /\ o.d.commit \in Range(Recent(remote[o.d.repo][o.d.branch]))
       => builds'[i].copy = o.d.commit]_vars

(***************************************************************************)
(* In a build with a repository any set of stages that lacks none of its   *)
(* dependencies holds the clone stage, and there is no cycle: all stages   *)
(* come after the clone, as StageRun assumes.  A pipeline with a stage     *)
(* called clone is left to StageNamesUnique.                               *)
(***************************************************************************)
CloneComesFirst ==
  [][\A i \in (DOMAIN builds') \ DOMAIN builds :
       LET stages == builds'[i].stages IN
       builds'[i].info.repo # <<>> /\ UniqueNames(stages) =>
         /\ \A S \in (SUBSET Names(stages)) \ {{}} :
              (\A s \in S : DepsOf(stages, s) \subseteq S) => "clone" \in S
         /\ NoCycle(stages)]_builds

(***************************************************************************)
(* validate.go:11 "stage names are unique" (README.md:62 says it of the    *)
(* pipelines, and runStages keys its channels with them): also in a build. *)
(***************************************************************************)
StageNamesUnique ==
  \A i \in DOMAIN builds : UniqueNames(builds[i].stages)
=============================================================================
