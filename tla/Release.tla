------------------------------- MODULE Release -------------------------------
(***************************************************************************)
(* From a merge on main to the code an agent runs.                         *)
(*                                                                         *)
(* Azure DevOps agents keep a task under its Major.Minor: published code   *)
(* that repeats a number already published never runs on an agent that has *)
(* it.  Three layers see to it that a task that changed since the last     *)
(* release has a new Minor: a workflow that bumps it on the release pull   *)
(* request, a required check of that pull request, and a guard that runs   *)
(* once the release is tagged.                                             *)
(***************************************************************************)
EXTENDS Integers, Sequences

CONSTANTS
  Tasks,        \* the directories with a task.json
  Contents,     \* what a task may hold
  Versions,     \* the <<Major, Minor>> an author may write
  First,        \* the tasks of the first release
  Overrides,    \* whether an administrator may merge past the required check
  MaxCommits,   \* bound: commits to main other than releases
  MaxTags       \* bound: releases tagged

\* The source, task.json but for Major and Minor, package.json's dependencies,
\* the versions of package-lock.json's production entries, what is packaged
\* besides (Strings, icons, the task's scripts, its documents, the other fields of
\* package.json and package-lock.json), and all the rest: tests, development.
Parts == {"src", "manifest", "declared", "locked", "assets", "rest"}

\* What the .vsix holds of a task.
Shipped == Parts \ {"rest"}

\* Of that, what the analysis does not look at.
Unseen == {"assets"}

Task == [content : Contents, version : Nat \X Nat]
Tree == [Tasks -> Task]

ASSUME ReleaseAssumption ==
  /\ Contents \subseteq [Parts -> Int]
  /\ Versions \subseteq Nat \X Nat
  /\ First \in Tree
  /\ Overrides \in BOOLEAN

Minor(task) == task.version[2]
NotBelow(v, w) == v[1] > w[1] \/ (v[1] = w[1] /\ v[2] >= w[2])

-----------------------------------------------------------------------------
VARIABLES
  main,        \* the tasks at the head of main
  commits,     \* commits to main other than releases
  tags,        \* the tasks at every v*.*.* tag
  open,        \* the release pull request is open
  base,        \* the tasks at the commit its branch starts from
  behind,      \* main has moved since
  branch,      \* the tasks at the branch's head
  gate,        \* the verdict of the required check on that head
  unchecked,   \* history: a release is not what the required check had judged
  cleared,     \* tags that the tag-time guard let through
  timely,      \* history: those it let through while they were the newest
  published    \* tags on the Marketplace

pullRequest == <<open, base, behind, branch, gate>>
vars == <<main, commits, tags, pullRequest, unchecked, cleared, timely, published>>

TypeOK ==
  /\ main \in Tree /\ base \in Tree /\ branch \in Tree
  /\ commits \in Nat
  /\ tags \in Seq(Tree) /\ Len(tags) >= 1
  /\ open \in BOOLEAN /\ behind \in BOOLEAN /\ unchecked \in BOOLEAN
  /\ gate \in {"none", "green", "red"}
  /\ cleared \subseteq 1 .. Len(tags)
  /\ timely \subseteq cleared /\ published \subseteq cleared

\* A first release is out.
Init ==
  /\ main = First
  /\ commits = 0
  /\ tags = <<main>>
  /\ open = FALSE /\ base = main /\ behind = FALSE /\ branch = main
  /\ gate = "none"
  /\ unchecked = FALSE
  /\ cleared = {1} /\ timely = {1} /\ published = {1}

-----------------------------------------------------------------------------
\* The analysis that all three layers share.

productionDependenciesChanged(prev, curr) ==
  \E part \in {"declared", "locked"} : prev.content[part] # curr.content[part]

Changed(prev, curr) ==
  \/ prev.content["src"] # curr.content["src"]
  \/ prev.content["manifest"] # curr.content["manifest"]
  \/ prev.version # curr.version
  \/ productionDependenciesChanged(prev, curr)

\* Only the Minor is compared.
NeedsBump(prev, curr) == Changed(prev, curr) /\ Minor(curr) <= Minor(prev)

Passes(prev, curr) == \A t \in Tasks : ~NeedsBump(prev[t], curr[t])

\* Faulty variant: the tag just pushed is its own baseline.
resolvePrevRefSelf(k) == Len(tags)

\* The newest tag that is not at the commit itself; that commit is the k-th to
\* be tagged, or is to be.
resolvePrevRef(k) == IF k = Len(tags) THEN k - 1 ELSE Len(tags)

Newest == tags[Len(tags)]

-----------------------------------------------------------------------------
\* Main and the release pull request.

\* A pull request is merged, with or without a bump of its author's: a task's
\* version may not be below the base's.
FeatureMerge(t, content, version) ==
  /\ commits < MaxCommits
  /\ NotBelow(version, main[t].version)
  /\ <<content, version>> # <<main[t].content, main[t].version>>
  /\ main' = [main EXCEPT ![t] = [content |-> content, version |-> version]]
  /\ commits' = commits + 1
  /\ behind' = open
  /\ UNCHANGED <<tags, open, base, branch, gate, unchecked, cleared, timely, published>>

\* Release-please opens the pull request, or force-pushes its branch after main
\* moved, wiping the bumps.
ReleasePlease ==
  /\ Len(tags) < MaxTags
  /\ open => behind
  /\ open' = TRUE /\ base' = main /\ branch' = main /\ behind' = FALSE
  /\ gate' = "none"
  /\ UNCHANGED <<main, commits, tags, unchecked, cleared, timely, published>>

\* Faulty variant: the number found is the Major.
bumpFileOfMajor(task) == [task EXCEPT !.version = <<@[1] + 1, @[2]>>]

bumpFile(task) == [task EXCEPT !.version = <<@[1], @[2] + 1>>]

BumpedTree ==
  [t \in Tasks |-> IF NeedsBump(Newest[t], branch[t]) THEN bumpFile(branch[t])
                   ELSE branch[t]]

\* Faulty variant: pushed with the workflow's own token, which starts no check.
AutoBumpUnchecked ==
  /\ open /\ ~Passes(Newest, branch)
  /\ branch' = BumpedTree
  /\ UNCHANGED <<main, commits, tags, open, base, behind, gate, unchecked, cleared,
                 timely, published>>

\* A push to a branch that has moved is refused, so this is one step.
AutoBump ==
  /\ open /\ ~Passes(Newest, branch)
  /\ branch' = BumpedTree /\ gate' = "none"
  /\ UNCHANGED <<main, commits, tags, open, base, behind, unchecked, cleared,
                 timely, published>>

\* What merging the branch would make of main; its commits only touch
\* versions.  Two sides that changed one version differently conflict.
Bumped(t) == branch[t].version # base[t].version
Mergeable ==
  \A t \in Tasks : Bumped(t) => main[t].version \in {base[t].version, branch[t].version}

\* Faulty variant: conflicting or not, the branch's side is taken.
MergeRefOfBranch ==
  [t \in Tasks |-> [main[t] EXCEPT !.version = branch[t].version]]

MergeRef ==
  [t \in Tasks |-> IF Bumped(t) THEN [main[t] EXCEPT !.version = branch[t].version]
                   ELSE main[t]]

\* The check looks at the merge once for every push to the branch.
Gate ==
  /\ open /\ gate = "none" /\ Mergeable
  /\ gate' = IF Passes(Newest, MergeRef) THEN "green" ELSE "red"
  /\ UNCHANGED <<main, commits, tags, open, base, behind, branch, unchecked,
                 cleared, timely, published>>

UpToDate == gate = "green" /\ ~behind

\* The merge of the pull request is tagged.  The check must be green; that main
\* has not moved since is asked nowhere, and no push to main repeats the check.
MergeRelease ==
  /\ open /\ Mergeable
  /\ gate = "green" \/ Overrides
  /\ unchecked' = (unchecked \/ ~UpToDate)
  /\ main' = MergeRef /\ tags' = Append(tags, MergeRef)
  /\ open' = FALSE /\ base' = MergeRef /\ behind' = FALSE /\ branch' = MergeRef
  /\ gate' = "none"
  /\ UNCHANGED <<commits, cleared, timely, published>>

-----------------------------------------------------------------------------
\* The release workflow, started by the tag or, at any time, by hand.

Guard(k) ==
  /\ k \in (1 .. Len(tags)) \ cleared
  /\ Passes(tags[resolvePrevRef(k)], tags[k])
  /\ cleared' = cleared \cup {k}
  /\ timely' = IF k = Len(tags) THEN timely \cup {k} ELSE timely
  /\ UNCHANGED <<main, commits, tags, pullRequest, unchecked, published>>

\* Faulty variant: the publishing job does not wait for the guard.
PublishUnguarded(k) ==
  /\ k \in 1 .. Len(tags)
  /\ \A j \in published : j < k
  /\ published' = published \cup {k}
  /\ UNCHANGED <<main, commits, tags, pullRequest, unchecked, cleared, timely>>

\* The jobs in between may fail or be declined.  The Marketplace takes no
\* version below the last.
Publish(k) ==
  /\ k \in cleared
  /\ \A j \in published : j < k
  /\ published' = published \cup {k}
  /\ UNCHANGED <<main, commits, tags, pullRequest, unchecked, cleared, timely>>

Next ==
  \/ \E t \in Tasks, content \in Contents :
       \E version \in Versions \cup {main[t].version} :
         FeatureMerge(t, content, version)
  \/ ReleasePlease \/ AutoBump \/ Gate \/ MergeRelease
  \/ \E k \in 1 .. Len(tags) : Guard(k) \/ Publish(k)

\* The workflows that a push starts do run.
Fairness ==
  /\ WF_vars(open /\ ReleasePlease) /\ WF_vars(AutoBump) /\ WF_vars(Gate)

Spec == Init /\ [][Next]_vars /\ Fairness

-----------------------------------------------------------------------------
\* Two publications of a task that share a version, the i-th tag and the j-th,
\* agree in all that ships but what the analysis does not look at.
Agree(i, j) ==
  \A t \in Tasks :
    tags[i][t].version = tags[j][t].version =>
      \A part \in Shipped \ Unseen : tags[i][t].content[part] = tags[j][t].content[part]

\* "the last line, and the only one an admin merge cannot bypass" (release.yml
\* 118-120): an agent that runs the published version of a task runs its
\* published code, among the releases that the guard let through when they were
\* the newest.
AgentsRunPublishedCode ==
  \A i, j \in published \cap timely : i < j => Agree(i, j)

\* So it is for any two publications when every release was merged as the
\* required check had judged it, whatever else was tagged, published or not, or
\* released by hand, late or again (#192, #264, #676).  And so it is, whatever
\* was merged past the check or onto a main that had moved since, when the guard
\* let every release after the first of the two through while it was the newest.
NoStaleCode ==
  \A i, j \in published :
    i < j /\ (unchecked => (i + 1) .. j \subseteq timely) => Agree(i, j)

\* A release never takes back a version that main already has, although the
\* bumps were computed on a branch that main may have left behind.
VersionsNeverGoBack ==
  [][\A t \in Tasks : NotBelow(main'[t].version, main[t].version)]_vars

\* "a second run makes no further change" (bump-minor-versions.js 18-19): where
\* no author's new Major restarted the Minor below the release's, one bump
\* satisfies the analysis, whatever was merged and released before it.
OneBumpIsEnough ==
  [][AutoBump /\ (\A t \in Tasks : branch[t].version[1] = Newest[t].version[1])
       => Passes(Newest, branch')]_vars

\* The bumps catch up with the check: once main rests, the release pull
\* request becomes mergeable, even where a new Major restarted the Minor and
\* one bump does not do.
ReleaseBecomesMergeable == open ~> (~open \/ UpToDate)

=============================================================================
