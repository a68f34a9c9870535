---------------------------- MODULE ReleaseProofs ----------------------------
(***************************************************************************)
(* No number is published twice with different code, for any number of     *)
(* tasks, commits and releases, and whatever the tasks hold.               *)
(***************************************************************************)
EXTENDS Release, TLAPS

-----------------------------------------------------------------------------
\* The inductive invariant.

\* The branch adds bumps to what it starts from, and nothing else.
BranchOnlyBumps ==
  \A t \in Tasks : /\ branch[t].content = base[t].content
                   /\ NotBelow(branch[t].version, base[t].version)

\* A verdict that is up to date is about the branch.
GateIsAboutBranch ==
  /\ open /\ ~behind => base = main
  /\ open /\ UpToDate => Passes(Newest, branch)

\* Any two tags, not only neighbours, differ in their Minor where they differ,
\* as far as the required check or the guard has seen to it.
TagsAreFresh ==
  \A i, j \in 1 .. Len(tags) :
    i < j /\ (unchecked => (i + 1) .. j \subseteq timely) => Passes(tags[i], tags[j])

\* What is not released yet is not below the newest release.
NewestIsNotAhead ==
  \A t \in Tasks : /\ NotBelow(main[t].version, Newest[t].version)
                   /\ NotBelow(base[t].version, Newest[t].version)

ReleaseInvariant ==
  TypeOK /\ BranchOnlyBumps /\ GateIsAboutBranch /\ TagsAreFresh /\ NewestIsNotAhead

-----------------------------------------------------------------------------
\* The analysis and the merge.

\* What passes the analysis step by step passes it as a whole, which is why
\* comparing neighbours is enough.
LEMMA PassesTransitive ==
  ASSUME NEW a \in Tree, NEW b \in Tree, NEW c \in Tree,
         Passes(a, b), Passes(b, c)
  PROVE  Passes(a, c)
<1> SUFFICES ASSUME NEW t \in Tasks, NeedsBump(a[t], c[t]) PROVE FALSE
  BY DEF Passes
<1>1. /\ Minor(a[t]) \in Nat /\ Minor(b[t]) \in Nat /\ Minor(c[t]) \in Nat
  BY DEF Tree, Task, Minor
<1>2. ~NeedsBump(a[t], b[t]) /\ ~NeedsBump(b[t], c[t])
  BY DEF Passes
<1>3. CASE Changed(a[t], b[t])
  <2>1. Minor(b[t]) > Minor(a[t])
    BY <1>1, <1>2, <1>3 DEF NeedsBump
  <2>2. Minor(c[t]) >= Minor(b[t])
    BY <1>1, <1>2 DEF NeedsBump, Changed, Minor
  <2> QED
    BY <1>1, <2>1, <2>2 DEF NeedsBump
<1>4. CASE ~Changed(a[t], b[t])
  <2>1. Changed(b[t], c[t]) /\ Minor(a[t]) = Minor(b[t])
    BY <1>4 DEF NeedsBump, Changed, productionDependenciesChanged, Minor
  <2> QED
    BY <1>1, <1>2, <2>1 DEF NeedsBump
<1> QED
  BY <1>3, <1>4

\* Publications that pass the analysis and share a version ship the same, as far
\* as the analysis looks.
LEMMA PassingShipsTheSame ==
  ASSUME NEW a \in Tree, NEW b \in Tree, Passes(a, b), NEW t \in Tasks,
         a[t].version = b[t].version
  PROVE  \A part \in Shipped \ Unseen : a[t].content[part] = b[t].content[part]
<1>1. Minor(a[t]) \in Nat /\ Minor(a[t]) = Minor(b[t])
  BY DEF Tree, Task, Minor
<1>2. ~Changed(a[t], b[t])
  BY <1>1 DEF Passes, NeedsBump
<1> QED
  BY <1>2 DEF Changed, productionDependenciesChanged, Shipped, Unseen, Parts

\* The merge and the bumps make trees.
LEMMA MergesAreTrees ==
  ASSUME TypeOK
  PROVE  MergeRef \in Tree /\ BumpedTree \in Tree
<1>1. MergeRef \in Tree
  BY DEF TypeOK, MergeRef, Tree, Task
<1>2. ASSUME NEW t \in Tasks PROVE bumpFile(branch[t]) \in Task
  <2>1. PICK content \in Contents, major \in Nat, minor \in Nat :
          branch[t] = [content |-> content, version |-> <<major, minor>>]
    BY DEF TypeOK, Tree, Task
  <2>2. bumpFile(branch[t]) = [content |-> content, version |-> <<major, minor + 1>>]
    BY <2>1 DEF bumpFile
  <2>3. <<major, minor + 1>> \in Nat \X Nat
    OBVIOUS
  <2> QED
    BY <2>2, <2>3 DEF Task
<1>3. BumpedTree \in Tree
  BY <1>2 DEF TypeOK, BumpedTree, Tree
<1> QED
  BY <1>1, <1>3

\* The merge of a branch that is up to date is that branch.
LEMMA UpToDateMergesToBranch ==
  ASSUME TypeOK, BranchOnlyBumps, base = main
  PROVE  MergeRef = branch
<1>1. ASSUME NEW t \in Tasks PROVE MergeRef[t] = branch[t]
  <2>1. /\ main[t] \in Task /\ branch[t] \in Task
        /\ branch[t].content = main[t].content
    BY DEF TypeOK, Tree, BranchOnlyBumps
  <2> QED
    BY <2>1 DEF MergeRef, Bumped, Task
<1> QED
  BY <1>1 DEF MergeRef, TypeOK, Tree

\* A merge never takes a version back.
LEMMA MergeNotBelow ==
  ASSUME TypeOK, BranchOnlyBumps, Mergeable, NEW t \in Tasks
  PROVE  NotBelow(MergeRef[t].version, main[t].version)
<1>1. main[t].version \in Nat \X Nat /\ main[t] \in Task
  BY DEF TypeOK, Tree, Task
<1>2. CASE Bumped(t)
  <2>1. MergeRef[t].version = branch[t].version
    BY <1>1, <1>2 DEF MergeRef, Task
  <2>2. main[t].version \in {base[t].version, branch[t].version}
    BY <1>2 DEF Mergeable
  <2> QED
    BY <1>1, <2>1, <2>2 DEF BranchOnlyBumps, NotBelow
<1>3. CASE ~Bumped(t)
  BY <1>1, <1>3 DEF MergeRef, NotBelow
<1> QED
  BY <1>2, <1>3

-----------------------------------------------------------------------------
\* The steps.

\* Every step keeps the types.
LEMMA NextTypeOK ==
  ASSUME TypeOK, [Next]_vars
  PROVE  TypeOK'
<1>1. ASSUME NEW t \in Tasks, NEW content \in Contents,
             NEW version \in Versions \cup {main[t].version},
             FeatureMerge(t, content, version)
      PROVE  TypeOK'
  <2>1. [content |-> content, version |-> version] \in Task
    BY ReleaseAssumption DEF TypeOK, Tree, Task
  <2> QED
    BY <1>1, <2>1 DEF FeatureMerge, TypeOK, Tree
<1>2. CASE ReleasePlease
  BY <1>2 DEF ReleasePlease, TypeOK
<1>3. CASE AutoBump
  BY <1>3, MergesAreTrees DEF AutoBump, TypeOK
<1>4. CASE Gate
  BY <1>4 DEF Gate, TypeOK
<1>5. CASE MergeRelease
  <2>1. MergeRef \in Tree /\ tags' = Append(tags, MergeRef) /\ tags \in Seq(Tree)
    BY <1>5, MergesAreTrees DEF MergeRelease, TypeOK
  <2>2. tags' \in Seq(Tree) /\ Len(tags') = Len(tags) + 1 /\ Len(tags) \in Nat
    BY <2>1
  <2>3. unchecked' \in BOOLEAN
    BY <1>5 DEF MergeRelease, TypeOK, UpToDate
  <2>4. /\ cleared' \subseteq 1 .. Len(tags')
        /\ timely' \subseteq cleared' /\ published' \subseteq cleared'
    BY <1>5, <2>2 DEF MergeRelease, TypeOK
  <2>5. main' \in Tree /\ base' \in Tree /\ branch' \in Tree /\ commits' \in Nat
    BY <1>5, <2>1 DEF MergeRelease, TypeOK
  <2>6. open' \in BOOLEAN /\ behind' \in BOOLEAN /\ gate' \in {"none", "green", "red"}
    BY <1>5 DEF MergeRelease
  <2>7. Len(tags') >= 1
    BY <2>2 DEF TypeOK
  <2> QED
    BY <2>2, <2>3, <2>4, <2>5, <2>6, <2>7 DEF TypeOK
<1>6. ASSUME NEW k \in 1 .. Len(tags), Guard(k) \/ Publish(k)
      PROVE  TypeOK'
  BY <1>6 DEF Guard, Publish, TypeOK, pullRequest
<1>7. CASE UNCHANGED vars
  BY <1>7 DEF vars, pullRequest, TypeOK
<1> QED
  BY <1>1, <1>2, <1>3, <1>4, <1>5, <1>6, <1>7 DEF Next

\* Every step keeps the branch a list of bumps.
LEMMA NextBranchOnlyBumps ==
  ASSUME TypeOK, BranchOnlyBumps, [Next]_vars
  PROVE  BranchOnlyBumps'
<1>1. ASSUME NEW tree \in Tree, NEW t \in Tasks
      PROVE  NotBelow(tree[t].version, tree[t].version)
  BY DEF Tree, Task, NotBelow
<1>2. CASE ReleasePlease
  BY <1>1, <1>2 DEF ReleasePlease, BranchOnlyBumps, TypeOK
<1>3. CASE MergeRelease
  BY <1>1, <1>3, MergesAreTrees DEF MergeRelease, BranchOnlyBumps
<1>4. CASE AutoBump
  <2> SUFFICES ASSUME NEW t \in Tasks
               PROVE  /\ BumpedTree[t].content = base[t].content
                      /\ NotBelow(BumpedTree[t].version, base[t].version)
    BY <1>4 DEF AutoBump, BranchOnlyBumps
  <2>1. /\ branch[t] \in Task /\ branch[t].content = base[t].content
        /\ branch[t].version \in Nat \X Nat /\ base[t].version \in Nat \X Nat
        /\ NotBelow(branch[t].version, base[t].version)
    BY DEF TypeOK, Tree, Task, BranchOnlyBumps
  <2>2. /\ bumpFile(branch[t]).content = branch[t].content
        /\ bumpFile(branch[t]).version
             = <<branch[t].version[1], branch[t].version[2] + 1>>
    BY <2>1 DEF bumpFile, Task
  <2>3. NotBelow(bumpFile(branch[t]).version, base[t].version)
    BY <2>1, <2>2 DEF NotBelow
  <2> QED
    BY <2>1, <2>2, <2>3 DEF BumpedTree
<1>5. CASE UNCHANGED <<base, branch>>
  BY <1>5 DEF BranchOnlyBumps
<1> QED
  BY <1>2, <1>3, <1>4, <1>5 DEF Next, FeatureMerge, Gate, Guard, Publish, vars,
                                pullRequest

\* Every step keeps an up-to-date verdict about the branch.
LEMMA NextGateIsAboutBranch ==
  ASSUME TypeOK, BranchOnlyBumps, GateIsAboutBranch, [Next]_vars
  PROVE  GateIsAboutBranch'
<1> USE DEF GateIsAboutBranch, UpToDate
<1>1. ASSUME NEW t \in Tasks, NEW content \in Contents,
             NEW version \in Versions \cup {main[t].version},
             FeatureMerge(t, content, version)
      PROVE  GateIsAboutBranch'
  BY <1>1 DEF FeatureMerge
<1>2. CASE ReleasePlease \/ MergeRelease
  BY <1>2 DEF ReleasePlease, MergeRelease
<1>3. CASE AutoBump
  BY <1>3 DEF AutoBump
<1>4. CASE Gate
  <2>1. ~behind => MergeRef = branch
    BY <1>4, UpToDateMergesToBranch DEF Gate
  <2>2. gate' = "green" => Passes(Newest, MergeRef)
    BY <1>4 DEF Gate
  <2>3. UNCHANGED <<main, base, branch, behind, open, tags>>
    BY <1>4 DEF Gate
  <2> QED
    BY <2>1, <2>2, <2>3 DEF Newest, Passes
<1>5. ASSUME NEW k \in 1 .. Len(tags), Guard(k) \/ Publish(k)
      PROVE  GateIsAboutBranch'
  BY <1>5 DEF Guard, Publish, pullRequest, Newest, Passes
<1>6. CASE UNCHANGED vars
  BY <1>6 DEF vars, pullRequest, Newest, Passes
<1> QED
  BY <1>1, <1>2, <1>3, <1>4, <1>5, <1>6 DEF Next

\* A release that is what the check judged is fresh against every tag before it;
\* of any other, nothing is said until the guard has let it through.
LEMMA MergeReleaseIsFresh ==
  ASSUME TypeOK, BranchOnlyBumps, GateIsAboutBranch, TagsAreFresh, MergeRelease
  PROVE  TagsAreFresh'
<1> SUFFICES ASSUME NEW i \in 1 .. Len(tags'), NEW j \in 1 .. Len(tags'), i < j,
                    unchecked' => (i + 1) .. j \subseteq timely'
             PROVE  Passes(tags'[i], tags'[j])
  BY DEF TagsAreFresh, Passes
<1>1. /\ tags' = Append(tags, MergeRef) /\ tags \in Seq(Tree) /\ timely' = timely
      /\ MergeRef \in Tree /\ Len(tags) \in Nat /\ Len(tags) >= 1
      /\ timely \subseteq 1 .. Len(tags)
      /\ unchecked' = (unchecked \/ ~UpToDate)
  BY MergesAreTrees DEF MergeRelease, TypeOK
<1>2. /\ Len(tags') = Len(tags) + 1 /\ tags'[Len(tags) + 1] = MergeRef
      /\ \A k \in 1 .. Len(tags) : tags'[k] = tags[k] /\ tags[k] \in Tree
  BY <1>1
<1>3. CASE j \in 1 .. Len(tags)
  <2>1. i \in 1 .. Len(tags)
    BY <1>1, <1>2, <1>3
  <2>2. unchecked => unchecked'
    BY <1>1, Zenon
  <2>3. unchecked => (i + 1) .. j \subseteq timely
    BY <1>1, <2>2, Zenon
  <2> QED
    BY <1>2, <1>3, <2>1, <2>3 DEF TagsAreFresh
<1>4. CASE j = Len(tags) + 1
  <2>1. i \in 1 .. Len(tags)
    BY <1>1, <1>2, <1>4
  <2>2. j \in (i + 1) .. j /\ j \notin timely
    BY <1>1, <1>4, <2>1
  <2>3. UpToDate /\ ~unchecked /\ open
    BY <1>1, <2>2 DEF MergeRelease
  <2>4. MergeRef = branch /\ Passes(Newest, branch)
    BY <2>3, UpToDateMergesToBranch DEF GateIsAboutBranch, UpToDate
  <2>5. CASE i = Len(tags)
    BY <1>2, <1>4, <2>1, <2>4, <2>5 DEF Newest
  <2>6. CASE i < Len(tags)
    <3>1. Len(tags) \in 1 .. Len(tags)
      BY <1>1
    <3>2. Passes(tags[i], Newest) /\ tags[i] \in Tree /\ Newest \in Tree
      BY <1>2, <2>1, <2>3, <2>6, <3>1 DEF TagsAreFresh, Newest
    <3> QED
      BY <1>1, <1>2, <1>4, <2>1, <2>4, <3>2, PassesTransitive
  <2> QED
    BY <1>1, <2>1, <2>5, <2>6
<1> QED
  BY <1>1, <1>2, <1>3, <1>4

\* A tag that the guard lets through while it is the newest is fresh against its
\* neighbour, and so against every tag from which on the guard was in time.
LEMMA GuardKeepsFresh ==
  ASSUME TypeOK, TagsAreFresh, NEW k \in 1 .. Len(tags), Guard(k)
  PROVE  TagsAreFresh'
<1>1. /\ tags' = tags /\ unchecked' = unchecked /\ Len(tags) \in Nat
      /\ timely' = IF k = Len(tags) THEN timely \cup {k} ELSE timely
      /\ Passes(tags[resolvePrevRef(k)], tags[k])
  BY DEF Guard, TypeOK
<1>2. ASSUME NEW n \in 1 .. Len(tags) PROVE tags[n] \in Tree
  BY DEF TypeOK
<1> SUFFICES ASSUME NEW i \in 1 .. Len(tags), NEW j \in 1 .. Len(tags), i < j,
                    unchecked => (i + 1) .. j \subseteq timely'
             PROVE  Passes(tags[i], tags[j])
  BY <1>1 DEF TagsAreFresh, Passes
<1>3. CASE unchecked => (i + 1) .. j \subseteq timely
  BY <1>3 DEF TagsAreFresh
<1>4. CASE unchecked /\ k = Len(tags) /\ j = k
  <2>1. Passes(tags[k - 1], tags[k])
    BY <1>1, <1>4 DEF resolvePrevRef
  <2>2. CASE i = k - 1
    BY <1>4, <2>1, <2>2
  <2>3. CASE i < k - 1
    <3>1. k - 1 \in 1 .. Len(tags) /\ (i + 1) .. (k - 1) \subseteq timely
      BY <1>1, <1>4, <2>3
    <3>2. Passes(tags[i], tags[k - 1])
      BY <2>3, <3>1 DEF TagsAreFresh
    <3> QED
      BY <1>2, <1>4, <2>1, <3>1, <3>2, PassesTransitive
  <2> QED
    BY <1>1, <1>4, <2>2, <2>3
<1>5. (unchecked => (i + 1) .. j \subseteq timely) \/ (unchecked /\ k = Len(tags) /\ j = k)
  <2>1. ASSUME k = Len(tags), j # k PROVE k \notin (i + 1) .. j
    BY <1>1, <2>1
  <2> QED
    BY <1>1, <2>1
<1> QED
  BY <1>3, <1>4, <1>5

\* Versions are ordered.
LEMMA NotBelowOrders ==
  ASSUME NEW u \in Nat \X Nat, NEW v \in Nat \X Nat, NEW w \in Nat \X Nat
  PROVE  /\ NotBelow(u, u)
         /\ NotBelow(u, v) /\ NotBelow(v, w) => NotBelow(u, w)
BY DEF NotBelow

\* The newest release is a tree.
LEMMA NewestIsTree == ASSUME TypeOK PROVE Newest \in Tree
<1>1. tags \in Seq(Tree) /\ Len(tags) \in 1 .. Len(tags)
  BY DEF TypeOK
<1> QED
  BY <1>1 DEF Newest

\* No step leaves main or the branch's base below the newest release.
LEMMA NextNewestIsNotAhead ==
  ASSUME TypeOK, NewestIsNotAhead, [Next]_vars
  PROVE  NewestIsNotAhead'
<1>1. ASSUME NEW tree \in Tree, NEW t \in Tasks PROVE tree[t].version \in Nat \X Nat
  BY <1>1 DEF Tree, Task
<1>2. Newest \in Tree /\ main \in Tree /\ base \in Tree
  BY NewestIsTree DEF TypeOK
<1>3. ASSUME NEW u \in Tasks, NEW content \in Contents,
             NEW version \in Versions \cup {main[u].version},
             FeatureMerge(u, content, version)
      PROVE  NewestIsNotAhead'
  <2>1. /\ main' = [main EXCEPT ![u] = [content |-> content, version |-> version]]
        /\ base' = base /\ Newest' = Newest
        /\ NotBelow(version, main[u].version)
    BY <1>3 DEF FeatureMerge, Newest
  <2>2. version \in Nat \X Nat
    BY <1>1, <1>2, ReleaseAssumption
  <2> SUFFICES ASSUME NEW t \in Tasks PROVE NotBelow(main'[t].version, Newest[t].version)
    BY <2>1 DEF NewestIsNotAhead
  <2>3. CASE t = u
    <3>1. main'[t].version = version
      BY <1>2, <2>1, <2>3 DEF Tree
    <3> QED
      BY <1>1, <1>2, <2>1, <2>2, <2>3, <3>1, NotBelowOrders DEF NewestIsNotAhead
  <2>4. CASE t # u
    <3>1. main'[t] = main[t]
      BY <1>2, <2>1, <2>4 DEF Tree
    <3> QED
      BY <3>1 DEF NewestIsNotAhead
  <2> QED
    BY <2>3, <2>4
<1>4. CASE ReleasePlease
  BY <1>4 DEF ReleasePlease, NewestIsNotAhead, Newest
<1>5. CASE MergeRelease
  <2>1. main' = MergeRef /\ base' = MergeRef /\ tags' = Append(tags, MergeRef)
    BY <1>5 DEF MergeRelease
  <2>2. MergeRef \in Tree /\ Newest' = MergeRef
    BY <2>1, MergesAreTrees DEF TypeOK, Newest
  <2> QED
    BY <1>1, <2>1, <2>2, NotBelowOrders DEF NewestIsNotAhead
<1>6. CASE UNCHANGED <<main, base, tags>>
  BY <1>6 DEF NewestIsNotAhead, Newest
<1> QED
  BY <1>3, <1>4, <1>5, <1>6 DEF Next, AutoBump, Gate, Guard, Publish, vars, pullRequest

\* The invariant holds throughout.
THEOREM ReleaseIsInvariant == Spec => []ReleaseInvariant
<1>1. Init => ReleaseInvariant
  <2> SUFFICES ASSUME Init PROVE ReleaseInvariant
    OBVIOUS
  <2>1. main \in Tree
    BY ReleaseAssumption DEF Init, Tree, Task
  <2>2. TypeOK
    <3>1. tags = <<main>> /\ tags \in Seq(Tree) /\ Len(tags) = 1
      BY <2>1 DEF Init
    <3>2. cleared = 1 .. Len(tags) /\ timely = cleared /\ published = cleared
      BY <3>1 DEF Init
    <3>3. /\ cleared \subseteq 1 .. Len(tags)
          /\ timely \subseteq cleared /\ published \subseteq cleared
      BY <3>2
    <3>4. main \in Tree /\ base \in Tree /\ branch \in Tree
      BY <2>1 DEF Init
    <3>5. /\ commits \in Nat /\ gate \in {"none", "green", "red"}
          /\ open \in BOOLEAN /\ behind \in BOOLEAN /\ unchecked \in BOOLEAN
      BY DEF Init
    <3> QED
      BY <3>1, <3>3, <3>4, <3>5 DEF TypeOK
  <2>3. BranchOnlyBumps
    BY <2>1 DEF Init, BranchOnlyBumps, Tree, Task, NotBelow
  <2>4. NewestIsNotAhead
    <3>1. Newest = main /\ base = main
      BY DEF Init, Newest
    <3>2. \A t \in Tasks : main[t].version \in Nat \X Nat
      BY <2>1 DEF Tree, Task
    <3> QED
      BY <3>1, <3>2, NotBelowOrders DEF NewestIsNotAhead
  <2> QED
    BY <2>2, <2>3, <2>4 DEF Init, ReleaseInvariant, GateIsAboutBranch, TagsAreFresh,
                            UpToDate
<1>2. ReleaseInvariant /\ [Next]_vars => ReleaseInvariant'
  <2> SUFFICES ASSUME ReleaseInvariant, [Next]_vars PROVE ReleaseInvariant'
    OBVIOUS
  <2>1. TypeOK' /\ BranchOnlyBumps' /\ GateIsAboutBranch' /\ NewestIsNotAhead'
    BY NextTypeOK, NextBranchOnlyBumps, NextGateIsAboutBranch, NextNewestIsNotAhead
       DEF ReleaseInvariant
  <2>2. TagsAreFresh'
    <3>1. CASE MergeRelease
      BY <3>1, MergeReleaseIsFresh DEF ReleaseInvariant
    <3>2. ASSUME NEW k \in 1 .. Len(tags), Guard(k) PROVE TagsAreFresh'
      BY <3>2, GuardKeepsFresh DEF ReleaseInvariant
    <3>3. CASE UNCHANGED <<tags, unchecked, timely>>
      BY <3>3 DEF ReleaseInvariant, TagsAreFresh, Passes
    <3> QED
      BY <3>1, <3>2, <3>3 DEF Next, FeatureMerge, ReleasePlease, AutoBump, Gate,
                              Publish, vars
  <2> QED
    BY <2>1, <2>2 DEF ReleaseInvariant
<1> QED
  BY <1>1, <1>2, PTL DEF Spec

-----------------------------------------------------------------------------
\* The properties.

\* The types.
THEOREM TypeCorrect == Spec => []TypeOK
<1>1. ReleaseInvariant => TypeOK
  BY DEF ReleaseInvariant
<1> QED
  BY <1>1, ReleaseIsInvariant, PTL

\* An agent that runs the published version of a task runs its published code, as
\* far as the analysis looks: as long as every release is what the required check
\* judged, and, whatever was merged past the check or after main had moved,
\* between releases that the guard let through in time (#192, #264, #676).
THEOREM NoStaleCodeHolds == Spec => []NoStaleCode
<1>1. ReleaseInvariant => NoStaleCode
  <2> SUFFICES ASSUME ReleaseInvariant, NEW i \in published, NEW j \in published,
                      i < j, unchecked => (i + 1) .. j \subseteq timely,
                      NEW t \in Tasks, tags[i][t].version = tags[j][t].version
               PROVE  \A part \in Shipped \ Unseen :
                        tags[i][t].content[part] = tags[j][t].content[part]
    BY DEF NoStaleCode, Agree
  <2>1. /\ i \in 1 .. Len(tags) /\ j \in 1 .. Len(tags)
        /\ tags[i] \in Tree /\ tags[j] \in Tree
    BY DEF ReleaseInvariant, TypeOK
  <2>2. Passes(tags[i], tags[j])
    BY <2>1 DEF ReleaseInvariant, TagsAreFresh
  <2> QED
    BY <2>1, <2>2, PassingShipsTheSame
<1> QED
  BY <1>1, ReleaseIsInvariant, PTL

\* No step takes back a version that main has.
THEOREM VersionsNeverGoBackHolds == Spec => VersionsNeverGoBack
<1> DEFINE Forward == \A t \in Tasks : NotBelow(main'[t].version, main[t].version)
<1>1. ReleaseInvariant /\ [Next]_vars => [Forward]_vars
  <2> SUFFICES ASSUME ReleaseInvariant, [Next]_vars, NEW t \in Tasks
               PROVE  NotBelow(main'[t].version, main[t].version)
    OBVIOUS
  <2>1. /\ TypeOK /\ main \in Tree /\ main[t].version \in Nat \X Nat
        /\ main[t] \in Task
    BY DEF ReleaseInvariant, TypeOK, Tree, Task
  <2>2. CASE UNCHANGED main
    BY <2>1, <2>2 DEF NotBelow
  <2>3. CASE MergeRelease
    BY <2>1, <2>3, MergeNotBelow DEF MergeRelease, ReleaseInvariant
  <2>4. ASSUME NEW u \in Tasks, NEW content \in Contents,
               NEW version \in Versions \cup {main[u].version},
               FeatureMerge(u, content, version)
        PROVE  NotBelow(main'[t].version, main[t].version)
    <3>1. main' = [main EXCEPT ![u] = [content |-> content, version |-> version]]
          /\ NotBelow(version, main[u].version)
      BY <2>4 DEF FeatureMerge
    <3>2. CASE t = u
      BY <2>1, <3>1, <3>2 DEF Tree
    <3>3. CASE t # u
      BY <2>1, <3>1, <3>3 DEF Tree, NotBelow
    <3> QED
      BY <3>2, <3>3
  <2> QED
    BY <2>2, <2>3, <2>4 DEF Next, ReleasePlease, AutoBump, Gate, Guard, Publish, vars
<1> QED
  BY <1>1, ReleaseIsInvariant, PTL DEF Spec, VersionsNeverGoBack

\* One run of the bumps satisfies the analysis, where no Major moved.
LEMMA BumpSatisfies ==
  ASSUME ReleaseInvariant, AutoBump, NEW t \in Tasks,
         branch[t].version[1] = Newest[t].version[1]
  PROVE  ~NeedsBump(Newest[t], branch'[t])
<1>1. branch'[t] = IF NeedsBump(Newest[t], branch[t]) THEN bumpFile(branch[t]) ELSE branch[t]
  BY DEF AutoBump, BumpedTree
<1>2. /\ branch[t] \in Task /\ branch[t].version \in Nat \X Nat
      /\ base[t].version \in Nat \X Nat /\ Newest[t].version \in Nat \X Nat
  BY NewestIsTree DEF ReleaseInvariant, TypeOK, Tree, Task
<1>3. NotBelow(branch[t].version, Newest[t].version)
  BY <1>2, NotBelowOrders DEF ReleaseInvariant, BranchOnlyBumps, NewestIsNotAhead
<1>4. Minor(branch[t]) >= Minor(Newest[t])
  BY <1>2, <1>3 DEF NotBelow, Minor
<1>5. Minor(bumpFile(branch[t])) = Minor(branch[t]) + 1
  BY <1>2 DEF bumpFile, Minor, Task
<1>6. Minor(branch[t]) \in Nat /\ Minor(Newest[t]) \in Nat
  BY <1>2 DEF Minor
<1>7. ~(Minor(bumpFile(branch[t])) <= Minor(Newest[t]))
  BY <1>4, <1>5, <1>6
<1> QED
  BY <1>1, <1>7 DEF NeedsBump

\* A second run makes no further change, whatever was merged and released before
\* the first, unless an author's new Major restarted the Minor.
THEOREM OneBumpIsEnoughHolds == Spec => OneBumpIsEnough
<1> DEFINE Once == AutoBump /\ (\A t \in Tasks : branch[t].version[1] = Newest[t].version[1])
                     => Passes(Newest, branch')
<1>1. ReleaseInvariant /\ [Next]_vars => [Once]_vars
  BY BumpSatisfies DEF Passes
<1> QED
  BY <1>1, ReleaseIsInvariant, PTL DEF Spec, OneBumpIsEnough

=============================================================================
