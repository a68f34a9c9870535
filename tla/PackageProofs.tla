---------------------------- MODULE PackageProofs ----------------------------
(***************************************************************************)
(* For every universe of paths, rule set, reviewed tree, manifest, leftover *)
(* and override: what ./build and a .vsix may hold, and why a composition  *)
(* refuses.  One inductive invariant follows ./build: whatever it holds, at *)
(* any step, was vetted, and while a composition runs or has succeeded it  *)
(* is made of that composition's tree.  The other follows the composition: *)
(* what it has taken so far, and what each refusal so far was about.       *)
(***************************************************************************)
EXTENDS Package, SequenceTheorems, TLAPS

Assets == {<<a>> : a \in ROOT_ASSETS}
Clean(p) == Last(p) \notin NeverNames /\ ~DevOnly(p)

Vetted == \A p \in build : Clean(p)
OfThisTree == phase \in Working \cup {"composed"} => \A p \in build : Composable(p)
VsixIsDone == vsix # NoVsix => phase \in {"composed", "killed"}

Inv == TypeOK /\ Vetted /\ OfThisTree /\ VsixIsDone /\ NothingUnvettedShips

-----------------------------------------------------------------------------
\* A path that classify ships is neither dev-only nor a secret's.
LEMMA ShippedIsClean == ASSUME NEW p, classify(p) = "ship" PROVE Clean(p)
BY DEF classify, Clean, DevOnly

\* The root assets are clean by their names.
LEMMA AssetIsClean == ASSUME NEW p \in Assets PROVE Clean(p) /\ Composable(p) /\ p \in Paths
<1>1. PICK a \in ROOT_ASSETS : p = <<a>>
  BY DEF Assets
<1>2. Len(p) = 1 /\ p[1] = a /\ DOMAIN p = {1}
  BY <1>1
<1>3. a \notin DropNames /\ a \notin NeverNames
  BY PackageAssumption
<1>4. Last(p) = a
  BY <1>2 DEF Last
<1>5. ~DevOnly(p)
  BY <1>2, <1>3 DEF DevOnly
<1>6. Clean(p)
  BY <1>3, <1>4, <1>5 DEF Clean
<1>7. p \in Paths
  BY <1>1, PackageAssumption
<1>8. Composable(p)
  BY DEF Composable, Assets
<1> QED BY <1>6, <1>7, <1>8

\* A path beneath a root directory begins with its name.
LEMMA BeneathRootDir ==
  ASSUME NEW p \in Paths, NEW d, Within(p, <<d>>) PROVE p[1] = d
<1>1. p \in Seq(STRING) /\ Len(p) > 0
  BY PackageAssumption
<1>2. Len(<<d>>) = 1 /\ <<d>>[1] = d
  OBVIOUS
<1>3. SubSeq(p, 1, 1) = <<d>>
  BY <1>2 DEF Within
<1>4. SubSeq(p, 1, 1)[1] = p[1]
  BY <1>1
<1> QED BY <1>2, <1>3, <1>4

\* CopyTree adds regular files that ship, met under one of its directories.
LEMMA CopyTreeAdds ==
  ASSUME TypeOK, NEW dirs, CopyTree(dirs)
  PROVE /\ build' \subseteq Paths /\ refused' \in BOOLEAN /\ bundles' \in BOOLEAN
        /\ \A p \in build' \ build :
              /\ p \in Paths /\ tree[p] = "file" /\ classify(p) = "ship"
              /\ \E dir \in dirs : Within(p, dir)
<1>1. build' = build \cup {p \in {q \in Walked(tree, dirs) : tree[q] = "file"} : classify(p) = "ship"}
  BY DEF CopyTree
<1>2. \A p \in Walked(tree, dirs) : p \in Paths /\ \E dir \in dirs : Within(p, dir)
  BY DEF Walked, Present, Walks
<1>3. refused' \in BOOLEAN /\ bundles' \in BOOLEAN
  BY DEF CopyTree, TypeOK
<1>4. build \subseteq Paths
  BY DEF TypeOK
<1> QED BY <1>1, <1>2, <1>3, <1>4

-----------------------------------------------------------------------------
\* Lemmas about paths, the rules and the walks.

\* To lie beneath a directory is to begin with its names.
LEMMA WithinIff ==
  ASSUME NEW p \in Seq(STRING), NEW d \in Seq(STRING)
  PROVE  Within(p, d) <=> Len(d) <= Len(p) /\ \A i \in 1 .. Len(d) : p[i] = d[i]
<1>1. Len(p) \in Nat /\ Len(d) \in Nat
  OBVIOUS
<1>2. ASSUME Len(d) <= Len(p) PROVE SubSeq(p, 1, Len(d)) = d <=> \A i \in 1 .. Len(d) : p[i] = d[i]
  <2>1. \A i \in 1 .. Len(d) : p[i] \in STRING
    BY <1>1, <1>2
  <2>2. /\ SubSeq(p, 1, Len(d)) \in Seq(STRING)
        /\ Len(SubSeq(p, 1, Len(d))) = IF 1 <= Len(d) THEN Len(d) - 1 + 1 ELSE 0
        /\ \A i \in 1 .. Len(d) - 1 + 1 : SubSeq(p, 1, Len(d))[i] = p[1 + i - 1]
    BY <1>1, <2>1, SubSeqProperties
  <2>3. Len(SubSeq(p, 1, Len(d))) = Len(d)
    BY <1>1, <2>2
  <2>4. \A i \in 1 .. Len(d) : SubSeq(p, 1, Len(d))[i] = p[i]
    BY <1>1, <2>2
  <2>5. SubSeq(p, 1, Len(d)) = d <=> \A i \in 1 .. Len(d) : SubSeq(p, 1, Len(d))[i] = d[i]
    BY <2>2, <2>3, SeqEqual
  <2> QED BY <2>4, <2>5
<1> QED BY <1>2 DEF Within

LEMMA WithinItself == ASSUME NEW p \in Seq(STRING) PROVE Within(p, p)
<1>1. Len(p) \in Nat
  OBVIOUS
<1> QED BY <1>1, WithinIff

LEMMA WithinTransitive ==
  ASSUME NEW p \in Seq(STRING), NEW d \in Seq(STRING), NEW e \in Seq(STRING),
         Within(p, d), Within(d, e)
  PROVE  Within(p, e)
<1>1. Len(d) <= Len(p) /\ \A i \in 1 .. Len(d) : p[i] = d[i]
  BY WithinIff
<1>2. Len(e) <= Len(d) /\ \A i \in 1 .. Len(e) : d[i] = e[i]
  BY WithinIff
<1>3. Len(e) <= Len(p) /\ \A i \in 1 .. Len(e) : p[i] = e[i]
  BY <1>1, <1>2
<1> QED BY <1>3, WithinIff

\* What lies beneath a path that is named begins as it does.
LEMMA WithinFirst ==
  ASSUME NEW p \in Seq(STRING), NEW d \in Seq(STRING), d # <<>>, Within(p, d)
  PROVE  p[1] = d[1]
<1>1. Len(d) \in Nat /\ Len(d) > 0
  BY EmptySeq
<1> QED BY <1>1, WithinIff

\* And conversely, for a directory at the root.
LEMMA FirstName ==
  ASSUME NEW S, NEW p \in Seq(S), Len(p) > 0
  PROVE  SubSeq(p, 1, 1) = <<p[1]>> /\ Len(<<p[1]>>) <= Len(p) /\ Len(<<p[1]>>) = 1
<1>1. Len(p) \in Nat /\ \A i \in 1 .. 1 : p[i] \in S
  BY ElementOfSeq
<1>2. /\ Len(SubSeq(p, 1, 1)) = IF 1 <= 1 THEN 1 - 1 + 1 ELSE 0
      /\ SubSeq(p, 1, 1) \in Seq(S)
      /\ \A i \in 1 .. 1 - 1 + 1 : SubSeq(p, 1, 1)[i] = p[1 + i - 1]
  BY <1>1, SubSeqProperties
<1>3. Len(SubSeq(p, 1, 1)) = 1 /\ SubSeq(p, 1, 1)[1] = p[1]
  BY <1>2
<1>4. <<p[1]>> \in Seq(S) /\ Len(<<p[1]>>) = 1 /\ <<p[1]>>[1] = p[1]
  BY <1>1
<1>5. SubSeq(p, 1, 1) = <<p[1]>>
  <2>1. \A i \in 1 .. Len(SubSeq(p, 1, 1)) : SubSeq(p, 1, 1)[i] = <<p[1]>>[i]
    BY <1>3, <1>4
  <2>2. Len(SubSeq(p, 1, 1)) = Len(<<p[1]>>)
    BY <1>3, <1>4
  <2>3. SubSeq(p, 1, 1) \in Seq(S) /\ <<p[1]>> \in Seq(S)
    BY <1>2, <1>4
  <2> QED BY <2>1, <2>2, <2>3, SeqEqual
<1> QED BY <1>1, <1>4, <1>5

LEMMA BeginsWith ==
  ASSUME NEW p \in Seq(STRING), NEW d, Len(p) > 0, p[1] = d PROVE Within(p, <<d>>)
BY FirstName DEF Within

\* A root asset is a file's name: nothing else lies beneath it.
LEMMA AssetAlone ==
  ASSUME NEW a \in ROOT_ASSETS, NEW p \in Paths, Within(p, <<a>>) PROVE p = <<a>>
BY PackageAssumption

\* The verdicts, and what the first of them means.
LEMMA Verdicts ==
  ASSUME NEW p
  PROVE  /\ classify(p) \in {"drop", "ship", "never-ship", "unknown"}
         /\ classify(p) = "drop" <=> \E i \in DOMAIN p : p[i] \in DropNames
BY DEF classify

\* A walk enters every directory of a path that is not dev-only.
LEMMA WalksToKept ==
  ASSUME NEW p \in Paths, NEW d \in Seq(STRING), Within(p, d), classify(p) # "drop"
  PROVE  Walks(d, p)
<1>1. p \in Seq(STRING)
  BY PackageAssumption
<1>2. \A i \in 1 .. Len(p) : p[i] \notin DropNames
  BY <1>1, Verdicts
<1>3. Len(d) \in Nat /\ Len(p) \in Nat
  BY <1>1
<1> QED BY <1>2, <1>3 DEF Walks

\* Four names are three and a last one.
LEMMA FourNames ==
  ASSUME NEW S, NEW q \in Seq(S), Len(q) = 4
  PROVE  /\ SubSeq(q, 1, 3) \in Seq(S) /\ Len(SubSeq(q, 1, 3)) = 3
         /\ \A i \in 1 .. 3 : SubSeq(q, 1, 3)[i] = q[i]
         /\ SubSeq(q, 1, 3) \o <<q[4]>> = q
<1>1. \A i \in 1 .. 3 : q[i] \in S
  BY ElementOfSeq
<1>2. /\ SubSeq(q, 1, 3) \in Seq(S)
      /\ Len(SubSeq(q, 1, 3)) = IF 1 <= 3 THEN 3 - 1 + 1 ELSE 0
      /\ \A i \in 1 .. 3 - 1 + 1 : SubSeq(q, 1, 3)[i] = q[1 + i - 1]
  BY <1>1, SubSeqProperties
<1>3. SubSeq(q, 1, 4) = q
  BY SubSeqFull
<1>4. SubSeq(q, 1, 4) = SubSeq(q, 1, 4 - 1) \o <<q[4]>>
  <2>1. 1 \in 1 .. Len(q) /\ 4 \in 1 .. Len(q)
    OBVIOUS
  <2> QED BY <2>1, SubSeqRecursiveSecond
<1>5. 4 - 1 = 3
  OBVIOUS
<1> QED BY <1>2, <1>3, <1>4, <1>5

\* A task directory is Tasks/<family>/<task>, and its task.json is there.
LEMMA TaskDirIs ==
  ASSUME NEW t, NEW dir \in discoverTaskDirs(t)
  PROVE  /\ dir \in Seq(STRING) /\ Len(dir) = 3 /\ dir[1] = "Tasks"
         /\ dir \o <<"task.json">> \in Present(t)
         /\ Len(dir \o <<"task.json">>) = 4 /\ Within(dir \o <<"task.json">>, dir)
         /\ \A i \in 1 .. 3 : (dir \o <<"task.json">>)[i] = dir[i]
         /\ (dir \o <<"task.json">>)[4] = "task.json"
<1>1. PICK q \in Present(t) : /\ Len(q) = 4 /\ q[1] = "Tasks" /\ q[4] = "task.json"
                              /\ dir = SubSeq(q, 1, 3)
  BY DEF discoverTaskDirs
<1>2. q \in Seq(STRING) /\ Len(q) = 4
  BY <1>1, PackageAssumption DEF Present
<1>3. /\ dir \in Seq(STRING) /\ Len(dir) = 3
      /\ \A i \in 1 .. 3 : dir[i] = q[i]
      /\ dir \o <<q[4]>> = q
  BY <1>1, <1>2, FourNames
<1>4. Within(q, dir)
  <2>1. Len(dir) <= Len(q) /\ \A i \in 1 .. Len(dir) : q[i] = dir[i]
    BY <1>2, <1>3
  <2> QED BY <1>2, <1>3, <2>1, WithinIff
<1>5. dir \o <<"task.json">> = q
  BY <1>1, <1>3
<1>6. 1 \in 1 .. 3
  OBVIOUS
<1>7. dir[1] = "Tasks"
  BY <1>1, <1>3, <1>6
<1>8. \A i \in 1 .. 3 : (dir \o <<"task.json">>)[i] = dir[i]
  BY <1>3, <1>5
<1> QED BY <1>1, <1>3, <1>4, <1>5, <1>7, <1>8

\* A larger tree has every task directory of a smaller one.
LEMMA TaskDirsGrow ==
  ASSUME NEW t, NEW u, Present(t) \subseteq Present(u)
  PROVE  discoverTaskDirs(t) \subseteq discoverTaskDirs(u)
BY DEF discoverTaskDirs

-----------------------------------------------------------------------------
\* The invariant holds initially.
LEMMA InitInv == Init => Inv
<1> SUFFICES ASSUME Init PROVE Inv
  OBVIOUS
<1>1. tree \in Tree
  BY PackageAssumption DEF Init
<1> QED
  BY <1>1 DEF Init, Inv, TypeOK, Vetted, OfThisTree, VsixIsDone, NothingUnvettedShips, Working

\* A step that leaves the trees, the manifest and the .vsix alone, with no
\* .vsix made yet, keeps what is said of them.
LEMMA NoVsixStays ==
  ASSUME Inv, phase \notin {"composed", "killed"}, UNCHANGED vsix
  PROVE VsixIsDone' /\ NothingUnvettedShips'
<1>1. vsix = NoVsix
  BY DEF Inv, VsixIsDone
<1>2. vsix' = NoVsix
  BY <1>1
<1>3. NoVsix' = NoVsix
  BY DEF NoVsix
<1> QED BY <1>2, <1>3 DEF VsixIsDone, NothingUnvettedShips

\* Every step of a machine's preparation, of the composition and of tfx keeps
\* it.
LEMMA NextInv == Inv /\ [Next]_vars => Inv'
<1> SUFFICES ASSUME Inv, [Next]_vars PROVE Inv'
  OBVIOUS
<1> USE DEF Inv
<1>1. ASSUME NEW extra \in Untracked, Prepare(extra) PROVE Inv'
  <2>1. phase' = "ready" /\ vsix' = NoVsix /\ UNCHANGED <<tracked, manifest, refused, bundles, build>>
    BY <1>1 DEF Prepare
  <2>2. tracked \in Tree
    BY PackageAssumption DEF TypeOK
  <2>3. DOMAIN extra \subseteq Paths /\ \A p \in DOMAIN extra : extra[p] \in Kinds
    BY PackageAssumption
  <2>4. tree' \in Tree
    BY <1>1, <2>2, <2>3 DEF Prepare, Tree
  <2>5. TypeOK'
    BY <2>1, <2>4 DEF TypeOK, Working
  <2>6. Vetted' /\ OfThisTree'
    BY <2>1 DEF Vetted, OfThisTree, Working
  <2>7. VsixIsDone' /\ NothingUnvettedShips'
    BY <2>1 DEF VsixIsDone, NothingUnvettedShips, NoVsix
  <2> QED BY <2>5, <2>6, <2>7
<1>2. CASE Clear
  <2>1. phase = "ready" /\ phase' = "tasks" /\ build' = {} /\ refused' = FALSE /\ bundles' = FALSE
        /\ UNCHANGED <<input, vsix>>
    BY <1>2 DEF Clear
  <2>2. TypeOK' /\ Vetted' /\ OfThisTree'
    BY <2>1 DEF TypeOK, Vetted, OfThisTree, Working, input
  <2> QED BY <2>1, <2>2, NoVsixStays
<1>3. CASE CopyTasks
  <2>1. phase = "tasks" /\ phase' = "strays" /\ UNCHANGED <<input, vsix>>
        /\ CopyTree(discoverTaskDirs(tree))
    BY <1>3 DEF CopyTasks
  <2>2. /\ build' \subseteq Paths /\ refused' \in BOOLEAN /\ bundles' \in BOOLEAN
        /\ \A p \in build' \ build :
              /\ p \in Paths /\ tree[p] = "file" /\ classify(p) = "ship"
              /\ \E dir \in discoverTaskDirs(tree) : Within(p, dir)
    BY <2>1, CopyTreeAdds
  <2>3. \A p \in build : Clean(p) /\ tree[p] = "file" /\ Composable(p)
    BY <2>1 DEF TypeOK, Vetted, OfThisTree, Working
  <2>4. \A p \in build' \ build : Clean(p) /\ Composable(p)
    BY <2>2, ShippedIsClean DEF Composable, InsideTaskDir
  <2>5. \A p \in build' : Clean(p) /\ tree[p] = "file" /\ Composable(p)
    BY <2>2, <2>3, <2>4
  <2>6. tree' = tree /\ \A p : Composable(p)' = Composable(p)
    BY <2>1 DEF input, Composable, InsideTaskDir, discoverTaskDirs, Present
  <2>7. TypeOK'
    BY <2>1, <2>2, <2>5 DEF TypeOK, Working, input
  <2>8. Vetted' /\ OfThisTree'
    BY <2>5, <2>6 DEF Vetted, OfThisTree, Clean, DevOnly
  <2> QED BY <2>1, <2>7, <2>8, NoVsixStays
<1>4. CASE RefuseStrays
  <2>1. phase = "strays" /\ phase' = "root dirs" /\ UNCHANGED <<input, bundles, build, vsix>>
        /\ refused' \in BOOLEAN
    BY <1>4 DEF RefuseStrays, TypeOK
  <2>2. TypeOK'
    BY <2>1 DEF TypeOK, Working, input
  <2>3. Vetted' /\ OfThisTree'
    BY <2>1 DEF Vetted, OfThisTree, Working, input, Clean, DevOnly, Composable, InsideTaskDir,
                discoverTaskDirs, Present
  <2> QED BY <2>1, <2>2, <2>3, NoVsixStays
<1>5. CASE CopyRootDirs
  <2>1. phase = "root dirs" /\ phase' = "root assets" /\ UNCHANGED <<input, vsix>>
        /\ CopyTree({<<d>> : d \in ROOT_DIRS})
    BY <1>5 DEF CopyRootDirs
  <2>2. /\ build' \subseteq Paths /\ refused' \in BOOLEAN /\ bundles' \in BOOLEAN
        /\ \A p \in build' \ build :
              /\ p \in Paths /\ tree[p] = "file" /\ classify(p) = "ship"
              /\ \E dir \in {<<d>> : d \in ROOT_DIRS} : Within(p, dir)
    BY <2>1, CopyTreeAdds
  <2>3. \A p \in build : Clean(p) /\ tree[p] = "file" /\ Composable(p)
    BY <2>1 DEF TypeOK, Vetted, OfThisTree, Working
  <2>4. \A p \in build' \ build : Clean(p) /\ Composable(p)
    <3> SUFFICES ASSUME NEW p \in build' \ build PROVE Clean(p) /\ Composable(p)
      OBVIOUS
    <3>1. PICK d \in ROOT_DIRS : Within(p, <<d>>)
      BY <2>2
    <3>2. p[1] \in ROOT_DIRS
      BY <2>2, <3>1, BeneathRootDir
    <3> QED BY <2>2, <3>2, ShippedIsClean DEF Composable
  <2>5. \A p \in build' : Clean(p) /\ tree[p] = "file" /\ Composable(p)
    BY <2>2, <2>3, <2>4
  <2>6. tree' = tree /\ \A p : Composable(p)' = Composable(p)
    BY <2>1 DEF input, Composable, InsideTaskDir, discoverTaskDirs, Present
  <2>7. TypeOK'
    BY <2>1, <2>2, <2>5 DEF TypeOK, Working, input
  <2>8. Vetted' /\ OfThisTree'
    BY <2>5, <2>6 DEF Vetted, OfThisTree, Clean, DevOnly
  <2> QED BY <2>1, <2>7, <2>8, NoVsixStays
<1>6. CASE CopyRootAssets
  <2>1. phase = "root assets" /\ phase' = "output" /\ UNCHANGED <<input, bundles, vsix>>
        /\ build' = build \cup {p \in Assets : tree[p] = "file"}
        /\ refused' \in BOOLEAN
    BY <1>6 DEF CopyRootAssets, TypeOK, Assets
  <2>2. \A p \in build : Clean(p) /\ tree[p] = "file" /\ Composable(p) /\ p \in Paths
    BY <2>1 DEF TypeOK, Vetted, OfThisTree, Working
  <2>3. \A p \in build' : Clean(p) /\ tree[p] = "file" /\ Composable(p) /\ p \in Paths
    BY <2>1, <2>2, AssetIsClean
  <2>4. tree' = tree /\ \A p : Composable(p)' = Composable(p)
    BY <2>1 DEF input, Composable, InsideTaskDir, discoverTaskDirs, Present
  <2>5. TypeOK'
    BY <2>1, <2>3 DEF TypeOK, Working, input
  <2>6. Vetted' /\ OfThisTree'
    BY <2>3, <2>4 DEF Vetted, OfThisTree, Clean, DevOnly
  <2> QED BY <2>1, <2>5, <2>6, NoVsixStays
<1>7. CASE AssertOutput
  <2>1. phase = "output" /\ UNCHANGED <<input, bundles, vsix>>
        /\ \/ phase' = "composed" /\ UNCHANGED <<refused, build>>
           \/ phase' = "refused" /\ refused' = TRUE /\ build' = {}
    BY <1>7 DEF AssertOutput
  <2>2. TypeOK'
    BY <2>1 DEF TypeOK, Working, input
  <2>3. Vetted' /\ OfThisTree'
    BY <2>1 DEF Vetted, OfThisTree, Working, input, Clean, DevOnly, Composable, InsideTaskDir,
                discoverTaskDirs, Present
  <2> QED BY <2>1, <2>2, <2>3, NoVsixStays
<1>8. CASE Kill
  <2>1. phase \in Working \cup {"ready"} /\ phase' = "killed" /\ build' \subseteq build
        /\ UNCHANGED <<input, refused, bundles, vsix>>
    BY <1>8 DEF Kill
  <2>2. phase \notin {"composed", "killed"}
    BY <2>1 DEF Working
  <2>3. TypeOK' /\ Vetted' /\ OfThisTree'
    BY <2>1 DEF TypeOK, Vetted, OfThisTree, Working, input, Clean, DevOnly
  <2> QED BY <2>1, <2>2, <2>3, NoVsixStays
<1>9. ASSUME NEW o \in Overrides, CreateExtension(o[1], o[2]) PROVE Inv'
  <2>1. phase \in {"composed", "killed"} /\ UNCHANGED <<input, phase, refused, bundles, build>>
        /\ vsix'.files \subseteq build /\ vsix'.whole = (phase = "composed")
    BY <1>9 DEF CreateExtension
  <2>2. TypeOK' /\ Vetted' /\ OfThisTree'
    BY <2>1 DEF TypeOK, Vetted, OfThisTree, Working, input, Clean, DevOnly, Composable, InsideTaskDir,
                discoverTaskDirs, Present
  <2>3. VsixIsDone'
    BY <2>1 DEF VsixIsDone
  <2>4. \A p \in build : Clean(p)
    BY DEF Vetted
  <2>5. phase = "composed" => \A p \in build : tree[p] = "file" /\ Composable(p)
    BY DEF TypeOK, OfThisTree
  <2>6. tree' = tree /\ \A p : Composable(p)' = Composable(p)
    BY <2>1 DEF input, Composable, InsideTaskDir, discoverTaskDirs, Present
  <2>7. NothingUnvettedShips'
    BY <2>1, <2>4, <2>5, <2>6 DEF NothingUnvettedShips, Clean, DevOnly
  <2> QED BY <2>2, <2>3, <2>7
<1>10. CASE UNCHANGED vars
  <2>1. UNCHANGED <<tracked, manifest, tree, phase, refused, bundles, build, vsix>>
    BY <1>10 DEF vars, input
  <2>2. \A p : Composable(p)' = Composable(p)
    BY <2>1 DEF Composable, InsideTaskDir, discoverTaskDirs, Present
  <2> QED
    BY <2>1, <2>2 DEF TypeOK, Vetted, OfThisTree, VsixIsDone, NothingUnvettedShips, Working, Clean,
                      DevOnly, NoVsix
<1> QED
  BY <1>1, <1>2, <1>3, <1>4, <1>5, <1>6, <1>7, <1>8, <1>9, <1>10 DEF Next

\* The inductive invariant holds of every behaviour.
THEOREM CompositionIsVetted == Spec => []Inv
<1>1. Init => Inv
  BY InitInv
<1>2. Inv /\ [Next]_vars => Inv'
  BY NextInv
<1> QED BY <1>1, <1>2, PTL DEF Spec

\* Type correctness, with ./build made of regular files of the tree that it is
\* being composed from, and gone once anything was refused.
THEOREM TypeCorrect == Spec => []TypeOK
<1>1. Inv => TypeOK
  BY DEF Inv
<1> QED BY <1>1, CompositionIsVetted, PTL

\* Nothing that is not vetted reaches a .vsix.
THEOREM NothingUnvettedShipsHolds == Spec => []NothingUnvettedShips
<1>1. Inv => NothingUnvettedShips
  BY DEF Inv
<1> QED BY <1>1, CompositionIsVetted, PTL

-----------------------------------------------------------------------------
\* What a .vsix and a refusal say of a tree that passed review: the invariant
\* that follows the composition of it.  OnlyAdds is a hypothesis of what follows.

RootDirs == {<<d>> : d \in ROOT_DIRS}

\* All that a walk of dirs comes upon in t is a file; it is dev-only, or in b.
Taken(t, b, dirs) ==
  \A p \in Walked(t, dirs) :
    t[p] = "file" /\ (classify(p) = "drop" \/ (classify(p) = "ship" /\ p \in b))

\* The machine has all of the tracked tree, and its root assets unchanged.
TreeGrows ==
  /\ Present(tracked) \subseteq Present(tree)
  /\ \A a \in ROOT_ASSETS : tree[<<a>>] = tracked[<<a>>]

BundlesKnown ==
  phase \in Working \cup {"composed"} => \A p \in build : InNodeModules(p) => bundles

\* What has been composed without a refusal is complete.
TasksTaken ==
  ~refused /\ phase \in {"strays", "root dirs", "root assets", "output", "composed"} =>
    Taken(tree, build, discoverTaskDirs(tree))
RootDirsTaken ==
  ~refused /\ phase \in {"root assets", "output", "composed"} => Taken(tree, build, RootDirs)
RootAssetsTaken ==
  ~refused /\ phase \in {"output", "composed"} =>
    /\ \A a \in ROOT_ASSETS : tree[<<a>>] = "absent" \/ <<a>> \in build
    /\ bundles => <<Notices>> \in build

ComposedIsWhole == phase = "composed" => ~refused /\ OutputOK

Explained ==
  \/ Leftover
  \/ bundles /\ tree[<<Notices>>] = "absent"
  \/ Unforeseen

RefusalsExplained ==
  phase \in Working \cup {"refused"} /\ refused /\ Check(tracked, manifest) => Explained

RefusedIsRefused == phase = "refused" => refused

ReviewInv ==
  /\ TreeGrows /\ BundlesKnown
  /\ TasksTaken /\ RootDirsTaken /\ RootAssetsTaken
  /\ ComposedIsWhole /\ RefusalsExplained /\ RefusedIsRefused
  /\ VsixKeepsItsPromises

-----------------------------------------------------------------------------
\* What a copy of some directories does.

LEMMA CopyTreeTakes ==
  ASSUME TypeOK, NEW dirs, CopyTree(dirs)
  PROVE  /\ build \subseteq build'
         /\ ~refused' => ~refused /\ Taken(tree, build', dirs)
<1>1. /\ build' = build \cup {p \in {q \in Walked(tree, dirs) : tree[q] = "file"} : classify(p) = "ship"}
      /\ refused' = \/ refused
                    \/ Walked(tree, dirs) # {q \in Walked(tree, dirs) : tree[q] = "file"}
                    \/ \E p \in {q \in Walked(tree, dirs) : tree[q] = "file"} :
                         classify(p) \notin {"drop", "ship"}
  BY DEF CopyTree
<1>2. ASSUME ~refused' PROVE Taken(tree, build', dirs)
  <2> SUFFICES ASSUME NEW p \in Walked(tree, dirs)
               PROVE  tree[p] = "file" /\ (classify(p) = "drop" \/ (classify(p) = "ship" /\ p \in build'))
    BY DEF Taken
  <2>1. p \in {q \in Walked(tree, dirs) : tree[q] = "file"}
    BY <1>1, <1>2
  <2>2. classify(p) \in {"drop", "ship"}
    BY <1>1, <1>2, <2>1
  <2> QED BY <1>1, <2>1, <2>2
<1> QED BY <1>1, <1>2

LEMMA CopyTreeRefuses ==
  ASSUME TypeOK, NEW dirs, CopyTree(dirs), refused', ~refused
  PROVE  \E p \in Walked(tree, dirs) : tree[p] # "file" \/ classify(p) \notin {"drop", "ship"}
BY DEF CopyTree

LEMMA CopyTreeBundles ==
  ASSUME TypeOK, BundlesKnown, phase \in Working, NEW dirs, CopyTree(dirs)
  PROVE  /\ bundles => bundles'
         /\ \A p \in build' : InNodeModules(p) => bundles'
BY DEF CopyTree, BundlesKnown

\* What was taken stays so as ./build grows.
LEMMA TakenStays ==
  ASSUME NEW t, NEW b, NEW c, NEW dirs, b \subseteq c, Taken(t, b, dirs) PROVE Taken(t, c, dirs)
BY DEF Taken

-----------------------------------------------------------------------------
\* Why a composition refuses a tree that passed review, step by step.

\* A path beneath Tasks/ is no root asset and beneath no root directory.
LEMMA BeneathTasks ==
  ASSUME NEW p \in Paths, p[1] = "Tasks"
  PROVE  p \notin Assets /\ p[1] \notin ROOT_DIRS
BY DEF Assets, ROOT_ASSETS, ROOT_DIRS, ManifestName, Notices

\* What the machine added beneath Tasks/, and the composition does not take, is
\* a leftover.
LEMMA AddedUnderTasks ==
  ASSUME NEW p \in Walked(tree, {<<"Tasks">>}), tree[p] # tracked[p],
         \/ tree[p] # "file"
         \/ classify(p) \notin {"drop", "ship"}
         \/ classify(p) # "drop" /\ ~InsideTaskDir(tree, p)
  PROVE  Leftover
<1>1. p \in Present(tree) /\ p \in Paths /\ Walks(<<"Tasks">>, p)
  BY DEF Walked, Present
<1>2. p[1] = "Tasks"
  BY <1>1, BeneathRootDir DEF Walks
<1>3. p \notin {<<a>> : a \in ROOT_ASSETS} /\ p[1] \notin ROOT_DIRS
  BY <1>1, <1>2, BeneathTasks DEF Assets
<1>4. tree[p] # "file" \/ (classify(p) # "drop" /\ ~Composable(p))
  BY <1>3 DEF Composable
<1>5. p \in Walked(tree, {<<"Tasks">>} \cup {<<d>> : d \in ROOT_DIRS})
  BY <1>1 DEF Walked
<1> QED BY <1>4, <1>5 DEF Leftover

\* The copy of a task directory.
LEMMA TaskRefusalExplained ==
  ASSUME TypeOK, Check(tracked, manifest),
         NEW p \in Walked(tree, discoverTaskDirs(tree)),
         tree[p] # "file" \/ classify(p) \notin {"drop", "ship"}
  PROVE  Explained
<1>1. p \in Present(tree) /\ p \in Paths /\ p \in Seq(STRING)
  BY PackageAssumption DEF Walked, Present
<1>2. PICK dir \in discoverTaskDirs(tree) : Walks(dir, p)
  BY DEF Walked
<1>3. dir \in Seq(STRING) /\ Len(dir) = 3 /\ dir[1] = "Tasks"
  BY TaskDirIs
<1>4. Len(dir) <= Len(p) /\ \A i \in 1 .. Len(dir) : p[i] = dir[i]
  BY <1>1, <1>2, <1>3, WithinIff DEF Walks
<1>5. Len(p) \in Nat
  BY <1>1
<1>6. CASE \E i \in 2 .. Len(p) - 1 : p[i] \in DropNames
  <2>1. PICK i \in 2 .. Len(p) - 1 : p[i] \in DropNames
    BY <1>6
  <2>2. classify(p) = "drop"
    <3>1. i \in DOMAIN p
      BY <1>1, <1>5, <2>1
    <3> QED BY <2>1, <3>1, Verdicts
  <2>3. i \in 1 .. 3
    BY <1>2, <1>3, <1>5, <2>1 DEF Walks
  <2>4. i \in DOMAIN dir /\ dir[i] \in DropNames
    BY <1>3, <1>4, <2>1, <2>3
  <2>5. DevOnly(dir)
    BY <2>4 DEF DevOnly
  <2>6. tree[p] # "file" /\ p \in Walked(tree, {dir})
    BY <1>1, <1>2, <2>2 DEF Walked
  <2> QED BY <2>5, <2>6 DEF Explained, Unforeseen
<1>7. CASE \A i \in 2 .. Len(p) - 1 : p[i] \notin DropNames
  <2>1. Walks(<<"Tasks">>, p)
    <3>1. p[1] = "Tasks"
      BY <1>3, <1>4
    <3>2. Within(p, <<"Tasks">>)
      BY <1>1, <3>1, <1>3, <1>4, <1>5, BeginsWith
    <3>3. Len(<<"Tasks">>) + 1 = 2
      OBVIOUS
    <3> QED BY <1>7, <3>2, <3>3 DEF Walks
  <2>2. p \in Walked(tree, {<<"Tasks">>})
    BY <1>1, <2>1 DEF Walked
  <2>3. CASE tree[p] = tracked[p]
    <3>1. p \in Walked(tracked, {<<"Tasks">>})
      BY <1>1, <2>2, <2>3 DEF Walked, Present
    <3>2. tracked[p] = "file" /\ classify(p) \in {"drop", "ship"}
      BY <3>1 DEF Check, TasksOK
    <3> QED BY <2>3, <3>2
  <2>4. CASE tree[p] # tracked[p]
    BY <2>2, <2>4, AddedUnderTasks DEF Explained
  <2> QED BY <2>3, <2>4
<1> QED BY <1>6, <1>7

\* The search for strays.
LEMMA StrayRefusalExplained ==
  ASSUME TreeGrows, Check(tracked, manifest),
         NEW p \in Walked(tree, {<<"Tasks">>}), ~InsideTaskDir(tree, p), classify(p) # "drop"
  PROVE  Explained
<1>1. CASE tree[p] = tracked[p]
  <2>1. p \in Walked(tracked, {<<"Tasks">>})
    BY <1>1 DEF Walked, Present
  <2>2. InsideTaskDir(tracked, p)
    BY <2>1 DEF Check, TasksOK
  <2>3. InsideTaskDir(tree, p)
    BY <2>2, TaskDirsGrow DEF InsideTaskDir, TreeGrows
  <2> QED BY <2>3
<1>2. CASE tree[p] # tracked[p]
  BY <1>2, AddedUnderTasks DEF Explained
<1> QED BY <1>1, <1>2

\* The copy of a root directory.
LEMMA RootDirRefusalExplained ==
  ASSUME TypeOK, Check(tracked, manifest),
         NEW p \in Walked(tree, RootDirs),
         tree[p] # "file" \/ classify(p) \notin {"drop", "ship"}
  PROVE  Explained
<1>1. p \in Present(tree) /\ p \in Paths
  BY DEF Walked, Present
<1>2. PICK d \in ROOT_DIRS : Walks(<<d>>, p)
  BY DEF Walked, RootDirs
<1>3. CASE tree[p] = tracked[p]
  <2>1. p \in Walked(tracked, {<<e>> : e \in ROOT_DIRS})
    BY <1>1, <1>2, <1>3 DEF Walked, Present
  <2>2. tracked[p] # "symlink" /\ (tracked[p] = "file" => classify(p) \in {"drop", "ship"})
    BY <2>1 DEF Check, RootDirsOK
  <2>3. tree[p] \in Kinds /\ tree[p] # "absent"
    BY <1>1 DEF TypeOK, Tree, Present
  <2>4. tracked[p] = "other"
    BY <1>3, <2>2, <2>3 DEF Kinds
  <2> QED BY <2>1, <2>4 DEF Explained, Unforeseen
<1>4. CASE tree[p] # tracked[p]
  <2>1. p[1] = "images"
    BY <1>1, <1>2, BeneathRootDir DEF Walks, ROOT_DIRS
  <2>2. p \notin {<<a>> : a \in ROOT_ASSETS}
    BY <2>1 DEF ROOT_ASSETS, ManifestName, Notices
  <2>3. tree[p] # "file" \/ (classify(p) # "drop" /\ ~Composable(p))
    BY <2>2 DEF Composable
  <2>4. p \in Walked(tree, {<<"Tasks">>} \cup {<<e>> : e \in ROOT_DIRS})
    BY <1>1, <1>2 DEF Walked
  <2> QED BY <1>4, <2>3, <2>4 DEF Explained, Leftover
<1> QED BY <1>3, <1>4

\* The copy of the root assets.
LEMMA RootAssetRefusalExplained ==
  ASSUME TreeGrows, Check(tracked, manifest), NEW a \in ROOT_ASSETS,
         tree[<<a>>] = "symlink" \/ (tree[<<a>>] = "absent" /\ Required(a, bundles))
  PROVE  Explained
<1>1. tree[<<a>>] = tracked[<<a>>]
  BY DEF TreeGrows
<1>2. tracked[<<a>>] # "symlink" /\ (tracked[<<a>>] = "absent" => a = Notices)
  BY DEF Check, RootAssetsOK, Required
<1>3. a = Notices /\ tree[<<a>>] = "absent"
  BY <1>1, <1>2
<1>4. bundles
  BY <1>3 DEF Required
<1> QED BY <1>3, <1>4 DEF Explained

\* What a path of the reviewed manifest promises was composed: the reviewed tree
\* has a file beneath it that is not dev-only, the machine has it too, and each
\* place it may be in was taken whole.
LEMMA KeptWasTaken ==
  ASSUME TreeGrows, Check(tracked, manifest), ~refused,
         Taken(tree, build, discoverTaskDirs(tree)), Taken(tree, build, RootDirs),
         \A a \in ROOT_ASSETS : tree[<<a>>] = "absent" \/ <<a>> \in build,
         NEW path \in Seq(STRING), path # <<>>, ComposedLocation(tracked, path),
         NEW p \in Present(tracked), Within(p, path), classify(p) # "drop"
  PROVE  p \in build
<1>1. p \in Paths /\ p \in Seq(STRING) /\ p \in Present(tree) /\ p[1] = path[1]
  BY PackageAssumption, WithinFirst DEF Present, TreeGrows
<1>2. Len(p) > 0
  BY <1>1, PackageAssumption
<1>3. CASE path \in {<<a>> : a \in ROOT_ASSETS}
  <2>1. PICK a \in ROOT_ASSETS : path = <<a>>
    BY <1>3
  <2>2. p = <<a>>
    BY <1>1, <2>1, AssetAlone
  <2>3. tree[<<a>>] # "absent"
    BY <1>1, <2>2 DEF Present
  <2> QED BY <2>2, <2>3
<1>4. CASE path[1] \in ROOT_DIRS
  <2>1. Within(p, <<p[1]>>)
    BY <1>1, <1>2, BeginsWith
  <2>2. <<p[1]>> \in Seq(STRING)
    <3>1. p[1] \in STRING
      BY <1>1, <1>2, ElementOfSeq
    <3> QED BY <3>1
  <2>3. Walks(<<p[1]>>, p)
    BY <1>1, <2>1, <2>2, WalksToKept
  <2>4. p \in Walked(tree, RootDirs)
    BY <1>1, <1>4, <2>3 DEF Walked, RootDirs
  <2> QED BY <2>4 DEF Taken
<1>5. CASE \E dir \in discoverTaskDirs(tracked) : Within(path, dir) \/ Within(dir, path)
  <2>1. PICK dir \in discoverTaskDirs(tracked) : Within(path, dir) \/ Within(dir, path)
    BY <1>5
  <2>2. dir \in Seq(STRING) /\ dir # <<>> /\ dir[1] = "Tasks"
    BY <2>1, TaskDirIs
  <2>3. p[1] = "Tasks"
    BY <1>1, <2>1, <2>2, WithinFirst
  <2>4. Within(p, <<p[1]>>)
    BY <1>1, <1>2, BeginsWith
  <2>5. <<p[1]>> \in Seq(STRING)
    <3>1. p[1] \in STRING
      BY <1>1, <1>2, ElementOfSeq
    <3> QED BY <3>1
  <2>6. Walks(<<"Tasks">>, p)
    BY <1>1, <2>3, <2>4, <2>5, WalksToKept
  <2>7. p \in Walked(tracked, {<<"Tasks">>})
    BY <2>6 DEF Walked
  <2>8. InsideTaskDir(tracked, p)
    BY <2>7 DEF Check, TasksOK
  <2>9. PICK d \in discoverTaskDirs(tracked) : Within(p, d)
    BY <2>8 DEF InsideTaskDir
  <2>10. d \in discoverTaskDirs(tree) /\ d \in Seq(STRING)
    BY <2>9, TaskDirsGrow, TaskDirIs DEF TreeGrows
  <2>11. p \in Walked(tree, discoverTaskDirs(tree))
    BY <1>1, <2>9, <2>10, WalksToKept DEF Walked
  <2> QED BY <2>11 DEF Taken
<1> QED BY <1>3, <1>4, <1>5 DEF ComposedLocation

\* The assertion over ./build.
LEMMA OutputRefusalExplained ==
  ASSUME Inv, TreeGrows, phase = "output", Check(tracked, manifest), ~refused, ~OutputOK,
         Taken(tree, build, discoverTaskDirs(tree)), Taken(tree, build, RootDirs),
         \A a \in ROOT_ASSETS : tree[<<a>>] = "absent" \/ <<a>> \in build
  PROVE  Explained
<1>1. \A p \in build : p \in {<<a>> : a \in ROOT_ASSETS} \/ classify(p) = "ship"
  BY DEF Inv, OfThisTree, Working, Composable
<1>2. PICK path \in (Listing(manifest) \cup manifest.files) \ {<<>>} : ~\E p \in build : Within(p, path)
  BY <1>1 DEF OutputOK
<1>3. path \in Seq(STRING) /\ path # <<>>
  BY PackageAssumption DEF Inv, TypeOK
<1>4. ComposedLocation(tracked, path)
  BY <1>2 DEF Check, ManifestPathOK, FilesOK
<1>5. CASE \A p \in Present(tracked) : Within(p, path) => classify(p) = "drop"
  BY <1>2, <1>5 DEF Explained, Unforeseen
<1>6. CASE \E p \in Present(tracked) : Within(p, path) /\ classify(p) # "drop"
  <2>1. PICK p \in Present(tracked) : Within(p, path) /\ classify(p) # "drop"
    BY <1>6
  <2>2. p \in build
    BY <1>3, <1>4, <2>1, KeptWasTaken
  <2> QED BY <1>2, <2>1, <2>2
<1> QED BY <1>5, <1>6

-----------------------------------------------------------------------------
\* What tfx makes of a composition that ran to its end keeps the manifest's
\* promises.

\* The task.json of a contribution that has no dev-only name was composed.
LEMMA TaskWasTaken ==
  ASSUME TreeGrows, Taken(tree, build, discoverTaskDirs(tree)),
         NEW dir \in discoverTaskDirs(tracked), ~DevOnly(dir)
  PROVE  dir \o <<"task.json">> \in build
<1> DEFINE q == dir \o <<"task.json">>
<1>1. /\ dir \in Seq(STRING) /\ Len(dir) = 3
      /\ q \in Present(tracked) /\ Len(q) = 4 /\ Within(q, dir)
      /\ \A i \in 1 .. 3 : q[i] = dir[i]
      /\ q[4] = "task.json"
  BY TaskDirIs
<1> HIDE DEF q
<1>2. q \in Paths /\ q \in Seq(STRING) /\ q \in Present(tree)
  BY <1>1, PackageAssumption DEF Present, TreeGrows
<1>3. \A i \in 1 .. 3 : q[i] \notin DropNames
  BY <1>1 DEF DevOnly
<1>4. q[4] \notin DropNames
  BY <1>1, PackageAssumption
<1>5. DOMAIN q = 1 .. 4
  BY <1>1, <1>2
<1>6. classify(q) # "drop"
  <2>1. \A i \in 1 .. 4 : i \in 1 .. 3 \/ i = 4
    OBVIOUS
  <2>2. \A i \in DOMAIN q : q[i] \notin DropNames
    BY <1>3, <1>4, <1>5, <2>1
  <2> QED BY <2>2, Verdicts
<1>7. dir \in discoverTaskDirs(tree)
  BY TaskDirsGrow DEF TreeGrows
<1>8. Walks(dir, q)
  BY <1>1, <1>2, <1>6, WalksToKept
<1>9. q \in Walked(tree, discoverTaskDirs(tree))
  BY <1>2, <1>7, <1>8 DEF Walked
<1>10. q \in build
  BY <1>6, <1>9 DEF Taken
<1> QED BY <1>10 DEF q

LEMMA PackagingKeepsPromises ==
  ASSUME Inv, ReviewInv, NEW name, NEW o, CreateExtension(name, o)
  PROVE  VsixKeepsItsPromises'
<1> DEFINE Covered(p) == \E path \in manifest.files \cup Listing(manifest) : Within(p, path)
<1>1. /\ tracked' = tracked /\ manifest' = manifest
      /\ vsix'.files = {p \in build : p = <<ManifestName>> \/ Covered(p)}
      /\ vsix'.whole = (phase = "composed")
  BY DEF CreateExtension, input
<1>2. ASSUME phase = "composed", Check(tracked, manifest)
      PROVE  /\ \A path \in Listing(manifest) : \E p \in vsix'.files : Within(p, path)
             /\ \A dir \in manifest.contributions :
                   DevOnly(dir) \/ dir \o <<"task.json">> \in vsix'.files
             /\ (\E p \in vsix'.files : InNodeModules(p)) => <<Notices>> \in vsix'.files
  <2>1. ~refused /\ OutputOK
    BY <1>2 DEF ReviewInv, ComposedIsWhole
  <2>2. ASSUME NEW path \in Listing(manifest) PROVE \E p \in vsix'.files : Within(p, path)
    <3>1. path # <<>>
      BY <1>2 DEF Check, ManifestPathOK
    <3>2. PICK p \in build : Within(p, path)
      BY <2>1, <3>1 DEF OutputOK
    <3> QED BY <1>1, <3>2
  <2>3. ASSUME NEW dir \in manifest.contributions, ~DevOnly(dir)
        PROVE  dir \o <<"task.json">> \in vsix'.files
    <3>1. dir \in discoverTaskDirs(tracked)
      BY <1>2 DEF Check, ContributionsOK
    <3>2. Taken(tree, build, discoverTaskDirs(tree)) /\ TreeGrows
      BY <1>2, <2>1 DEF ReviewInv, TasksTaken
    <3>3. dir \o <<"task.json">> \in build
      BY <2>3, <3>1, <3>2, TaskWasTaken
    <3>4. PICK path \in manifest.files : Within(dir, path)
      BY <1>2, <3>1 DEF Check, ContributionsOK
    <3>5. /\ dir \in Seq(STRING) /\ dir \o <<"task.json">> \in Present(tracked)
          /\ Within(dir \o <<"task.json">>, dir)
      BY <3>1, TaskDirIs
    <3>6. dir \o <<"task.json">> \in Seq(STRING) /\ path \in Seq(STRING)
      BY <3>5, PackageAssumption DEF Present, Inv, TypeOK
    <3>7. Within(dir \o <<"task.json">>, path)
      BY <3>4, <3>5, <3>6, WithinTransitive
    <3> QED BY <1>1, <3>3, <3>4, <3>7
  <2>4. ASSUME \E p \in vsix'.files : InNodeModules(p) PROVE <<Notices>> \in vsix'.files
    <3>1. <<Notices>> \in build
      BY <1>1, <1>2, <2>1, <2>4 DEF ReviewInv, BundlesKnown, RootAssetsTaken
    <3>2. Notices \in ROOT_ASSETS \ {ManifestName} /\ <<Notices>> \in Paths
      BY PackageAssumption DEF ROOT_ASSETS, Notices, ManifestName
    <3>3. tracked[<<Notices>>] # "absent"
      BY <1>2, <3>1, <3>2 DEF Inv, TypeOK, ReviewInv, TreeGrows
    <3>4. Within(<<Notices>>, <<Notices>>)
      <4>1. <<Notices>> \in Seq(STRING)
        BY <3>2, PackageAssumption
      <4> QED BY <4>1, WithinItself
    <3>5. <<Notices>> \in manifest.files \cup Listing(manifest)
      BY <1>2, <3>2, <3>3, <3>4 DEF Check, RootAssetsNamed, Exists, Present
    <3> QED BY <1>1, <3>1, <3>4, <3>5
  <2> QED BY <2>2, <2>3, <2>4
<1>3. /\ Check(tracked, manifest)' = Check(tracked, manifest)
      /\ Listing(manifest)' = Listing(manifest)
  BY <1>1
<1> QED BY <1>1, <1>2, <1>3 DEF VsixKeepsItsPromises

-----------------------------------------------------------------------------
\* The invariant of review holds initially, and every step keeps it.

LEMMA InitReview == Init => ReviewInv
<1> SUFFICES ASSUME Init PROVE ReviewInv
  OBVIOUS
<1> USE DEF Init
<1>1. TreeGrows
  BY DEF TreeGrows
<1>2. BundlesKnown /\ TasksTaken /\ RootDirsTaken /\ RootAssetsTaken /\ ComposedIsWhole
  BY DEF BundlesKnown, TasksTaken, RootDirsTaken, RootAssetsTaken, ComposedIsWhole, Working
<1>3. RefusalsExplained /\ RefusedIsRefused
  BY DEF RefusalsExplained, RefusedIsRefused, Working
<1>4. VsixKeepsItsPromises
  BY DEF VsixKeepsItsPromises
<1> QED BY <1>1, <1>2, <1>3, <1>4 DEF ReviewInv

\* What explains a refusal goes on explaining it.
LEMMA ExplainedStays ==
  ASSUME UNCHANGED input, bundles => bundles', Explained PROVE Explained'
<1>1. tracked' = tracked /\ manifest' = manifest /\ tree' = tree
  BY DEF input
<1>2. \A p : Composable(p)' = Composable(p)
  BY <1>1 DEF Composable, InsideTaskDir, discoverTaskDirs, Present
<1>3. Leftover' = Leftover
  BY <1>1, <1>2 DEF Leftover, Walked, Present
<1>4. Unforeseen' = Unforeseen
  BY <1>1 DEF Unforeseen, Walked, Present, discoverTaskDirs, Listing
<1> QED BY <1>1, <1>3, <1>4 DEF Explained

LEMMA ReviewUnchanged ==
  ASSUME UNCHANGED input
  PROVE  /\ TreeGrows => TreeGrows'
         /\ Check(tracked, manifest)' = Check(tracked, manifest)
         /\ discoverTaskDirs(tree)' = discoverTaskDirs(tree)
BY DEF input, TreeGrows, Present

\* No .vsix has been made yet.
LEMMA NothingPromisedYet ==
  ASSUME Inv, phase \notin {"composed", "killed"}, UNCHANGED vsix
  PROVE VsixKeepsItsPromises'
<1>1. vsix = NoVsix
  BY DEF Inv, VsixIsDone
<1> QED BY <1>1 DEF VsixKeepsItsPromises, NoVsix

\* A step that composes nothing keeps the invariant.
LEMMA ReviewStutters ==
  ASSUME ReviewInv, UNCHANGED input, UNCHANGED <<tree, phase, refused, bundles, build>>,
         VsixKeepsItsPromises'
  PROVE  ReviewInv'
<1> USE DEF ReviewInv
<1>1. TreeGrows'
  BY ReviewUnchanged
<1>2. BundlesKnown'
  BY DEF BundlesKnown
<1>3. TasksTaken'
  BY ReviewUnchanged DEF TasksTaken, Taken, Walked, Present
<1>4. RootDirsTaken'
  BY DEF RootDirsTaken, Taken, Walked, Present, RootDirs
<1>5. RootAssetsTaken'
  BY DEF RootAssetsTaken
<1>6. ComposedIsWhole'
  BY DEF ComposedIsWhole, OutputOK, input, Listing
<1>7. RefusalsExplained'
  BY ExplainedStays, ReviewUnchanged DEF RefusalsExplained
<1>8. RefusedIsRefused'
  BY DEF RefusedIsRefused
<1> QED BY <1>1, <1>2, <1>3, <1>4, <1>5, <1>6, <1>7, <1>8

\* Every step keeps it.
LEMMA NextReview ==
  ASSUME OnlyAdds, Inv, ReviewInv, [Next]_vars PROVE ReviewInv'
<1> USE DEF ReviewInv
<1>1. ASSUME NEW extra \in Untracked, Prepare(extra) PROVE ReviewInv'
  <2>1. /\ phase' = "ready" /\ vsix' = NoVsix /\ tracked' = tracked
        /\ tree' = [p \in Paths |-> IF p \in DOMAIN extra THEN extra[p] ELSE tracked[p]]
    BY <1>1 DEF Prepare
  <2>2. TreeGrows'
    <3>1. ASSUME NEW p \in Present(tracked) PROVE tree'[p] # "absent" /\ p \in Paths
      BY <2>1, <3>1 DEF OnlyAdds, Present
    <3>2. ASSUME NEW a \in ROOT_ASSETS PROVE tree'[<<a>>] = tracked[<<a>>]
      <4>1. <<a>> \in Paths /\ Len(<<a>>) = 1
        BY PackageAssumption
      <4>2. \A p \in DOMAIN extra : Len(p) > 1
        BY PackageAssumption
      <4>3. ~(1 > 1)
        OBVIOUS
      <4>4. <<a>> \notin DOMAIN extra
        BY <4>1, <4>2, <4>3
      <4> QED BY <2>1, <4>1, <4>4
    <3> QED BY <2>1, <3>1, <3>2 DEF TreeGrows, Present
  <2>3. BundlesKnown' /\ TasksTaken' /\ RootDirsTaken' /\ RootAssetsTaken' /\ ComposedIsWhole'
    BY <2>1 DEF BundlesKnown, TasksTaken, RootDirsTaken, RootAssetsTaken, ComposedIsWhole, Working
  <2>4. RefusalsExplained' /\ RefusedIsRefused'
    BY <2>1 DEF RefusalsExplained, RefusedIsRefused, Working
  <2>5. VsixKeepsItsPromises'
    BY <2>1 DEF VsixKeepsItsPromises, NoVsix
  <2> QED BY <2>2, <2>3, <2>4, <2>5
<1>2. CASE Clear
  <2>1. /\ phase = "ready" /\ phase' = "tasks" /\ build' = {} /\ refused' = FALSE
        /\ UNCHANGED input /\ UNCHANGED vsix
    BY <1>2 DEF Clear
  <2>2. TreeGrows' /\ VsixKeepsItsPromises'
    BY <2>1, ReviewUnchanged, NothingPromisedYet
  <2>3. BundlesKnown' /\ TasksTaken' /\ RootDirsTaken' /\ RootAssetsTaken' /\ ComposedIsWhole'
    BY <2>1 DEF BundlesKnown, TasksTaken, RootDirsTaken, RootAssetsTaken, ComposedIsWhole
  <2>4. RefusalsExplained' /\ RefusedIsRefused'
    BY <2>1 DEF RefusalsExplained, RefusedIsRefused
  <2> QED BY <2>2, <2>3, <2>4
<1>3. CASE CopyTasks
  <2>1. /\ phase = "tasks" /\ phase' = "strays"
        /\ UNCHANGED input /\ UNCHANGED vsix /\ tree' = tree
        /\ CopyTree(discoverTaskDirs(tree))
    BY <1>3 DEF CopyTasks, input
  <2>2. TypeOK /\ phase \in Working
    BY <2>1 DEF Inv, Working
  <2>3. TreeGrows' /\ VsixKeepsItsPromises'
    BY <2>1, ReviewUnchanged, NothingPromisedYet
  <2>4. BundlesKnown' /\ (bundles => bundles')
    BY <2>1, <2>2, CopyTreeBundles DEF BundlesKnown
  <2>5. TasksTaken'
    <3>1. ~refused' => Taken(tree, build', discoverTaskDirs(tree))
      BY <2>1, <2>2, CopyTreeTakes
    <3> QED BY <2>1, <3>1, ReviewUnchanged DEF TasksTaken, Taken, Walked, Present
  <2>6. RootDirsTaken' /\ RootAssetsTaken' /\ ComposedIsWhole' /\ RefusedIsRefused'
    BY <2>1 DEF RootDirsTaken, RootAssetsTaken, ComposedIsWhole, RefusedIsRefused
  <2>7. RefusalsExplained'
    <3>1. ASSUME refused', Check(tracked, manifest) PROVE Explained
      <4>1. CASE refused
        BY <2>2, <3>1, <4>1 DEF RefusalsExplained
      <4>2. CASE ~refused
        <5>1. PICK p \in Walked(tree, discoverTaskDirs(tree)) :
                     tree[p] # "file" \/ classify(p) \notin {"drop", "ship"}
          BY <2>1, <2>2, <3>1, <4>2, CopyTreeRefuses
        <5> QED BY <2>2, <3>1, <5>1, TaskRefusalExplained
      <4> QED BY <4>1, <4>2
    <3> QED BY <2>1, <2>4, <3>1, ExplainedStays, ReviewUnchanged DEF RefusalsExplained
  <2> QED BY <2>3, <2>4, <2>5, <2>6, <2>7
<1>4. CASE RefuseStrays
  <2>1. /\ phase = "strays" /\ phase' = "root dirs"
        /\ UNCHANGED input /\ UNCHANGED vsix /\ tree' = tree
        /\ bundles' = bundles /\ build' = build
        /\ refused' = (refused \/ \E p \in Walked(tree, {<<"Tasks">>}) :
                                    /\ tree[p] \in {"file", "symlink"}
                                    /\ ~InsideTaskDir(tree, p) /\ classify(p) # "drop")
    BY <1>4 DEF RefuseStrays, input
  <2>2. phase \in Working
    BY <2>1 DEF Working
  <2>3. TreeGrows' /\ VsixKeepsItsPromises'
    BY <2>1, ReviewUnchanged, NothingPromisedYet
  <2>4. BundlesKnown'
    BY <2>1, <2>2 DEF BundlesKnown
  <2>5. TasksTaken'
    <3>1. ~refused' => Taken(tree, build, discoverTaskDirs(tree))
      BY <2>1 DEF TasksTaken
    <3> QED BY <2>1, <3>1, ReviewUnchanged DEF TasksTaken, Taken, Walked, Present
  <2>6. RootDirsTaken' /\ RootAssetsTaken' /\ ComposedIsWhole' /\ RefusedIsRefused'
    BY <2>1 DEF RootDirsTaken, RootAssetsTaken, ComposedIsWhole, RefusedIsRefused
  <2>7. RefusalsExplained'
    <3>1. ASSUME refused', Check(tracked, manifest) PROVE Explained
      <4>1. CASE refused
        BY <2>2, <3>1, <4>1 DEF RefusalsExplained
      <4>2. CASE ~refused
        <5>1. PICK p \in Walked(tree, {<<"Tasks">>}) : ~InsideTaskDir(tree, p) /\ classify(p) # "drop"
          BY <2>1, <3>1, <4>2
        <5> QED BY <3>1, <5>1, StrayRefusalExplained
      <4> QED BY <4>1, <4>2
    <3> QED BY <2>1, <3>1, ExplainedStays, ReviewUnchanged DEF RefusalsExplained
  <2> QED BY <2>3, <2>4, <2>5, <2>6, <2>7
<1>5. CASE CopyRootDirs
  <2>1. /\ phase = "root dirs" /\ phase' = "root assets"
        /\ UNCHANGED input /\ UNCHANGED vsix /\ tree' = tree
        /\ CopyTree(RootDirs)
    BY <1>5 DEF CopyRootDirs, input, RootDirs
  <2>2. TypeOK /\ phase \in Working
    BY <2>1 DEF Inv, Working
  <2>3. TreeGrows' /\ VsixKeepsItsPromises'
    BY <2>1, ReviewUnchanged, NothingPromisedYet
  <2>4. BundlesKnown' /\ (bundles => bundles')
    BY <2>1, <2>2, CopyTreeBundles DEF BundlesKnown
  <2>5. TasksTaken' /\ RootDirsTaken'
    <3>1. build \subseteq build' /\ (~refused' => ~refused /\ Taken(tree, build', RootDirs))
      BY <2>1, <2>2, CopyTreeTakes
    <3>2. ~refused' => Taken(tree, build', discoverTaskDirs(tree))
      BY <2>1, <3>1, TakenStays DEF TasksTaken
    <3>3. TasksTaken'
      BY <2>1, <3>2, ReviewUnchanged DEF TasksTaken, Taken, Walked, Present
    <3>4. RootDirsTaken'
      BY <2>1, <3>1 DEF RootDirsTaken, Taken, Walked, Present, RootDirs
    <3> QED BY <3>3, <3>4
  <2>6. RootAssetsTaken' /\ ComposedIsWhole' /\ RefusedIsRefused'
    BY <2>1 DEF RootAssetsTaken, ComposedIsWhole, RefusedIsRefused
  <2>7. RefusalsExplained'
    <3>1. ASSUME refused', Check(tracked, manifest) PROVE Explained
      <4>1. CASE refused
        BY <2>2, <3>1, <4>1 DEF RefusalsExplained
      <4>2. CASE ~refused
        <5>1. PICK p \in Walked(tree, RootDirs) :
                     tree[p] # "file" \/ classify(p) \notin {"drop", "ship"}
          BY <2>1, <2>2, <3>1, <4>2, CopyTreeRefuses
        <5> QED BY <2>2, <3>1, <5>1, RootDirRefusalExplained
      <4> QED BY <4>1, <4>2
    <3> QED BY <2>1, <2>4, <3>1, ExplainedStays, ReviewUnchanged DEF RefusalsExplained
  <2> QED BY <2>3, <2>4, <2>5, <2>6, <2>7
<1>6. CASE CopyRootAssets
  <2>1. /\ phase = "root assets" /\ phase' = "output"
        /\ UNCHANGED input /\ UNCHANGED vsix /\ tree' = tree /\ bundles' = bundles
        /\ \A a \in ROOT_ASSETS : tree[<<a>>] # "other"
        /\ build' = build \cup {p \in {<<a>> : a \in ROOT_ASSETS} : tree[p] = "file"}
        /\ refused' = (refused \/ \E a \in ROOT_ASSETS :
                                    \/ tree[<<a>>] = "symlink"
                                    \/ tree[<<a>>] = "absent" /\ Required(a, bundles))
    BY <1>6 DEF CopyRootAssets, input
  <2>2. phase \in Working
    BY <2>1 DEF Working
  <2>3. TreeGrows' /\ VsixKeepsItsPromises'
    BY <2>1, ReviewUnchanged, NothingPromisedYet
  <2>4. BundlesKnown'
    <3>1. ASSUME NEW a \in ROOT_ASSETS PROVE ~InNodeModules(<<a>>)
      <4>1. DOMAIN <<a>> = {1} /\ <<a>>[1] = a
        OBVIOUS
      <4>2. a # "node_modules"
        BY DEF ROOT_ASSETS, ManifestName, Notices
      <4> QED BY <4>1, <4>2 DEF InNodeModules
    <3>2. \A p \in build : InNodeModules(p) => bundles
      BY <2>2 DEF BundlesKnown
    <3> QED BY <2>1, <3>1, <3>2 DEF BundlesKnown
  <2>5. TasksTaken' /\ RootDirsTaken'
    <3>1. build \subseteq build' /\ (~refused' => ~refused)
      BY <2>1
    <3>2. ~refused' => Taken(tree, build', discoverTaskDirs(tree)) /\ Taken(tree, build', RootDirs)
      BY <2>1, <3>1, TakenStays DEF TasksTaken, RootDirsTaken
    <3>3. TasksTaken'
      BY <2>1, <3>2, ReviewUnchanged DEF TasksTaken, Taken, Walked, Present
    <3>4. RootDirsTaken'
      BY <2>1, <3>2 DEF RootDirsTaken, Taken, Walked, Present, RootDirs
    <3> QED BY <3>3, <3>4
  <2>6. RootAssetsTaken'
    <3> SUFFICES ASSUME ~refused'
                 PROVE  /\ \A a \in ROOT_ASSETS : tree[<<a>>] = "absent" \/ <<a>> \in build'
                        /\ bundles => <<Notices>> \in build'
      BY <2>1 DEF RootAssetsTaken
    <3>1. ASSUME NEW a \in ROOT_ASSETS, tree[<<a>>] # "absent" PROVE <<a>> \in build'
      <4>1. tree[<<a>>] \in Kinds
        BY PackageAssumption DEF Inv, TypeOK, Tree
      <4>2. tree[<<a>>] = "file"
        BY <2>1, <3>1, <4>1 DEF Kinds
      <4> QED BY <2>1, <4>2
    <3>2. Notices \in ROOT_ASSETS
      BY DEF ROOT_ASSETS
    <3>3. bundles => tree[<<Notices>>] # "absent"
      BY <2>1, <3>2 DEF Required
    <3> QED BY <3>1, <3>2, <3>3
  <2>7. ComposedIsWhole' /\ RefusedIsRefused'
    BY <2>1 DEF ComposedIsWhole, RefusedIsRefused
  <2>8. RefusalsExplained'
    <3>1. ASSUME refused', Check(tracked, manifest) PROVE Explained
      <4>1. CASE refused
        BY <2>2, <3>1, <4>1 DEF RefusalsExplained
      <4>2. CASE ~refused
        <5>1. PICK a \in ROOT_ASSETS : \/ tree[<<a>>] = "symlink"
                                       \/ tree[<<a>>] = "absent" /\ Required(a, bundles)
          BY <2>1, <3>1, <4>2
        <5> QED BY <3>1, <5>1, RootAssetRefusalExplained
      <4> QED BY <4>1, <4>2
    <3> QED BY <2>1, <3>1, ExplainedStays, ReviewUnchanged DEF RefusalsExplained
  <2> QED BY <2>3, <2>4, <2>5, <2>6, <2>7, <2>8
<1>7. CASE AssertOutput
  <2>1. /\ phase = "output" /\ UNCHANGED input /\ UNCHANGED vsix /\ tree' = tree /\ bundles' = bundles
        /\ \/ /\ ~refused /\ OutputOK
              /\ phase' = "composed" /\ refused' = refused /\ build' = build
           \/ /\ refused \/ ~OutputOK
              /\ phase' = "refused" /\ refused' = TRUE /\ build' = {}
    BY <1>7 DEF AssertOutput, input
  <2>2. phase \in Working
    BY <2>1 DEF Working
  <2>3. TreeGrows' /\ VsixKeepsItsPromises'
    BY <2>1, ReviewUnchanged, NothingPromisedYet
  <2>4. CASE ~refused /\ OutputOK /\ phase' = "composed" /\ refused' = refused /\ build' = build
    <3>1. BundlesKnown'
      BY <2>1, <2>2, <2>4 DEF BundlesKnown
    <3>2. TasksTaken'
      BY <2>1, <2>4, ReviewUnchanged DEF TasksTaken, Taken, Walked, Present
    <3>3. RootDirsTaken'
      BY <2>1, <2>4 DEF RootDirsTaken, Taken, Walked, Present, RootDirs
    <3>4. RootAssetsTaken'
      BY <2>1, <2>4 DEF RootAssetsTaken
    <3>5. ComposedIsWhole'
      BY <2>1, <2>4 DEF ComposedIsWhole, OutputOK, input, Listing
    <3>6. RefusalsExplained' /\ RefusedIsRefused'
      BY <2>4 DEF RefusalsExplained, RefusedIsRefused, Working
    <3> QED BY <2>3, <3>1, <3>2, <3>3, <3>4, <3>5, <3>6
  <2>5. CASE (refused \/ ~OutputOK) /\ phase' = "refused" /\ refused' = TRUE /\ build' = {}
    <3>1. BundlesKnown' /\ TasksTaken' /\ RootDirsTaken' /\ RootAssetsTaken' /\ ComposedIsWhole'
      BY <2>5 DEF BundlesKnown, TasksTaken, RootDirsTaken, RootAssetsTaken, ComposedIsWhole
    <3>2. ASSUME Check(tracked, manifest) PROVE Explained
      <4>1. CASE refused
        BY <2>2, <3>2, <4>1 DEF RefusalsExplained
      <4>2. CASE ~refused /\ ~OutputOK
        <5>1. /\ Taken(tree, build, discoverTaskDirs(tree)) /\ Taken(tree, build, RootDirs)
              /\ \A a \in ROOT_ASSETS : tree[<<a>>] = "absent" \/ <<a>> \in build
          BY <2>1, <4>2 DEF TasksTaken, RootDirsTaken, RootAssetsTaken
        <5> QED BY <2>1, <3>2, <4>2, <5>1, OutputRefusalExplained
      <4> QED BY <2>5, <4>1, <4>2
    <3>3. RefusalsExplained' /\ RefusedIsRefused'
      BY <2>1, <2>5, <3>2, ExplainedStays, ReviewUnchanged DEF RefusalsExplained, RefusedIsRefused
    <3> QED BY <2>3, <3>1, <3>3
  <2> QED BY <2>1, <2>4, <2>5
<1>8. CASE Kill
  <2>1. /\ phase \in Working \cup {"ready"} /\ phase' = "killed"
        /\ UNCHANGED input /\ UNCHANGED vsix
    BY <1>8 DEF Kill
  <2>2. phase \notin {"composed", "killed"}
    BY <2>1 DEF Working
  <2>3. TreeGrows' /\ VsixKeepsItsPromises'
    BY <2>1, <2>2, ReviewUnchanged, NothingPromisedYet
  <2>4. BundlesKnown' /\ TasksTaken' /\ RootDirsTaken' /\ RootAssetsTaken' /\ ComposedIsWhole'
    BY <2>1 DEF BundlesKnown, TasksTaken, RootDirsTaken, RootAssetsTaken, ComposedIsWhole, Working
  <2>5. RefusalsExplained' /\ RefusedIsRefused'
    BY <2>1 DEF RefusalsExplained, RefusedIsRefused, Working
  <2> QED BY <2>3, <2>4, <2>5
<1>9. ASSUME NEW o \in Overrides, CreateExtension(o[1], o[2]) PROVE ReviewInv'
  <2>1. VsixKeepsItsPromises'
    BY <1>9, PackagingKeepsPromises
  <2>2. UNCHANGED input /\ UNCHANGED <<tree, phase, refused, bundles, build>>
    BY <1>9 DEF CreateExtension, input
  <2> QED BY <2>1, <2>2, ReviewStutters
<1>10. CASE UNCHANGED vars
  <2>1. UNCHANGED input /\ UNCHANGED <<tree, phase, refused, bundles, build>> /\ UNCHANGED vsix
    BY <1>10 DEF vars, input
  <2>2. VsixKeepsItsPromises'
    BY <2>1, ReviewUnchanged DEF VsixKeepsItsPromises, NoVsix, Listing, input
  <2> QED BY <2>1, <2>2, ReviewStutters
<1> QED
  BY <1>1, <1>2, <1>3, <1>4, <1>5, <1>6, <1>7, <1>8, <1>9, <1>10 DEF Next

\* What review says of a composition holds of every behaviour.
THEOREM ReviewIsKept == ASSUME OnlyAdds PROVE Spec => []ReviewInv
<1>1. Init => ReviewInv
  BY InitReview
<1>2. Inv /\ ReviewInv /\ [Next]_vars => ReviewInv'
  BY NextReview
<1> QED BY <1>1, <1>2, CompositionIsVetted, PTL DEF Spec

\* A .vsix made of a tree that passed review keeps its manifest's promises,
\* wherever the machine took nothing away from that tree.
THEOREM VsixKeepsItsPromisesHolds == ASSUME OnlyAdds PROVE Spec => []VsixKeepsItsPromises
<1>1. ReviewInv => VsixKeepsItsPromises
  BY DEF ReviewInv
<1> QED BY <1>1, ReviewIsKept, PTL

\* On such a machine, nothing else than a leftover, missing notices or a known
\* gap of the check makes the composition refuse a tree that passed review.
THEOREM RefusalIsExplainedHolds == ASSUME OnlyAdds PROVE Spec => []RefusalIsExplained
<1>1. ReviewInv => RefusalIsExplained
  BY DEF ReviewInv, RefusalsExplained, RefusedIsRefused, RefusalIsExplained, Explained
<1> QED BY <1>1, ReviewIsKept, PTL

-----------------------------------------------------------------------------
\* How a .vsix is listed.

\* An override that the check accepts lists publicly if it is release.json,
\* and only then; and it has the released identity only there, or in self.json.
LEMMA AcceptedOverride ==
  ASSUME NEW name, NEW o, OverrideOK(name, o)
  PROVE  /\ o.public = IF name = "release.json" THEN "true" ELSE "false"
         /\ o.flags = "Public" => name = "release.json"
         /\ <<o.publisher, o.idSuffix>> = <<"own", "">> => name \in {"release.json", "self.json"}
<1>1. name \in {"release.json", "dev.json", "test.json", "self.json"}
  BY DEF OverrideOK, OVERRIDES
<1>2. /\ OVERRIDES[name].mayBePublic = (name = "release.json")
      /\ name = "dev.json" => OVERRIDES[name].idSuffix = "-dev"
      /\ name = "test.json" => OVERRIDES[name].idSuffix = "-test"
  BY <1>1 DEF OVERRIDES
<1> QED
  BY <1>1, <1>2 DEF OverrideOK

\* Packaging lists as the override says, or else as the manifest does.
LEMMA PackagingListsAsMeant ==
  ASSUME NEW name, NEW o, CreateExtension(name, o)
  PROVE  NoAccidentalListing'
<1>1. /\ manifest' = manifest
      /\ vsix'.override = name
      /\ vsix'.reviewed = (OverrideOK(name, o) /\ manifest.public = "false")
      /\ vsix'.listed = \/ (IF o.public = "unset" THEN manifest.public ELSE o.public) = "true"
                        \/ (IF o.flags = "unset" THEN manifest.flags ELSE o.flags) = "Public"
      /\ vsix'.updates = <<o.publisher, o.idSuffix>>
  BY DEF CreateExtension, input
<1>2. CASE ~vsix'.reviewed
  BY <1>2 DEF NoAccidentalListing
<1>3. CASE vsix'.reviewed
  <2>1. OverrideOK(name, o) /\ manifest.public = "false"
    BY <1>1, <1>3
  <2>2. /\ o.public = IF name = "release.json" THEN "true" ELSE "false"
        /\ o.flags = "Public" => name = "release.json"
        /\ <<o.publisher, o.idSuffix>> = <<"own", "">> => name \in {"release.json", "self.json"}
    BY <2>1, AcceptedOverride
  <2>3. vsix'.listed => name = "release.json" \/ manifest.flags = "Public"
    BY <1>1, <2>2
  <2>4. name = "release.json" => vsix'.listed
    BY <1>1, <2>2
  <2>5. vsix'.updates = <<"own", "">> => name \in {"release.json", "self.json"}
    BY <1>1, <2>2
  <2> QED
    BY <1>1, <2>3, <2>4, <2>5 DEF NoAccidentalListing
<1> QED
  BY <1>2, <1>3

\* An accepted configuration lists the extension where it is meant to be.
THEOREM ListingsAreMeant == Spec => []NoAccidentalListing
<1>1. Init => NoAccidentalListing
  BY DEF Init, NoAccidentalListing
<1>2. NoAccidentalListing /\ [Next]_vars => NoAccidentalListing'
  <2> SUFFICES ASSUME NoAccidentalListing, [Next]_vars PROVE NoAccidentalListing'
    OBVIOUS
  <2>1. CASE \E extra \in Untracked : Prepare(extra)
    BY <2>1 DEF Prepare, NoAccidentalListing, NoVsix
  <2>2. CASE UNCHANGED <<manifest, vsix>>
    BY <2>2 DEF NoAccidentalListing, NoVsix
  <2>3. CASE \E o \in Overrides : CreateExtension(o[1], o[2])
    BY <2>3, PackagingListsAsMeant
  <2>4. \/ \E extra \in Untracked : Prepare(extra)
        \/ UNCHANGED <<manifest, vsix>>
        \/ \E o \in Overrides : CreateExtension(o[1], o[2])
    BY DEF Next, vars, input, Clear, CopyTasks, RefuseStrays, CopyRootDirs, CopyRootAssets,
           AssertOutput, Kill
  <2> QED BY <2>1, <2>2, <2>3, <2>4
<1> QED BY <1>1, <1>2, PTL DEF Spec

=============================================================================
