------------------------------- MODULE Package -------------------------------
(***************************************************************************)
(* What the .vsix holds.                                                   *)
(*                                                                         *)
(* A required check judges the tracked tree and the extension manifest at  *)
(* review time.  Later, a machine that also holds what its package manager *)
(* installed, what its compiler wrote and what its owner left there        *)
(* composes ./build from an allowlist, and tfx packages ./build with one   *)
(* of the overrides under configs/.  Both read the same rules; only the    *)
(* composition sees the untracked files.                                   *)
(***************************************************************************)
EXTENDS Naturals, Sequences, FiniteSets

CONSTANTS
  Paths,       \* the files a working tree may hold, as sequences of names
  DropNames,   \* names that are dev-only, with all that is beneath them
  NeverNames,  \* names of secrets
  ShipNames,   \* names on the allowlist
  Trees,       \* tracked trees that may be reviewed
  Manifests,   \* extension manifests that may be reviewed
  Untracked,   \* what a building machine may add to the tracked tree
  Overrides,   \* <<file under configs/, its content>>
  MinTasks     \* the floor that task-universe.json declares

ROOT_DIRS == {"images"}
ManifestName == "azure-devops-extension.json"
Notices == "THIRD_PARTY_NOTICES.md"
ROOT_ASSETS == {ManifestName, "LICENSE", "overview.md", Notices}

Kinds == {"absent", "file", "symlink", "other"}
Tree == [Paths -> Kinds]
Last(p) == p[Len(p)]

\* p is the path d or lies beneath it.
Within(p, d) == Len(d) <= Len(p) /\ SubSeq(p, 1, Len(d)) = d

\* What the manifest's content and icons name; <<>> is a path not given.
Listing(m) == {m.details, m.license} \cup m.icons

\* Sequences of at least one name, none a directory of another; no rule drops
\* or forbids a root asset, nor drops a task.json; what a machine adds is not a
\* root asset, which are tracked.
ASSUME PackageAssumption ==
  /\ Paths \subseteq Seq(STRING)
  /\ \A p \in Paths : Len(p) > 0 /\ \A q \in Paths : Within(q, p) => q = p
  /\ {<<a>> : a \in ROOT_ASSETS} \subseteq Paths
  /\ ROOT_ASSETS \cap (DropNames \cup NeverNames) = {}
  /\ "task.json" \notin DropNames
  /\ \A m \in Manifests : m.files \cup Listing(m) \subseteq Seq(STRING)
  /\ Trees \subseteq Tree
  /\ \A extra \in Untracked :
        DOMAIN extra \subseteq {p \in Paths : Len(p) > 1} /\ \A p \in DOMAIN extra : extra[p] \in Kinds

-----------------------------------------------------------------------------
\* The rules that the check and the composition share.

InNodeModules(p) == \E i \in DOMAIN p : p[i] = "node_modules"

\* Faulty variant: a bundled dependency is exempt from the secrets' rule too.
classifyExemptFirst(p) ==
  CASE \E i \in DOMAIN p : p[i] \in DropNames -> "drop"
    [] OTHER -> IF InNodeModules(p) THEN "ship"
                ELSE IF Last(p) \in NeverNames THEN "never-ship"
                ELSE IF Last(p) \in ShipNames THEN "ship" ELSE "unknown"

classify(p) ==
  CASE \E i \in DOMAIN p : p[i] \in DropNames -> "drop"
    [] OTHER -> IF Last(p) \in NeverNames THEN "never-ship"
                ELSE IF InNodeModules(p) \/ Last(p) \in ShipNames THEN "ship" ELSE "unknown"

Present(tree) == {p \in Paths : tree[p] # "absent"}

\* The walk of dir comes upon p: it enters no directory that is dropped.
Walks(dir, p) ==
  Within(p, dir) /\ \A i \in Len(dir) + 1 .. Len(p) - 1 : p[i] \notin DropNames

Walked(tree, dirs) == {p \in Present(tree) : \E dir \in dirs : Walks(dir, p)}

discoverTaskDirs(tree) ==
  {SubSeq(p, 1, 3) :
     p \in {q \in Present(tree) : Len(q) = 4 /\ q[1] = "Tasks" /\ q[4] = "task.json"}}

InsideTaskDir(tree, p) == \E dir \in discoverTaskDirs(tree) : Within(p, dir)

Required(a, bundling) == a # Notices \/ bundling

-----------------------------------------------------------------------------
\* The check of the tracked tree (check-package-composition.js), and the floor
\* under the number of tasks (check-versions.js).

UniverseOK(tree) == Cardinality(discoverTaskDirs(tree)) >= MinTasks

\* Faulty variant: a stray is nobody's.
TasksOKWithStrays(tree) ==
  \A p \in Walked(tree, {<<"Tasks">>}) :
    /\ tree[p] = "file"
    /\ Last(p) = "task.json" => SubSeq(p, 1, Len(p) - 1) \in discoverTaskDirs(tree)
    /\ InsideTaskDir(tree, p) => classify(p) \in {"drop", "ship"}

TasksOK(tree) ==
  \A p \in Walked(tree, {<<"Tasks">>}) :
    /\ tree[p] = "file"
    /\ Last(p) = "task.json" => SubSeq(p, 1, Len(p) - 1) \in discoverTaskDirs(tree)
    /\ \/ classify(p) = "drop"
       \/ InsideTaskDir(tree, p) /\ classify(p) = "ship"

RootDirsOK(tree) ==
  \A p \in Walked(tree, {<<d>> : d \in ROOT_DIRS}) :
    /\ tree[p] # "symlink"
    /\ tree[p] = "file" => classify(p) \in {"drop", "ship"}

RootAssetsOK(tree) ==
  LET bundling == \E p \in Walked(tree, {<<"Tasks">>}) : InNodeModules(p) /\ classify(p) = "ship"
  IN \A a \in ROOT_ASSETS :
       /\ tree[<<a>>] # "symlink"
       /\ tree[<<a>>] = "absent" => ~Required(a, bundling)

Exists(tree, path) == \E p \in Present(tree) : Within(p, path)

ComposedLocation(tree, path) ==
  \/ path \in {<<a>> : a \in ROOT_ASSETS}
  \/ path[1] \in ROOT_DIRS
  \/ \E dir \in discoverTaskDirs(tree) : Within(path, dir) \/ Within(dir, path)

ManifestPathOK(tree, path) ==
  /\ path # <<>>
  /\ Exists(tree, path) /\ ComposedLocation(tree, path)
  /\ path \in Paths => classify(path) = "ship"

FilesOK(tree, m) ==
  \A path \in m.files :
    /\ path # <<>>
    /\ Exists(tree, path) /\ ComposedLocation(tree, path)
    /\ path[1] = "Tasks" => \E dir \in discoverTaskDirs(tree) : Within(dir, path)

ContributionsOK(tree, m) ==
  /\ m.contributions = discoverTaskDirs(tree)
  /\ \A dir \in discoverTaskDirs(tree) : \E path \in m.files : Within(dir, path)

\* Faulty variant: a root asset that is composed is taken to be packaged.
RootAssetsNamedByComposition(tree, m) ==
  \A a \in ROOT_ASSETS \ {ManifestName} : Exists(tree, <<a>>) => ComposedLocation(tree, <<a>>)

RootAssetsNamed(tree, m) ==
  \A a \in ROOT_ASSETS \ {ManifestName} : Exists(tree, <<a>>) => <<a>> \in m.files \cup Listing(m)

Check(tree, m) ==
  /\ UniverseOK(tree) /\ tree[<<ManifestName>>] = "file"
  /\ TasksOK(tree) /\ RootDirsOK(tree) /\ RootAssetsOK(tree)
  /\ m.icon /\ \A path \in Listing(m) : ManifestPathOK(tree, path)
  /\ FilesOK(tree, m) /\ ContributionsOK(tree, m) /\ RootAssetsNamed(tree, m)

\* The publish identity (check-versions.js): an override's file, the suffix of
\* its id, and whether it may list the extension publicly.
OVERRIDES ==
  [name \in {"release.json", "dev.json", "test.json", "self.json"} |->
     [mayBePublic |-> name = "release.json",
      idSuffix |-> CASE name = "release.json" -> "" [] name = "dev.json" -> "-dev"
                     [] name = "test.json" -> "-test" [] name = "self.json" -> "any"]]

\* Faulty variant: the gallery flags are not read.
OverrideOKWithoutFlags(name, o) ==
  /\ name \in DOMAIN OVERRIDES
  /\ o.public = IF OVERRIDES[name].mayBePublic THEN "true" ELSE "false"
  /\ OVERRIDES[name].idSuffix # "any" => o.idSuffix = OVERRIDES[name].idSuffix /\ o.publisher = "own"

OverrideOK(name, o) ==
  /\ name \in DOMAIN OVERRIDES
  /\ o.public = IF OVERRIDES[name].mayBePublic THEN "true" ELSE "false"
  /\ o.flags = "Public" => OVERRIDES[name].mayBePublic
  /\ OVERRIDES[name].idSuffix # "any" => o.idSuffix = OVERRIDES[name].idSuffix /\ o.publisher = "own"

-----------------------------------------------------------------------------
VARIABLES
  tracked,   \* the tree that was reviewed
  manifest,  \* its azure-devops-extension.json
  tree,      \* the tree of the machine that builds
  phase,     \* what copy-build.js is at
  refused,   \* it has refused something
  bundles,   \* it has composed a dependency
  build,     \* what ./build holds
  vsix       \* what tfx made of it

input == <<tracked, manifest, tree>>
vars == <<input, phase, refused, bundles, build, vsix>>

Working == {"tasks", "strays", "root dirs", "root assets", "output"}
NoVsix == [files |-> {}]

TypeOK ==
  /\ tracked \in Trees /\ manifest \in Manifests /\ tree \in Tree
  /\ phase \in Working \cup {"ready", "composed", "refused", "killed"}
  /\ refused \in BOOLEAN /\ bundles \in BOOLEAN
  /\ build \subseteq Paths
  /\ phase \in Working \cup {"composed"} => \A p \in build : tree[p] = "file"
  /\ phase = "refused" => build = {}

Init ==
  /\ tracked \in Trees /\ manifest \in Manifests
  /\ tree = tracked
  /\ phase = "ready"
  /\ refused = FALSE /\ bundles = FALSE
  /\ build = {}
  /\ vsix = NoVsix

\* npm ci, tsc, and whatever else the machine holds; any earlier ./build stays.
Prepare(extra) ==
  /\ phase \notin Working
  /\ phase' = "ready"
  /\ tree' = [p \in Paths |-> IF p \in DOMAIN extra THEN extra[p] ELSE tracked[p]]
  /\ vsix' = NoVsix
  /\ UNCHANGED <<tracked, manifest, refused, bundles, build>>

Clear ==
  /\ phase = "ready"
  /\ phase' = "tasks"
  /\ build' = {}
  /\ refused' = FALSE /\ bundles' = FALSE
  /\ UNCHANGED <<input, vsix>>

\* Faulty variant: a link is followed.
CopyTreeFollowing(dirs) ==
  LET met == Walked(tree, dirs)
      shipped == {p \in met : classify(p) = "ship" /\ tree[p] # "other"}
  IN /\ build' = build \cup shipped
     /\ bundles' = (bundles \/ \E p \in shipped : InNodeModules(p))
     /\ refused' = (refused \/ \E p \in met : classify(p) \notin {"drop", "ship"})

CopyTree(dirs) ==
  LET met == Walked(tree, dirs)
      files == {p \in met : tree[p] = "file"}
      shipped == {p \in files : classify(p) = "ship"}
  IN /\ build' = build \cup shipped
     /\ bundles' = (bundles \/ \E p \in shipped : InNodeModules(p))
     /\ refused' = (refused \/ met # files \/ \E p \in files : classify(p) \notin {"drop", "ship"})

CopyTasks ==
  /\ phase = "tasks"
  /\ phase' = "strays"
  /\ CopyTree(discoverTaskDirs(tree))
  /\ UNCHANGED <<input, vsix>>

RefuseStrays ==
  /\ phase = "strays"
  /\ phase' = "root dirs"
  /\ refused' = (refused \/ \E p \in Walked(tree, {<<"Tasks">>}) :
                              /\ tree[p] \in {"file", "symlink"}
                              /\ ~InsideTaskDir(tree, p) /\ classify(p) # "drop")
  /\ UNCHANGED <<input, bundles, build, vsix>>

CopyRootDirs ==
  /\ phase = "root dirs"
  /\ phase' = "root assets"
  /\ CopyTree({<<d>> : d \in ROOT_DIRS})
  /\ UNCHANGED <<input, vsix>>

\* A directory in an asset's place makes the copy throw: Kill.
CopyRootAssets ==
  /\ phase = "root assets" /\ \A a \in ROOT_ASSETS : tree[<<a>>] # "other"
  /\ phase' = "output"
  /\ build' = build \cup {p \in {<<a>> : a \in ROOT_ASSETS} : tree[p] = "file"}
  /\ refused' = (refused \/ \E a \in ROOT_ASSETS :
                              \/ tree[<<a>>] = "symlink"
                              \/ tree[<<a>>] = "absent" /\ Required(a, bundles))
  /\ UNCHANGED <<input, bundles, vsix>>

\* What the packaged manifest promises is there, and all that is there ships.
OutputOK ==
  /\ \A path \in (Listing(manifest) \cup manifest.files) \ {<<>>} : \E p \in build : Within(p, path)
  /\ \A p \in build : p \in {<<a>> : a \in ROOT_ASSETS} \/ classify(p) = "ship"

\* Anything refused, at any step, removes ./build.
AssertOutput ==
  /\ phase = "output"
  /\ IF ~refused /\ OutputOK
     THEN phase' = "composed" /\ UNCHANGED <<refused, build>>
     ELSE phase' = "refused" /\ refused' = TRUE /\ build' = {}
  /\ UNCHANGED <<input, bundles, vsix>>

\* The process dies, or a file system call throws; a removal that had begun may
\* have removed any part.
Kill ==
  /\ \/ phase \in Working /\ build' = build
     \/ phase = "ready" /\ build' \in {{}, build, build \ {<<ManifestName>>}}
  /\ phase' = "killed"
  /\ UNCHANGED <<input, refused, bundles, vsix>>

\* tfx packages what the manifest names, under the override's words where it
\* has any.
CreateExtension(name, o) ==
  LET Covered(p) == \E path \in manifest.files \cup Listing(manifest) : Within(p, path)
      Merged(override, field) ==
        IF override[field] = "unset" THEN manifest[field] ELSE override[field]
  IN /\ phase \in {"composed", "killed"}
     /\ <<ManifestName>> \in build
     /\ vsix' = [files    |-> {p \in build : p = <<ManifestName>> \/ Covered(p)},
                 whole    |-> phase = "composed",
                 override |-> name,
                 reviewed |-> OverrideOK(name, o) /\ manifest.public = "false",
                 listed   |-> Merged(o, "public") = "true" \/ Merged(o, "flags") = "Public",
                 updates  |-> <<o.publisher, o.idSuffix>>]
     /\ UNCHANGED <<input, phase, refused, bundles, build>>

Next ==
  \/ \E extra \in Untracked : Prepare(extra)
  \/ Clear \/ CopyTasks \/ RefuseStrays \/ CopyRootDirs \/ CopyRootAssets \/ AssertOutput
  \/ Kill
  \/ \E o \in Overrides : CreateExtension(o[1], o[2])

Spec == Init /\ [][Next]_vars

-----------------------------------------------------------------------------
\* Safety.

\* The machine takes nothing away from the tracked tree.
OnlyAdds == \A extra \in Untracked : \A p \in DOMAIN extra : extra[p] # "absent"

\* It, or what it is in, has a name that is never composed.
DevOnly(dir) == \E i \in DOMAIN dir : dir[i] \in DropNames

\* The composition would copy p.
Composable(p) ==
  \/ p \in {<<a>> : a \in ROOT_ASSETS}
  \/ /\ classify(p) = "ship"
     /\ InsideTaskDir(tree, p) \/ p[1] \in ROOT_DIRS

\* No secret and nothing outside the allowlist reaches a .vsix, whatever lies
\* on the machine and wherever the composition was killed; and one made of a
\* composition that ran to its end holds only files of the tree it ran on, none
\* of an earlier ./build (copy-build.js 104-207, #41).
NothingUnvettedShips ==
  vsix # NoVsix =>
    /\ \A p \in vsix.files : Last(p) \notin NeverNames /\ ~DevOnly(p)
    /\ vsix.whole => \A p \in vsix.files : tree[p] = "file" /\ Composable(p)

\* A .vsix composed to the end from a tree that passed review holds what the
\* manifest's listing names, the task behind every contribution, unless it has
\* a dev-only name, and the notices if it bundles a dependency (#42, #46, #47,
\* #499).
VsixKeepsItsPromises ==
  vsix # NoVsix /\ vsix.whole /\ Check(tracked, manifest) =>
    /\ \A path \in Listing(manifest) : \E p \in vsix.files : Within(p, path)
    /\ \A dir \in manifest.contributions :
          DevOnly(dir) \/ dir \o <<"task.json">> \in vsix.files
    /\ (\E p \in vsix.files : InNodeModules(p)) => <<Notices>> \in vsix.files

\* What the machine added, and review could not see, is not to be packaged.
Leftover ==
  \E p \in Walked(tree, {<<"Tasks">>} \cup {<<d>> : d \in ROOT_DIRS}) :
    /\ tree[p] # tracked[p]
    /\ tree[p] # "file" \/ (classify(p) # "drop" /\ ~Composable(p))

\* Where the check is silent and the composition is not: an entry beneath a root
\* directory that is neither a file nor a link; a path of the manifest with
\* nothing beneath it but dev-only files; a link, or worse, in a task directory
\* that has a dev-only name, which the walk of Tasks/ does not enter.
Unforeseen ==
  \/ \E p \in Walked(tracked, {<<d>> : d \in ROOT_DIRS}) : tracked[p] = "other"
  \/ \E path \in Listing(manifest) \cup manifest.files :
        \A p \in Present(tracked) : Within(p, path) => classify(p) = "drop"
  \/ \E dir \in discoverTaskDirs(tree) :
        DevOnly(dir) /\ \E p \in Walked(tree, {dir}) : tree[p] # "file"

\* "the gate and the packager cannot disagree about the same file"
\* (check-package-composition.js 13-15): the composition refuses a tree that
\* passed review only for what is not in the reviewed tree, a dependency that
\* was installed without notices in the tree, or one of three gaps in the check.
RefusalIsExplained ==
  phase = "refused" /\ Check(tracked, manifest) =>
    \/ Leftover
    \/ bundles /\ tree[<<Notices>>] = "absent"
    \/ Unforeseen

\* With every override and the manifest as check-versions.js wants them, a
\* public listing comes from release.json alone, or from gallery flags in the
\* base manifest, which nothing reads; and none but it, or a personal override,
\* updates the released listing (#5 of check-versions.js, 345-359).
NoAccidentalListing ==
  vsix # NoVsix /\ vsix.reviewed =>
    /\ vsix.listed => vsix.override = "release.json" \/ manifest.flags = "Public"
    /\ vsix.override = "release.json" => vsix.listed
    /\ vsix.updates = <<"own", "">> => vsix.override \in {"release.json", "self.json"}

=============================================================================
