------------------------------ MODULE MCPackage ------------------------------
\* A repository of two tasks, every way to differ from a sound tree at one or
\* two paths, and a machine that adds one or two more.
EXTENDS Package, TLC

T1 == <<"Tasks", "Task", "TaskV1">>
T2 == <<"Tasks", "Installer", "InstallerV1">>
Stray == <<"Tasks", "README.md">>
Shared == <<"Tasks", "tsconfig.base.json">>
Nested == T1 \o <<"sub", "task.json">>
Misplaced == <<"Tasks", "Other", "coverage", "task.json">>
Source == T1 \o <<"index.ts">>
Compiled == T1 \o <<"index.js">>
Env == T1 \o <<".env">>
Fixture == T1 \o <<"Tests", "test.pem">>
Odd == T1 \o <<"data.bin">>
Dependency == T1 \o <<"node_modules", "lib.node">>
DependencyRc == T1 \o <<"node_modules", ".npmrc">>
Shim == T1 \o <<"node_modules", ".bin", "lib">>
Icon == <<"images", "icon.png">>
Sketch == <<"images", "coverage">>

MCPaths ==
  {<<a>> : a \in ROOT_ASSETS}
    \cup {T1 \o <<"task.json">>, T2 \o <<"task.json">>, Stray, Shared, Nested, Misplaced, Source,
          Compiled, Env, Fixture, Odd, Dependency, DependencyRc, Shim, Icon, Sketch}

MCDropNames == {"Tests", "coverage", ".bin", "index.ts", "tsconfig.base.json"}
MCNeverNames == {".env", "test.pem", ".npmrc"}
MCShipNames == {"task.json", "index.js", "icon.png", "README.md", "LICENSE", "overview.md",
                Notices, ManifestName}

SoundFiles ==
  {<<a>> : a \in ROOT_ASSETS}
    \cup {T1 \o <<"task.json">>, T2 \o <<"task.json">>, Shared, Source, Fixture, Icon}

Sound == [p \in MCPaths |-> IF p \in SoundFiles THEN "file" ELSE "absent"]

\* One path, or the notices and one more, are not as they should be.
Reviewable == MCPaths \ {Compiled, Env, Dependency, DependencyRc, Shim}
OneOff == {[Sound EXCEPT ![p] = k] : p \in Reviewable, k \in {"absent", "file", "symlink"}}
MCTrees ==
  OneOff \cup {[t EXCEPT ![<<Notices>>] = "absent"] : t \in OneOff}
         \cup {[Sound EXCEPT ![p] = "other"] : p \in {Icon, Sketch, <<"overview.md">>, <<ManifestName>>}}
         \cup {[Sound EXCEPT ![Sketch] = "file", ![Icon] = "absent"]}

SoundManifest ==
  [details |-> <<"overview.md">>, license |-> <<"LICENSE">>, icons |-> {Icon}, icon |-> TRUE,
   files |-> {<<"Tasks", "Task">>, <<"Tasks", "Installer">>, <<Notices>>},
   contributions |-> {T1, T2}, public |-> "false", flags |-> "unset"]

MCManifests ==
  {SoundManifest,
   [SoundManifest EXCEPT !.details = <<>>],
   [SoundManifest EXCEPT !.icons = {<<"images">>}],
   [SoundManifest EXCEPT !.icons = {}, !.icon = FALSE],
   [SoundManifest EXCEPT !.files = @ \ {<<Notices>>}],
   [SoundManifest EXCEPT !.files = @ \ {<<"Tasks", "Installer">>}],
   [SoundManifest EXCEPT !.files = {<<"Tasks">>, <<Notices>>}, !.contributions = @ \cup {SubSeq(Misplaced, 1, 3)}],
   [SoundManifest EXCEPT !.contributions = {T1}],
   [SoundManifest EXCEPT !.public = "true"],
   [SoundManifest EXCEPT !.flags = "Public"]}

\* What an install and a compilation add, and something left behind.
Installed == (Compiled :> "file") @@ (Dependency :> "file") @@ (Shim :> "symlink")
MCUntracked ==
  {Compiled :> "file", Installed}
    \cup {Installed @@ (p :> k) : p \in {Env, DependencyRc, Odd, Stray, Fixture}, k \in {"file"}}
    \cup {(Dependency :> "symlink") @@ (Compiled :> "file")}
    \cup {(p :> "symlink") @@ (Compiled :> "file") : p \in {Misplaced, Sketch}}

ASSUME MCOnlyAdds == OnlyAdds

Release == [public |-> "true", flags |-> "Public", idSuffix |-> "", publisher |-> "own"]
Dev == [public |-> "false", flags |-> "unset", idSuffix |-> "-dev", publisher |-> "own"]

MCOverrides ==
  {<<"release.json", Release>>, <<"release.json", [Release EXCEPT !.public = "false", !.flags = "unset"]>>,
   <<"dev.json", Dev>>, <<"dev.json", [Dev EXCEPT !.flags = "Public"]>>,
   <<"dev.json", [Dev EXCEPT !.public = "unset"]>>, <<"dev.json", [Dev EXCEPT !.idSuffix = ""]>>,
   <<"self.json", [Dev EXCEPT !.idSuffix = "", !.publisher = "own"]>>,
   <<"self.json", [Release EXCEPT !.publisher = "personal"]>>,
   <<"other.json", Release>>}

=============================================================================
