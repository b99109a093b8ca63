------------------------------- MODULE Artifacts -------------------------------
(***************************************************************************)
(* What a directory is, by its name, what lies beside it and what lies in  *)
(* it (core/artifact.rs, observe.rs); and what follows from its kind.      *)
(* Names are in lower case; "*.py" stands for a file with that extension.  *)
(***************************************************************************)
EXTENDS Integers, Sequences, FiniteSets

CacheTags == {"absent", "verified", "invalid"}
OwnerTags == {"absent", "scratch", "cache", "foreign"}

(* A CACHEDIR.TAG counts when it can be read and begins with the signature. *)
CacheTag(files, header) ==
    IF "cachedir.tag" \notin files THEN "absent"
    ELSE IF header = "signature" THEN "verified" ELSE "invalid"

(* An owner's marker counts when it is one of ours.                         *)
OwnerTag(files, role) ==
    IF "owner.json" \notin files THEN "absent"
    ELSE IF role \in {"scratch", "cache"} THEN role ELSE "foreign"

(* What is listed of a directory: a file or a link has nothing within.      *)
Listing(shape, name, beside, dirsBeside, within, dirsWithin, header, role) ==
    [name |-> name, beside |-> beside, dirsBeside |-> dirsBeside,
     within |-> IF shape = "directory" THEN within ELSE {},
     dirsWithin |-> IF shape = "directory" THEN dirsWithin ELSE {},
     cache |-> IF shape = "directory" THEN CacheTag(within, header) ELSE "absent",
     owner |-> IF shape = "directory" THEN OwnerTag(within, role) ELSE "absent"]

-------------------------------------------------------------------------------
Layout(kind, names) ==
    [kind |-> kind, names |-> names, dirs |-> {}, files |-> {}, inside |-> {}]
Beside(kind, names, files) == [Layout(kind, names) EXCEPT !.files = files]

Solutions == {"*.sln", "*.slnx"}
Gradle == {"build.gradle", "build.gradle.kts", "settings.gradle", "settings.gradle.kts",
           "gradlew", "gradlew.bat"}
Python == {"*.py", "pyproject.toml", "requirements.txt", "setup.py", "setup.cfg",
           "pipfile", "poetry.lock"}

(* The layouts in the order in which they are tried: the name must be one   *)
(* of these, all the directories and one of the files must lie beside it,   *)
(* and the files inside it must be there.                                   *)
Layouts ==
    <<[Layout("unity-output", {"library", "temp", "obj"}) EXCEPT
          !.dirs = {"assets", "projectsettings"}],
      Beside("rust-target", {"target"}, {"cargo.toml"}),
      Beside("swift-package-build", {".build"}, {"package.swift"}),
      Beside("gleam-build", {"build"}, {"gleam.toml"}),
      Beside("maven-target", {"target"}, {"pom.xml"}),
      Beside("dotnet-output", {"bin", "obj"},
             {"*.csproj", "*.fsproj", "*.vbproj", "*.vcxproj", "*.proj"}),
      Beside("visual-studio-cache", {".vs"}, Solutions),
      Beside("gradle-output", {"build", ".gradle"}, Gradle),
      [Layout("cmake-output", {"build", "cmake-build-*", "out"}) EXCEPT
          !.inside = {"cmakecache.txt"}],
      Beside("solution-build", {"build"}, Solutions),
      Beside("js-output", {"dist", "build", "out", ".next", ".nuxt", ".turbo", "coverage"},
             {"package.json"}),
      Beside("python-cache",
             {"__pycache__", ".mypy_cache", ".pytest_cache", ".ruff_cache", ".tox"}, Python),
      Beside("node-modules", {"node_modules"}, {"package.json"}),
      [Beside("python-venv", {".venv", "venv"}, Python) EXCEPT !.inside = {"pyvenv.cfg"}]>>

Fits(layout, l) ==
    /\ l.name \in layout.names
    /\ layout.dirs \subseteq l.dirsBeside
    /\ layout.files = {} \/ layout.files \cap l.beside # {}
    /\ layout.inside \subseteq l.within

DeclaresRustTarget(l) ==
    /\ ".rustc_info.json" \in l.within
    /\ {"debug", "release"} \cap l.dirsWithin # {}

FirstFit(l) ==
    LET fitting == {i \in DOMAIN Layouts : Fits(Layouts[i], l)} IN
    IF fitting = {} THEN "none"
    ELSE Layouts[CHOOSE i \in fitting : \A j \in fitting : i <= j].kind

(* Its own word comes first, then what a tool has left inside, then where   *)
(* it lies, and the tag of a cache last.                                    *)
KindOf(l) ==
    CASE l.owner = "scratch" -> "owned-scratch"
      [] l.owner = "cache" -> "owned-cache"
      [] l.owner \notin {"scratch", "cache"} /\ DeclaresRustTarget(l) -> "rust-target"
      [] OTHER -> IF FirstFit(l) # "none" THEN FirstFit(l)
                  ELSE IF l.cache = "verified" THEN "tagged-cache" ELSE "none"

(* Mutant: a tag of a cache counts whether or not its signature does.       *)
FoundByAnyTag(l) ==
    IF KindOf(l) = "none" THEN "nothing"
    ELSE IF l.cache # "absent" \/ l.owner # "absent" \/ DeclaresRustTarget(l)
    THEN "declared" ELSE "inferred"

(* How it was identified, as the gates see it.                              *)
Found(l) ==
    IF KindOf(l) = "none" THEN "nothing"
    ELSE IF \/ l.cache = "verified" \/ l.owner \in {"scratch", "cache"}
            \/ DeclaresRustTarget(l)
    THEN "declared" ELSE "inferred"

-------------------------------------------------------------------------------
Kinds == {Layouts[i].kind : i \in DOMAIN Layouts}
            \cup {"tagged-cache", "owned-scratch", "owned-cache"}

TierOf(kind) ==
    CASE kind \in {"node-modules", "python-venv", "tagged-cache"} -> "reinstallable"
      [] kind = "unity-output" -> "expensive"
      [] OTHER -> "routine"

Granted(tiers, kind) == TierOf(kind) = "routine" \/ TierOf(kind) \in tiers

(* Kinds whose writers take locks, and where the locks are.                 *)
Protocol(kind) ==
    CASE kind = "rust-target" -> "cargo"
      [] kind = "swift-package-build" -> "swift-package"
      [] kind = "gleam-build" -> "gleam"
      [] kind \in {"owned-scratch", "owned-cache"} -> "temp-owner"
      [] OTHER -> "none"

(* What becomes of a repository found inside: in a tree of its producer's   *)
(* it goes with the tree, a package manager's own clones go from where it   *)
(* keeps them, a checkout linked from elsewhere and all others stay.        *)
Preserved(kind, area, entry) ==
    CASE kind \in {"owned-scratch", "owned-cache"} -> FALSE
      [] kind = "swift-package-build" ->
           entry = "linked-checkout" \/ area \notin {"checkouts", "repositories"}
      [] kind = "gleam-build" ->
           entry = "linked-checkout" \/ area \notin {"packages", "git"}
      [] OTHER -> TRUE
===============================================================================
