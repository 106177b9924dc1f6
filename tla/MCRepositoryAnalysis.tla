-------------------------- MODULE MCRepositoryAnalysis --------------------------
(***************************************************************************)
(* Instances of RepositoryAnalysis for TLC: families of worlds, each a     *)
(* plain repository with some of its parts varied.                         *)
(* Packages: 1 "lib", also the name of a member; 2 and 6 libraries;        *)
(* 3 vitest, 4 eslint, 5 typescript.  Advisories: 1 high and 2 unrated are *)
(* aliases; 3 is withdrawn; 4 is rated none.                               *)
(***************************************************************************)
EXTENDS RepositoryAnalysis

CONSTANT Families      \* which families of worlds to start from

MCWorkspaceProtocol == RangeSpecifier("workspace:*")
MCAdvisory    == 1..4
MCWithdrawn   == {3}
MCAliases     == <<{2}, {}, {}, {}>>
MCBaseScore   == <<75, Unrated, 95, 0>>
MCAffected    == <<{2, 6}, {2, 6}, {2, 6}, {2, 6}>>
MCToolPackage == [vitest |-> 3, eslint |-> 4, tsc |-> 5]
MCToolPurpose == [vitest |-> "test", eslint |-> "lint", tsc |-> "typecheck"]
MCLintTool    == {4}
MCOverlap     == [http |-> {2, 6}, lint |-> {4, 5}]
MCExecutable  == {"vitest", "eslint", "tsc", NodeTest}
MCDirectory   == {"src", "lib"}

V(major, minor) == [major |-> major, minor |-> minor, patch |-> 0, pre |-> <<>>]
Caret           == RangeSpecifier("^1.0.0")

-----------------------------------------------------------------------------
(* Parts of a repository. *)

Dep(name, spec)     == [name |-> name, spec |-> spec, group |-> "dependencies"]
DevDep(name, spec)  == [name |-> name, spec |-> spec, group |-> "devDependencies"]
PeerDep(name, spec) == [name |-> name, spec |-> spec, group |-> "peerDependencies"]

Run(tool, arguments)  == Command("runner", {}, "", tool, arguments)
Delegate(paths, name) == Command("delegate", paths, name, "npm", {})
Script(name, purpose, commands) == [name |-> name, purpose |-> purpose, commands |-> commands]
Use(name, seen) == [name |-> name, seen |-> seen]

Manifest(path, name, raw) ==
    [path |-> path, packageName |-> name, state |-> "ok", raw |-> raw, excluded |-> FALSE,
     files |-> {"js"}, scripts |-> {}, uses |-> {}]

\* A lockfile that agrees with the declarations of the packages, at version 1.0.0.
Entry(m, d) ==
    [at |-> m.path, importer |-> m.path, group |-> d.group, name |-> d.name, spec |-> d.spec,
     version |-> IF IsExact(d.spec) THEN d.spec ELSE V(1, 0), target |-> NoTarget]
Lock(manager, manifests) ==
    [manager |-> manager, readable |-> TRUE, format |-> 3,
     declared  |-> UNION {{[importer |-> m.path, group |-> d.group, name |-> d.name,
                            spec |-> d.spec] : d \in m.raw} : m \in manifests},
     installed |-> UNION {{Entry(m, d) : d \in m.raw} : m \in manifests}]

Repository(manifests, locks) ==
    [manager |-> "npm", pin |-> "exact", locks |-> locks, manifests |-> manifests,
     patterns |-> IF Cardinality(manifests) > 1 THEN "valid" ELSE "none",
     complete |-> TRUE, discovered |-> TRUE, known |-> TRUE]

Healthy == [versions |-> {V(1, 0), V(1, 1), V(2, 0)}, deprecated |-> {}, latest |-> V(2, 0)]

Plain(repository) ==
    [kind |-> "repository", repository |-> repository, lost |-> {},
     registry |-> [n \in 1..6 |-> Healthy], pages |-> <<>>, refused |-> {}]

\* The pages OSV has for version 1.0.0 of package 2.
Told2(pages) == [name |-> 2, version |-> V(1, 0)] :> pages

-----------------------------------------------------------------------------
(* One dependency: what is declared, locked, published, advised and lost. *)

OneRoot(spec) == {Manifest(Root, 9, {Dep(2, spec)})}

LocksOf(manifests) ==
    LET good == Lock("npm", manifests)
    IN  {{}, {good}, {[good EXCEPT !.readable = FALSE]}, {[good EXCEPT !.declared = {}]},
         {[good EXCEPT !.installed = {}]}, {good, Lock("pnpm", manifests)}, {Lock("yarn", manifests)}}

Published == {Healthy, [Healthy EXCEPT !.deprecated = {V(1, 0)}], NoAnswer}

DependencyWorlds ==
    LET worlds(spec, locks, lost) ==
            {[Plain(Repository(OneRoot(spec), locks)) EXCEPT
                 !.lost = lost, !.pages = Told2(pages), !.registry[2] = published] :
              pages \in {<<>>, <<{1}>>, <<{3}, {2}>>, <<{4}>>}, published \in Published}
    IN  UNION {(UNION {worlds(spec, locks, {}) : locks \in LocksOf(OneRoot(spec))})
                 \cup worlds(spec, {Lock("npm", OneRoot(spec))}, {"lockfile"}) :
               spec \in {V(1, 0), Caret}}

\* The same package twice, or its companions, under limits and refusals.
SeveralRaw ==
    {{Dep(2, V(1, 0)), DevDep(2, Caret)},
     {Dep(2, V(1, 0)), Dep(6, V(1, 0)), PeerDep(4, Caret)},
     {Dep(2, V(1, 0)), Dep(4, V(1, 0)), Dep(5, V(1, 0)), Dep(6, V(1, 0))}}

SeveralWorlds ==
    {[Plain(Repository(manifests, {Lock("npm", manifests)})) EXCEPT
         !.refused = {6}, !.pages = Told2(<<{1, 3}, {2}, {4}>>)] :
       manifests \in {{Manifest(Root, 9, raw)} : raw \in SeveralRaw}}

-----------------------------------------------------------------------------
(* A workspace: a root and a member, what they declare, use and lose. *)

RootsOf ==
    {[Manifest(Root, 9, {Dep(2, V(1, 0))}) EXCEPT !.files = files] : files \in {{}, {"js"}}}

MembersOf ==
    LET member(raw) == Manifest("a", 1, raw)
    IN  {[member({}) EXCEPT !.uses = uses] : uses \in {{}, {Use(2, TRUE)}, {Use(2, FALSE)}}}
          \cup {[member({Dep(2, V(1, 1))}) EXCEPT !.uses = uses] : uses \in {{}, {Use(2, TRUE)}}}
          \cup {member({Dep(6, Caret)})}
          \cup {[member({Dep(6, V(1, 0))}) EXCEPT !.state = "malformed"]}

WorkspaceWorlds ==
    {[Plain(Repository({r, m}, {Lock("npm", {r, m})})) EXCEPT
         !.lost = lost, !.pages = Told2(<<{1}>>)] :
       r \in RootsOf, m \in MembersOf,
       lost \in {{}, {"tree"}, {"manifest"}, {"workspace_file"}, {"source"}}}

\* A root with source, or without, over a member with tests: what the loss of the
\* source makes of the root.
RootWorlds ==
    {[Plain(Repository({[Manifest(Root, 9, {}) EXCEPT !.files = files], tested},
                       {Lock("npm", {tested})})) EXCEPT !.lost = lost] :
       files \in {{}, {"js"}}, lost \in {{}, {"source"}},
       tested \in {[Manifest("a", 1, {DevDep(3, V(1, 0))}) EXCEPT
                      !.scripts = {Script("test", "test", {Run("vitest", {})})},
                      !.files = {"ts", "test"}]}}

\* A dependency on the member, by protocol or by name, linked or not.
LinkWorlds ==
    LET a         == Manifest("a", 1, {Dep(2, V(1, 0))})
        b(spec)   == Manifest("b", 8, {Dep(1, spec)})
        root      == Manifest(Root, 9, {})
        linked(l) == [l EXCEPT !.installed =
                          {IF e.name = 1 THEN [e EXCEPT !.target = "a"] ELSE e : e \in @}]
    IN  UNION {UNION {
            {[Plain([Repository({root, a, b(spec)}, locks) EXCEPT !.manager = manager]) EXCEPT
                 !.lost = lost, !.pages = Told2(<<{1}>>)] :
              lost \in {{}, {"lockfile"}, {"manifest"}}, manager \in {"npm", NoManager, "pnpm"}} :
            locks \in {{}, {Lock("npm", {root, a, b(spec)})},
                       {linked(Lock("npm", {root, a, b(spec)}))},
                       {linked(Lock("pnpm", {root, a, b(spec)}))}}} :
           spec \in {Caret, MCWorkspaceProtocol}}

\* A dependency on the member that only the lockfile shows to be a link, under
\* a packageManager with a version, without one, and under none.
UnnamedWorlds ==
    LET a    == Manifest("a", 1, {})
        b    == Manifest("b", 8, {Dep(1, V(1, 0))})
        root == Manifest(Root, 9, {})
        lock == [Lock("npm", {root, a, b}) EXCEPT !.installed = {[e EXCEPT !.target = "a"] : e \in @}]
    IN  {[Plain([Repository({root, a, b}, {lock}) EXCEPT !.manager = manager, !.pin = "loose"]) EXCEPT
             !.lost = lost] :
           lost \in {{}, {"lockfile"}}, manager \in {"npm", NoManager, "npm without a version"}}

-----------------------------------------------------------------------------
(* The setup: scripts, tools, tests and configuration. *)

ToolsRaw == {DevDep(3, V(1, 0)), DevDep(4, V(1, 0))}

ScriptSets ==
    {{},
     {Script("test", "test", {Run("vitest", {})}), Script("lint", "lint", {Run("eslint", {"src"})})},
     {Script("test", "test", {Run("vitest", {"selecting"})})},
     {Script("test", "test", {Run(NodeTest, {})}), Script("types", "typecheck", {Run("tsc", {"lib"})}),
      Script("lint", "lint", {Run("eslint", {"src"})})},
     {Script("test", "test", {Delegate({Root}, "unit")}), Script("unit", "other", {Run("vitest", {})})},
     {Script("test", "test", {Delegate({Root}, "test")})},
     {Script("test", "test", Dynamic)},
     {Script("build", "other", {Command("other", {}, "", "make", {})}),
      Script("noop", "other", {Command("noop", {}, "", "echo", {})})}}

FileSets ==
    {{"ts", "test", "lint_config"}, {"js", "node_test"}, {"ts", "node_ts_test", "noCheck"},
     {"ts", "test_config", "custom_test"}, {"ts", "test", "excluding_config"},
     {"ts", "test", "opaque_config", "extends_package"}, {"js"}}

SetupRoot(scripts, files) ==
    LET typed == \E s \in scripts : s.purpose = "typecheck"
    IN  [Manifest(Root, 9, ToolsRaw \cup IF typed THEN {DevDep(5, V(1, 0))} ELSE {}) EXCEPT
            !.scripts = scripts, !.files = files]

Setup(root, lost) == [Plain(Repository({root}, {Lock("npm", {root})})) EXCEPT !.lost = lost]

\* Every script, every file, and a test file with every loss it is exposed to.
SetupWorlds ==
    LET usual == {Script("test", "test", {Run("vitest", {})}),
                  Script("lint", "lint", {Run("eslint", {"src"})})}
    IN  {Setup(SetupRoot(scripts, files), {}) :
           scripts \in {x \in ScriptSets : \E s \in x : s.purpose = "test"},
           files \in {{"ts", "test", "lint_config"}, {"js", "node_test"}, {"ts", "node_ts_test", "noCheck"}}}
          \cup {Setup(SetupRoot(scripts, {"js"}), {}) : scripts \in ScriptSets}
          \cup {Setup(SetupRoot(usual, files), {}) : files \in FileSets}
          \cup {Setup(SetupRoot(usual, files), lost) :
                   files \in {x \in FileSets : x \cap {"test", "test_config"} # {}},
                   lost \in {{"lockfile"}, {"tests"}, {"configuration"}, {"source", "tests"}}}
      \cup {Plain([Repository({Manifest(Root, 9, raw)}, {}) EXCEPT !.pin = pin]) :
               raw \in {{}, ToolsRaw}, pin \in {"loose", "unsupported"}}

-----------------------------------------------------------------------------
(* Manifests pasted alone, and repositories that cannot be analysed. *)

QuickWorlds ==
    {[Plain(Repository({Manifest(Root, 9, raw)}, {})) EXCEPT !.kind = "manifest"] :
       raw \in SeveralRaw \cup {{}, ToolsRaw}}

BrokenWorlds ==
    UNION {{[Plain(Repository({[Manifest(Root, 9, {}) EXCEPT !.state = state]}, {})) EXCEPT
                !.kind = kind] : kind \in {"repository", "manifest"}} :
           state \in {"missing", "malformed"}}

MCWorld ==
    UNION {CASE f = "dependencies" -> DependencyWorlds
             [] f = "several"      -> SeveralWorlds
             [] f = "workspace"    -> WorkspaceWorlds
             [] f = "roots"        -> RootWorlds
             [] f = "links"        -> LinkWorlds
             [] f = "unnamed"      -> UnnamedWorlds
             [] f = "setup"        -> SetupWorlds
             [] f = "others"       -> QuickWorlds \cup BrokenWorlds : f \in Families}
=============================================================================
