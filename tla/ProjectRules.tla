----------------------------- MODULE ProjectRules -----------------------------
(***************************************************************************)
(* The rules that look at more than one declaration: static usage and the  *)
(* dependencies it does not show to be needed, overlapping packages, setup *)
(* findings, priorities and recommendations (packages/rules-javascript:    *)
(* source-usage.ts, unnecessary-dependency.ts, dependency-overlap.ts,      *)
(* project-readiness.ts, priority-policy.ts, recommendations.ts).          *)
(*                                                                         *)
(* What the files of a package refer to is its set `uses` of records       *)
(* [name, seen]: a reference that the parser cannot see, in a file that    *)
(* does not parse or through a computed name, leaves an issue instead.     *)
(***************************************************************************)
EXTENDS WorkspaceInspection, FiniteSetsExt

CONSTANTS
    Overlap,       \* [what both do -> the two packages that do it]
    Executable,    \* the catalogue of executables, each the name of a tool
    Directory      \* what a lint command can be confined to

-----------------------------------------------------------------------------
(* Static usage. *)

Ancestors(members, m) == {a \in members : a.path \in {m.path, Root}}

DeclaredNames(m) == {d.name : d \in m.declarations}

CommandsIn(m) == UNION {s.commands : s \in m.scripts}

\* A script refers to the package of every tool it starts.
ScriptUses(m) ==
    {ToolPackage[c.tool] : c \in {x \in CommandsIn(m) : x.tool \in DOMAIN ToolPackage}}

\* Commands outside the catalogue may use anything.
ScriptOpaque(m) ==
    \E c \in CommandsIn(m) :
        c.do = "dynamic" \/ (c.do = "other" /\ c.tool \notin Executable)

References(m) == {u.name : u \in {x \in m.uses : x.seen}} \cup ScriptUses(m)

\* The issues that say the references of m may not be all.
UsageIssues(snapshot, m) ==
    (IF \E u \in m.uses : ~u.seen THEN {"unseen_reference"} ELSE {})
      \cup (IF ScriptOpaque(m) THEN {"dynamic_reference"} ELSE {})
      \cup (IF m.files \cap CodeFile = {} THEN {"no_source"} ELSE {})
      \cup (IF snapshot.complete THEN {} ELSE {"acquisition"})

Acquisition == {"no_source", "acquisition"}

\* Mutant: a root answers for itself alone.
SharedIssues_OwnOnly(snapshot, members, m) ==
    UsageIssues(snapshot, m)
      \ (IF m.role = "orchestrator" /\ snapshot.complete THEN {"no_source"} ELSE {})

\* A root without source of its own answers for all members; the others for
\* themselves and for what the root leaves open.
SharedIssues(snapshot, members, m) ==
    IF m.role = "orchestrator"
    THEN (UNION {UsageIssues(snapshot, x) : x \in members \ {m}})
           \cup (UsageIssues(snapshot, m) \ (IF snapshot.complete THEN {"no_source"} ELSE {}))
    ELSE UsageIssues(snapshot, m)
           \cup (UsageIssues(snapshot, MemberAt(members, Root)) \ Acquisition)

\* A reference counts for the closest package that declares the name.
UsedPackages(members, owner) ==
    {n \in DeclaredNames(owner) :
        \E m \in members :
            /\ owner \in Ancestors(members, m)
            /\ n \in References(m)
            /\ owner = m \/ n \notin DeclaredNames(m)}

-----------------------------------------------------------------------------
(* Findings. *)

NameBasis(n) == [name |-> n, spec |-> NoVersion]

InstalledNames(m) == {d.name : d \in ExternalDeclarations(m)}

ConfigurationLimited(m) == m.files \cap {"opaque_config", "extends_package"} # {}

\* Non-use is inferred from complete evidence only.
PotentiallyUnnecessary(snapshot, members, m) ==
    IF SharedIssues(snapshot, members, m) # {} \/ ConfigurationLimited(m) THEN {}
    ELSE UNION {Finding(m, NameBasis(n), "unnecessary", NoVersion, NoAdvisory) :
                   n \in InstalledNames(m) \ UsedPackages(members, m)}

\* The directories every command of a package is confined to, if they are.
CommandsFor(m, package) ==
    {c \in CommandsIn(m) :
        c.do = "runner" /\ c.tool \in DOMAIN ToolPackage /\ ToolPackage[c.tool] = package}

Confined(m, package) ==
    /\ CommandsFor(m, package) # {}
    /\ \A c \in CommandsFor(m, package) : c.arguments # {} /\ c.arguments \subseteq Directory

Targets(m, package) == UNION {c.arguments : c \in CommandsFor(m, package)}

DisjointExplicitScopes(snapshot, m, pair) ==
    /\ snapshot.complete
    /\ \A p \in pair : Confined(m, p)
    /\ \A p, q \in pair : p # q => Targets(m, p) \cap Targets(m, q) = {}

DependencyOverlap(snapshot, m) ==
    UNION {Finding(m, NameBasis(Min(Overlap[c])), "overlap", NoVersion, Max(Overlap[c])) :
              c \in {x \in DOMAIN Overlap :
                        /\ Overlap[x] \subseteq InstalledNames(m)
                        /\ ~DisjointExplicitScopes(snapshot, m, Overlap[x])}}

\* A failing check of the setup is a finding.
SetupFindings(checks, m) ==
    UNION {Finding(m, NameBasis(NoName), c.of, NoVersion, NoAdvisory) :
              c \in {x \in checks : /\ x.at = m.path /\ x.state = "fail"
                                    /\ x.category \in {"maintainability", "testing", "tooling"}}}

ProjectOutputs(snapshot, members, checks) ==
    [unnecessary |-> UNION {PotentiallyUnnecessary(snapshot, members, m) : m \in members},
     overlap     |-> UNION {DependencyOverlap(snapshot, m) : m \in members},
     setup       |-> UNION {SetupFindings(checks, m) : m \in members}]

-----------------------------------------------------------------------------
(* Priorities and recommendations. *)

\* Heuristic findings are of low priority already: their confidence caps nothing.
Priority(finding, osv) ==
    CASE finding.id.code = "vulnerability" ->
            (LET rating == AdvisorySeverity(osv.records, finding.id.advisory)
             IN  IF rating \in {"unknown", "none"} THEN "low" ELSE rating)
      [] finding.id.code = "deprecated" -> "medium"
      [] OTHER -> "low"

Findings(outputs) == {o \in outputs : o.kind = "finding"}

\* An update is not advised where a migration of the package is.
Recommended(outputs) ==
    {f \in Findings(outputs) :
        f.id.code = "outdated" =>
            ~\E g \in Findings(outputs) :
                g.id.code = "migration" /\ g.at = f.at /\ g.basis.name = f.basis.name}
=============================================================================
