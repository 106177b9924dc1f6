--------------------------- MODULE WorkspaceProject ---------------------------
(***************************************************************************)
(* From an acquired snapshot to the project the rules see: the members of  *)
(* the workspace, their declarations and their resolved versions           *)
(* (packages/rules-javascript/src/workspace.ts, manifest.ts).              *)
(*                                                                         *)
(* A snapshot is a record                                                  *)
(*   manager     the root packageManager: a manager (npm@..., pnpm@... or  *)
(*               yarn@...), NoManager, or another text                     *)
(*   pin         its version: "exact", "loose", "none" or "unsupported"    *)
(*   locks       the acquired root lockfiles                               *)
(*   manifests   records [path, packageName, state, raw, excluded] of the  *)
(*               packages: state is "ok", "missing" or "malformed"; raw    *)
(*               the declarations [name, spec, group]; excluded by a "!"   *)
(*               pattern; uses, what its source refers to; and what the    *)
(*               inspection looks at in the package                        *)
(*   patterns    "valid", "invalid" or "none": the workspace declaration   *)
(*   complete    the acquisition covers the whole repository               *)
(*   discovered  it lists every manifest                                   *)
(*   known       there was an acquisition, not a pasted manifest alone     *)
(***************************************************************************)
EXTENDS Lockfile

CONSTANT InternalProtocol      \* the specifier "workspace:*"

IsManifest(m) ==
    m = [path |-> m.path, packageName |-> m.packageName, state |-> m.state, raw |-> m.raw,
         excluded |-> m.excluded, files |-> m.files, scripts |-> m.scripts, uses |-> m.uses]

IsSnapshot(s) ==
    /\ s = [manager |-> s.manager, pin |-> s.pin, locks |-> s.locks, manifests |-> s.manifests,
            patterns |-> s.patterns, complete |-> s.complete, discovered |-> s.discovered,
            known |-> s.known]
    /\ \A m \in s.manifests : IsManifest(m)

PeerGroup == "peerDependencies"
OwnSource == {"js", "ts"}      \* kinds of files; scripts and configuration are others

\* Members: the root and every manifest a pattern selects and none excludes.
Selected(snapshot) ==
    {m \in snapshot.manifests :
        m.path # Root /\ snapshot.patterns = "valid" /\ ~m.excluded}

RootManifest(snapshot) == CHOOSE m \in snapshot.manifests : m.path = Root

\* A selected manifest that cannot be read is left out, with an issue.
Manifests(snapshot) ==
    {RootManifest(snapshot)} \cup {m \in Selected(snapshot) : m.state = "ok"}

MemberPaths(snapshot) == {m.path : m \in Manifests(snapshot)}

-----------------------------------------------------------------------------
(* Declarations. *)

\* "external", "internal" to the workspace, or "unresolved".
LinkOf(snapshot, d, importer) ==
    IF d.spec = InternalProtocol
    THEN IF Cardinality({m \in Manifests(snapshot) : m.packageName = d.name}) = 1
         THEN "internal" ELSE "unresolved"
    ELSE IF d.group = PeerGroup THEN "external"
    ELSE NpmLink(snapshot.manager, snapshot.locks, Manifests(snapshot), d, importer)

Declarations(snapshot, manifest) ==
    {[name |-> d.name, spec |-> d.spec, group |-> d.group,
      link |-> LinkOf(snapshot, d, manifest.path)] : d \in manifest.raw}

\* A registry installation: not a peer constraint, not a link.
IsExternalDependency(d) ==
    d.group # PeerGroup /\ d.link = "external" /\ d.spec # InternalProtocol

ExternalDeclarations(member) == {d \in member.declarations : IsExternalDependency(d)}

-----------------------------------------------------------------------------
(* Members and the project. *)

Member(snapshot, manifest) ==
    LET declarations == Declarations(snapshot, manifest)
    IN  [path         |-> manifest.path,
         packageName  |-> manifest.packageName,
         declarations |-> declarations,
         files        |-> manifest.files,
         scripts      |-> manifest.scripts,
         uses         |-> manifest.uses,
         role         |-> IF /\ manifest.path = Root /\ Cardinality(Manifests(snapshot)) > 1
                             /\ manifest.files \cap OwnSource = {}
                          THEN "orchestrator" ELSE "package",
         lock         |-> NormalizeResolvedDependencies(
                              snapshot.manager, snapshot.locks,
                              {d \in declarations : IsExternalDependency(d)}, manifest.path)]

Members(snapshot) == {Member(snapshot, m) : m \in Manifests(snapshot)}

\* An internal target that the lockfiles do not show.
TargetUnshown(snapshot, d, importer) ==
    /\ NpmLink(snapshot.manager, snapshot.locks, Manifests(snapshot), d, importer) # "internal"
    /\ ~\E l \in {x \in snapshot.locks : x.manager = "pnpm" /\ x.readable} :
        \E e \in l.installed :
          /\ e.importer = importer /\ e.group = d.group /\ e.name = d.name /\ e.spec = d.spec
          /\ \E m \in Manifests(snapshot) : m.path = e.target /\ m.packageName = d.name

WorkspaceIssues(snapshot) ==
    LET all == Members(snapshot)
    IN  (IF snapshot.patterns = "invalid" THEN {"workspace_configuration_invalid"} ELSE {})
        \cup {"workspace_manifest_unavailable" : m \in {x \in Selected(snapshot) : x.state # "ok"}}
        \cup {"workspace_dependency_unresolved" :
                 d \in {x \in UNION {m.declarations : m \in all} : x.link = "unresolved"}}
        \cup {"lockfile_internal_target_unresolved" :
                 m \in {x \in all : /\ snapshot.locks # {}
                                    /\ \E d \in x.declarations :
                                          /\ d.link = "internal" /\ d.group # PeerGroup
                                          /\ TargetUnshown(snapshot, d, x.path)}}
        \cup UNION {m.lock.issues : m \in all}

\* The version StackLens reasons about: the declared one when it is exact,
\* else the one the lockfile resolves it to.
EffectiveVersion(member, name, spec) ==
    IF IsExact(spec) THEN spec
    ELSE IF member.lock.known THEN ResolvedVersion(member.lock, name, spec)
    ELSE NoVersion
=============================================================================
